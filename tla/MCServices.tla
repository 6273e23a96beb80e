------------------------------ MODULE MCServices ------------------------------
(* Eleven parts of the API and the workers, checked in one run: the initial state *)
(* chooses the part that moves.  They share no state, but that a part which reads *)
(* assets moves them as well.                                                     *)
EXTENDS MemoryRevocation, MCProjectMemory, AssetReads, TableNormalization, ProjectPlugins,
        PluginManifest, ProjectTheme, GenerationCycle, ModelRoute, MCWorkspacePage, TLC

CONSTANTS
    p1, p2, m1, m2,
    MaxReadUploads, \* bound on the uploads that are made while assets are read
    MaxUnanswered   \* bound on the requests and COMMITs that are late at the same time

VARIABLE focus

servicesVars == <<revocationVars, projectMemoryVars, assetReadsVars, tableVars,
                  projectPluginsVars, manifestVars, projectThemeVars, generationCycleVars,
                  modelRouteVars, workspacePageVars, focus>>

\* p1 and p2 are processes, requests and keys of every part, m1 and m2 what they work on.
ServicesSymmetry == Permutations({p1, p2}) \cup Permutations({m1, m2})

\* Two memories made of the same message.
OneSource == [m \in Memories |-> Messages]

\* Two versions of one plugin, and another plugin that offers what the first version offers.
ThreePlugins == "one@1" :> "one" @@ "one@2" :> "one" @@ "two@1" :> "two"
ThreeCapabilities == "one@1" :> {"chart"} @@ "one@2" :> {"axis"} @@ "two@1" :> {"chart"}

\* Manifests with up to three themes, whatever they extend and set, one id declared twice
\* or not at all; and manifests with every other kind of part, in order and out of order.
Plain == [renderers |-> {"vega-lite"}, themes |-> <<>>, templates |-> <<>>,
          validators |-> <<>>, examples |-> <<>>]
SomeThemes ==
    UNION {{[i \in 1 .. Len(ids) |-> [id |-> ids[i], extends |-> parent[i], sets |-> sets[i]]] :
              parent \in [1 .. Len(ids) -> ThemeIds \cup BuiltinThemes \cup {NoRef}],
              sets \in [1 .. Len(ids) -> {{}, {"ink"}, {"size"}}]} :
           ids \in {<<"t1", "t2", "t3">>, <<"t1", "t1">>, <<"t1", "t2">>}}
SomeRules ==
    [kind : {"required-role"}, role : {"time"}]
    \cup [kind : {"allowed-renderer"}, renderer : {"vega-lite", "svg"}]
    \cup [kind : {"numeric-range"}, min : {NoRef, 1, 2}, max : {NoRef, 1}]
SomeTemplates == [id : {"a", "b"}, renderers : {{}, {"svg"}}]
SomeManifests ==
    {Plain} \cup {[Plain EXCEPT !.themes = themes] : themes \in SomeThemes}
    \cup {[Plain EXCEPT !.renderers = renderers, !.templates = templates, !.examples = examples,
             !.validators = <<[id |-> "v", template |-> template, rule |-> rule]>>] :
             renderers \in {{"vega-lite"}, {"vega-lite", "svg"}},
             templates \in {<<>>} \cup [1..1 -> SomeTemplates] \cup [1..2 -> SomeTemplates],
             examples \in {<<>>, <<[id |-> "e", template |-> "b"]>>},
             template \in {NoRef, "a", "b"}, rule \in SomeRules}
    \cup {[Plain EXCEPT !.validators =
             <<[id |-> "v", template |-> NoRef, rule |-> first],
               [id |-> id, template |-> NoRef, rule |-> second]>>] :
             id \in {"v", "w"}, first \in SomeRules, second \in SomeRules}

\* Charts with and without a time, and with numbers or without.
SomeCharts ==
    [template : {NoRef, "a"}, roles : {{}, {"time"}}, renderer : {"vega-lite"},
     low : {1, 2}, high : {2}]
    \cup [template : {"a"}, roles : {{}}, renderer : {"vega-lite"}, low : {1, NoRef}, high : {1}]

\* Headers in which names repeat one another, are blank, numbers or keys of objects; and
\* values of every kind in pairs, in rows that are complete, short or long.
Plainly(text, behind) == [name |-> Name(text, behind), spaced |-> FALSE]
SomeHeaders ==
    UNION {[1..n -> {Plainly("a", <<>>), [Plainly("a", <<>>) EXCEPT !.spaced = TRUE],
                     Plainly("a", <<2>>), Plainly("", <<>>), Plainly("1", <<>>),
                     [name |-> Prototype, spaced |-> FALSE]}] : n \in 0..3}
Sheet(source, header, rows) ==
    [source |-> source, header |-> header, rows |-> rows, complete |-> TRUE, dates |-> {}]
TwoColumns == <<Plainly("a", <<>>), Plainly("1", <<>>)>>
SomeSheets ==
    {Sheet(source, header, <<[i \in DOMAIN header |-> "text"]>>) :
        source \in {"csv", "xlsx", "lark"}, header \in SomeHeaders}
    \cup {Sheet("json", header, <<[i \in DOMAIN header |-> "text"]>>) :
             header \in {h \in SomeHeaders : IsInjective(h)}}
    \cup {Sheet(source, TwoColumns, <<<<a[1], b[1]>>, <<a[2], b[2]>>>>) :
             source \in {"csv", "xlsx", "json", "lark"}, a \in [1..2 -> Values],
             b \in [1..2 -> {"empty", "day"}]}
    \cup {[Sheet("lark", TwoColumns, rows) EXCEPT !.complete = complete, !.dates = dates] :
             rows \in {<<>>, <<<<"day", "text">>>>, <<<<"day">>>>},
             complete \in BOOLEAN, dates \in SUBSET {1, 2}}
    \cup {Sheet(source, <<Plainly("a", <<>>)>>, rows) : source \in {"csv", "xlsx"},
             rows \in {<<>>, <<<<>>>>, <<<<"text", "text">>>>,
                       <<<<"text">>, <<"text">>, <<"text">>>>}}
    \cup {Sheet(source, [i \in 1..4 |-> Plainly("a", <<>>)], <<<<"text">>>>) :
             source \in {"csv", "xlsx", "lark"}}
EmptySheet == Sheet("csv", <<>>, <<<<>>>>)
NumberNames == <<Name("1", <<>>)>>

\* Where assets are read, few uploads are made.
FewUploads == Cardinality({u \in Uploads \ Earlier : uploadStage[u] # "idle"}) <= MaxReadUploads

\* Few requests to the store and few COMMITs have lost their answer and are not decided yet.
FewUnanswered == Cardinality(inflight) + Cardinality(undecided) <= MaxUnanswered

\* What is in the store can be found, shown and read, and is what was uploaded.
StoredDataIsReadable == StoreMatchesRecords /\ ShownAssetsAreUsable /\ AcceptedTablesLoad

\* Neither a plugin alone nor the plugins of a project together are refused when used.
PluginsFitTogether == UsableNeverClash /\ AcceptedManifestsResolve

\* What is on record of a job's requests is what happened, and they carry the right key.
RequestsAreOnRecord == CycleIsOnRecord /\ RequestsUseSavedKey

\* The environments where no part looks at them.
PlainApi == [mode |-> "llm", model |-> "qwen", master |-> Unset]
PlainWorker == [fallback |-> TRUE, master |-> Unset]

\* The parts that do not move start in one state.
ServicesInit ==
    /\ focus \in {"revocation", "memory", "intake", "assets", "normal", "plugins", "manifest",
                 "theme", "cycle", "route", "page"}
    /\ (focus = "revocation" \/ scope = [m \in Memories |-> "unborn"]) /\ RevocationInit
    /\ ProjectMemoryInit /\ AssetReadsInit /\ ProjectPluginsInit /\ ProjectThemeInit
    /\ (focus = "normal" \/ uploaded = EmptySheet) /\ TableNormalizationInit
    /\ IF focus = "manifest" THEN PluginManifestInit
       ELSE manifest = Plain /\ verdict = "submitted"
    /\ (focus = "cycle" \/ route = "llm") /\ GenerationCycleInit
    /\ (focus = "route" \/ (apiEnv = PlainApi /\ workerEnv = PlainWorker)) /\ ModelRouteInit
    /\ (focus = "page" \/ page = FreshPage("P")) /\ WorkspacePageInit

ServicesNext ==
    /\ UNCHANGED focus
    /\ \/ /\ focus = "revocation" /\ RevocationNext
          /\ UNCHANGED <<projectMemoryVars, assetReadsVars, tableVars, projectPluginsVars,
                         manifestVars, projectThemeVars, generationCycleVars, modelRouteVars,
                         workspacePageVars>>
       \/ /\ focus = "memory" /\ ProjectMemoryNext
          /\ UNCHANGED <<revocationVars, assetReadsVars, tableVars, projectPluginsVars,
                         manifestVars, projectThemeVars, generationCycleVars, modelRouteVars,
                         workspacePageVars>>
       \/ /\ focus = "intake" /\ DataAssetNext /\ FewUnanswered'
          /\ UNCHANGED <<revocationVars, projectMemoryVars, assetReadVars, tableVars,
                         projectPluginsVars, manifestVars, projectThemeVars, generationCycleVars,
                         modelRouteVars, workspacePageVars>>
       \/ /\ focus = "assets" /\ AssetReadsNext /\ FewUploads' /\ FewUnanswered'
          /\ UNCHANGED <<revocationVars, projectMemoryVars, tableVars, projectPluginsVars,
                         manifestVars, projectThemeVars, generationCycleVars, modelRouteVars,
                         workspacePageVars>>
       \/ /\ focus = "normal" /\ TableNormalizationNext
          /\ UNCHANGED <<revocationVars, projectMemoryVars, assetReadsVars, projectPluginsVars,
                         manifestVars, projectThemeVars, generationCycleVars, modelRouteVars,
                         workspacePageVars>>
       \/ /\ focus = "plugins" /\ ProjectPluginsNext
          /\ UNCHANGED <<revocationVars, projectMemoryVars, assetReadsVars, tableVars,
                         manifestVars, projectThemeVars, generationCycleVars, modelRouteVars,
                         workspacePageVars>>
       \/ /\ focus = "manifest" /\ PluginManifestNext
          /\ UNCHANGED <<revocationVars, projectMemoryVars, assetReadsVars, tableVars,
                         projectPluginsVars, projectThemeVars, generationCycleVars,
                         modelRouteVars, workspacePageVars>>
       \/ /\ focus = "theme" /\ ProjectThemeNext
          /\ UNCHANGED <<revocationVars, projectMemoryVars, assetReadsVars, tableVars,
                         projectPluginsVars, manifestVars, generationCycleVars, modelRouteVars,
                         workspacePageVars>>
       \/ /\ focus = "cycle" /\ GenerationCycleNext
          /\ UNCHANGED <<revocationVars, projectMemoryVars, assetReadsVars, tableVars,
                         projectPluginsVars, manifestVars, projectThemeVars, modelRouteVars,
                         workspacePageVars>>
       \/ /\ focus = "route" /\ ModelRouteNext
          /\ UNCHANGED <<revocationVars, projectMemoryVars, assetReadsVars, tableVars,
                         projectPluginsVars, manifestVars, projectThemeVars, generationCycleVars,
                         workspacePageVars>>
       \/ /\ focus = "page" /\ WorkspacePageNext
          /\ UNCHANGED <<revocationVars, projectMemoryVars, assetReadsVars, tableVars,
                         projectPluginsVars, manifestVars, projectThemeVars, generationCycleVars,
                         modelRouteVars>>

ServicesSpec == ServicesInit /\ [][ServicesNext]_servicesVars
=============================================================================
