---------------------------- MODULE PluginManifest ----------------------------
(***************************************************************************)
(* A manifest before it is installed: parseManifest collects what is wrong *)
(* with it and throws all of it.  What has to be true of one it accepts is *)
(* said here without its recursion: a theme resolves, whatever it extends, *)
(* and every rule of a validator can be met.                               *)
(***************************************************************************)
EXTENDS Naturals, Sequences, FiniteSets

CONSTANTS
    Submitted,        \* the manifests to parse
    ThemeIds,         \* ids a manifest may declare themes under
    BuiltinThemes,    \* ids of the builtin themes
    Settings,         \* leaves of a theme's payload
    RefusedSettings,  \* those Flint does not know or not with such a value
    Supported,        \* the renderers of the deployment
    ChartContexts,    \* charts to validate
    NoRef,            \* an optional reference that is not there
    MaxThemeDepth     \* MAX_THEME_INHERITANCE_DEPTH

\* pluginValidatorRuleSchema: its kinds, those with one bound as numeric-range.
IsRule(rule) ==
    \/ rule.kind = "required-role" /\ rule.role \in STRING
    \/ rule.kind = "allowed-renderer" /\ rule.renderer \in STRING
    \/ rule.kind = "numeric-range" /\ {rule.min, rule.max} \subseteq Nat \cup {NoRef}

Elements(seq) == {seq[i] : i \in DOMAIN seq}
IsList(seq) == seq \in Seq(Elements(seq))

\* pluginManifestSchema: the parts that refer to one another.
IsManifest(m) ==
    /\ m.renderers # {}
    /\ IsList(m.templates) /\ IsList(m.themes) /\ IsList(m.validators) /\ IsList(m.examples)
    /\ \A i \in DOMAIN m.templates : m.templates[i].renderers \subseteq STRING
    /\ \A i \in DOMAIN m.themes :
          /\ m.themes[i].id \in ThemeIds
          /\ m.themes[i].extends \in ThemeIds \cup BuiltinThemes \cup {NoRef}
          /\ m.themes[i].sets \subseteq Settings
    /\ \A i \in DOMAIN m.validators : IsRule(m.validators[i].rule)
    /\ \A i \in DOMAIN m.examples : m.examples[i].template \in STRING \cup {NoRef}

\* A chart says of the field a rule is about which numbers it has, if it has any.
IsChart(chart) ==
    chart.low # NoRef => /\ chart.low \in Nat /\ chart.high \in Nat
                         /\ chart.low <= chart.high

\* For every rule there is a chart that has the role, the renderer or the bound it names.
ChartsFor(rule) ==
    \A renderer \in Supported :
        \/ rule.kind = "allowed-renderer" /\ renderer # rule.renderer
        \/ \E chart \in ChartContexts :
              /\ chart.renderer = renderer /\ chart.low # NoRef
              /\ rule.kind = "required-role" => rule.role \in chart.roles
              /\ rule.kind = "numeric-range" =>
                    /\ rule.min # NoRef => chart.low = rule.min
                    /\ rule.min = NoRef /\ rule.max # NoRef => chart.low = rule.max
                    /\ chart.high = chart.low

ASSUME PluginManifestAssumption ==
    /\ \A m \in Submitted : IsManifest(m)
    /\ RefusedSettings \subseteq Settings
    /\ BuiltinThemes \cap ThemeIds = {} /\ NoRef \notin ThemeIds \cup BuiltinThemes \cup Nat
    /\ IsFiniteSet(ThemeIds)
    /\ \A chart \in ChartContexts : IsChart(chart)
    /\ \A m \in Submitted : \A v \in Elements(m.validators) : ChartsFor(v.rule)
    /\ MaxThemeDepth \in Nat \ {0}

VARIABLES manifest, verdict

manifestVars == <<manifest, verdict>>

Ids(seq) == {x.id : x \in Elements(seq)}

PluginManifestInit == manifest \in Submitted /\ verdict = "submitted"

-----------------------------------------------------------------------------
(* resolveThemeNode *)

\* The first declaration counts.
ThemeNamed(id) ==
    manifest.themes[CHOOSE i \in DOMAIN manifest.themes :
                        /\ manifest.themes[i].id = id
                        /\ \A j \in 1 .. i - 1 : manifest.themes[j].id # id]

Blank == [failed |-> {}, from |-> [s \in Settings |-> NoRef]]
Fails(how) == [Blank EXCEPT !.failed = {how}]

\* deepMerge: what the theme sets overrides what it inherits.
Override(base, theme) ==
    [Blank EXCEPT !.from = [s \in Settings |-> IF s \in theme.sets THEN theme.id ELSE base.from[s]]]

\* Of each theme, after those being visited; what is not declared is empty.
Node[visiting \in SUBSET ThemeIds] ==
    [id \in ThemeIds |->
        IF id \in visiting THEN Fails("cycle")
        ELSE IF Cardinality(visiting) >= MaxThemeDepth THEN Fails("depth")
        ELSE IF id \notin Ids(manifest.themes) THEN Blank
        ELSE LET theme == ThemeNamed(id)
                 base == IF theme.extends \in ThemeIds
                         THEN Node[visiting \cup {id}][theme.extends] ELSE Blank
             IN IF base.failed = {} THEN Override(base, theme) ELSE base]

\* What each setting of each theme comes from.
Resolved == Node[{}]

-----------------------------------------------------------------------------
(* parseManifest *)

\* validateUniqueIds; examples are not asked.
Repeated(seq) == Cardinality(Ids(seq)) < Len(seq)

\* validateThemeInheritance
ThemeIssues(theme) ==
    IF theme.extends \in ThemeIds \ Ids(manifest.themes) THEN {"parent"}
    ELSE Resolved[theme.id].failed

\* The merged payload extends what the theme itself extends; of the adapter it is only
\* known that it knows the builtin themes.
FlintRefuses(theme, resolved, knowsPlugins) ==
    \/ \E s \in RefusedSettings : resolved.from[s] # NoRef
    \/ theme.extends \in ThemeIds /\ ~knowsPlugins

\* validateThemePayloads: a theme that does not resolve is reported elsewhere.
PayloadIssues(theme, knowsPlugins) ==
    IF Resolved[theme.id].failed = {} /\ FlintRefuses(theme, Resolved[theme.id], knowsPlugins)
    THEN {"payload"} ELSE {}

\* By the platform or by the plugin itself.
RendererUnusable(r) == r \notin manifest.renderers \cap Supported

\* validateValidatorReferences
RuleIssues(rule) ==
    IF \/ rule.kind = "allowed-renderer" /\ RendererUnusable(rule.renderer)
       \/ rule.kind = "numeric-range" /\ rule.min = NoRef /\ rule.max = NoRef
       \/ rule.kind = "numeric-range" /\ rule.min # NoRef /\ rule.max # NoRef /\ rule.min > rule.max
    THEN {"rule"} ELSE {}

\* A validator or an example for a template the manifest has not.
Dangling(x) == x.template \notin Ids(manifest.templates) \cup {NoRef}

Issues(knowsPlugins) ==
    (IF manifest.renderers \subseteq Supported THEN {} ELSE {"renderer"})
    \cup (IF Repeated(manifest.templates) \/ Repeated(manifest.themes)
             \/ Repeated(manifest.validators) THEN {"duplicate"} ELSE {})
    \cup (IF \E t \in Elements(manifest.templates) : \E r \in t.renderers : RendererUnusable(r)
          THEN {"renderer"} ELSE {})
    \cup (UNION {ThemeIssues(theme) \cup PayloadIssues(theme, knowsPlugins) :
                   theme \in Elements(manifest.themes)})
    \cup (UNION {RuleIssues(v.rule) : v \in Elements(manifest.validators)})
    \cup (IF \E x \in Elements(manifest.validators) \cup Elements(manifest.examples) : Dangling(x)
          THEN {"template"} ELSE {})

\* capabilitiesFor, renderers left out.
Capabilities ==
    {"template"} \X Ids(manifest.templates) \cup {"theme"} \X Ids(manifest.themes)
    \cup {"validator"} \X Ids(manifest.validators) \cup {"example"} \X Ids(manifest.examples)

ParseManifest ==
    /\ verdict = "submitted"
    /\ \E knowsPlugins \in BOOLEAN :
          verdict' = IF Issues(knowsPlugins) = {} THEN "accepted" ELSE "rejected"
    /\ UNCHANGED manifest

-----------------------------------------------------------------------------
(* evaluatePluginValidators *)

Breaks(rule, chart) ==
    CASE rule.kind = "required-role" -> rule.role \notin chart.roles
      [] rule.kind = "allowed-renderer" -> rule.renderer # chart.renderer
      [] rule.kind = "numeric-range" ->
            /\ chart.low # NoRef
            /\ \/ rule.min # NoRef /\ chart.low < rule.min
               \/ rule.max # NoRef /\ chart.high > rule.max

\* A rule of a validator that is for every template, or for the one in use.
ValidateChart(chart) ==
    /\ verdict = "accepted"
    /\ verdict' = IF \E v \in Elements(manifest.validators) :
                        v.template \in {NoRef, chart.template} /\ Breaks(v.rule, chart)
                  THEN "broken" ELSE "valid"
    /\ UNCHANGED manifest

PluginManifestNext == ParseManifest \/ \E chart \in ChartContexts : ValidateChart(chart)

PluginManifestSpec == PluginManifestInit /\ [][PluginManifestNext]_manifestVars

-----------------------------------------------------------------------------
(* What is expected of a manifest *)

Extends(id) == LET theme == ThemeNamed(id) IN {theme.extends} \cap Ids(manifest.themes)

\* A theme and all it inherits from: in every set that holds it and what its members extend.
Line(id) ==
    {u \in Ids(manifest.themes) : \A S \in SUBSET Ids(manifest.themes) :
        (id \in S /\ \A v \in S : Extends(v) \subseteq S) => u \in S}

\* No theme inherits from itself, none from too many, and none from what nobody declares.
ThemesAreTrees ==
    \A id \in Ids(manifest.themes) :
        /\ \A u \in Extends(id) : id \notin Line(u)
        /\ Cardinality(Line(id)) <= MaxThemeDepth
        /\ ThemeNamed(id).extends \notin ThemeIds \ Ids(manifest.themes)

\* Each setting of a theme comes from the nearest of its line that has it.
NearestWins ==
    \A id \in Ids(manifest.themes), s \in Settings :
        LET having == {u \in Line(id) : s \in ThemeNamed(u).sets}
            from == Resolved[id].from[s]
        IN IF having = {} THEN from = NoRef
           ELSE from \in having /\ \A u \in having : u \in Line(from)

\* Some chart of this deployment that has the numbers meets the rule.
CanBeMet(rule) ==
    \E chart \in ChartContexts :
        chart.renderer \in Supported /\ chart.low # NoRef /\ ~Breaks(rule, chart)

\* The themes of an accepted manifest resolve to what their line says and nothing Flint
\* refuses is inherited; its ids tell its templates, themes and validators apart, and a
\* rule that no chart could meet is not accepted.  One that is rejected deserves it, but for
\* themes that extend themes of plugins, which the adapter may not know.
AcceptedManifestsResolve ==
    /\ verdict \in {"accepted", "valid", "broken"} =>
          /\ ThemesAreTrees /\ NearestWins
          /\ Cardinality({c \in Capabilities : c[1] # "example"})
                = Len(manifest.templates) + Len(manifest.themes) + Len(manifest.validators)
          /\ \A id \in Ids(manifest.themes) : \A u \in Line(id) :
                ThemeNamed(u).sets \cap RefusedSettings = {}
          /\ \A v \in Elements(manifest.validators) : CanBeMet(v.rule)
    /\ verdict = "rejected" =>
          \/ ~ThemesAreTrees \/ Repeated(manifest.themes) \/ Repeated(manifest.templates)
          \/ Repeated(manifest.validators)
          \/ \E t \in Elements(manifest.themes) :
                t.extends \in ThemeIds \/ t.sets \cap RefusedSettings # {}
          \/ ~(manifest.renderers \subseteq Supported)
          \/ \E t \in Elements(manifest.templates) : ~(t.renderers \subseteq manifest.renderers)
          \/ \E v \in Elements(manifest.validators) :
                \/ ~CanBeMet(v.rule) \/ Dangling(v)
                \/ v.rule.kind = "allowed-renderer" /\ v.rule.renderer \notin manifest.renderers
                \/ v.rule.kind = "numeric-range" /\ v.rule.min = NoRef /\ v.rule.max = NoRef
          \/ \E x \in Elements(manifest.examples) : Dangling(x)
=============================================================================
