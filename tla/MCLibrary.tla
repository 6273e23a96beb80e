------------------------------- MODULE MCLibrary -------------------------------
(* Seven parts of the API, the workers and the page that share no state, checked in  *)
(* one run: the initial state chooses the part that moves.                           *)
EXTENDS MCRenderPublication, RevisionDerivation, ReportReads, AnalysisInputs, MemoryReads,
        Accounts, Panels, TLC

VARIABLE focus

libraryVars == <<vars, derivationVars, reportReadsVars, analysisInputsVars, memoryReadsVars,
                 accountsVars, panelsVars, focus>>

\* The edits e1 and e2 are editors, processes, assets and revisions of the other parts.

\* A revision published earlier, with or without an executor and verified evidence on record.
Earlier(executor, verified) ==
    LET numbers == Execute(IF executor = Nothing THEN "v1" ELSE executor, "sum")
    IN  [parent |-> 0, measure |-> "price", look |-> "plain", plan |-> "sum",
         numbers |-> numbers, finding |-> IF verified THEN FindingOf("price", numbers) ELSE Nothing,
         brief |-> "brief", memory |-> {"project", "private"}, executor |-> executor,
         verified |-> verified, rowsKept |-> verified, archived |-> FALSE]
ThreeRevisions == {Earlier("v2", TRUE), Earlier(Nothing, TRUE), Earlier(Nothing, FALSE)}

\* A viewer beside an editor, and an outsider beside a reviewer.
TwoCasts == {"v" :> "viewer" @@ "e" :> "editor", "v" :> "outsider" @@ "e" :> "reviewer"}

\* Three attempts and no faults, at one edit or between two; or two attempts and faults at one.
ThreeAttempts == disruptions = 0 /\ fence[e1] + fence[e2] <= 3
FaultyAttempts ==
    Cardinality({j \in Jobs : fence[j] > 0}) <= 1 /\ \A j \in Jobs : fence[j] <= 2

LibraryInit ==
    /\ focus \in {"publication", "derivation", "reads", "inputs", "memory", "accounts",
                  "preview", "review", "trace"}
    /\ Init /\ DerivationInit /\ ReportReadsInit /\ AnalysisInputsInit /\ MemoryReadsInit
    /\ AccountsInit /\ PanelsInit
    \* The parts that do not move start in one state.
    /\ focus # "derivation" => lineage = <<Earlier("v2", TRUE)>>
    /\ focus # "reads" =>
          /\ roleOf = ("v" :> "viewer" @@ "e" :> "editor")
          /\ reportStatus = [r \in Reports |-> "draft"]
    /\ focus # "inputs" => briefs = <<>>
    /\ focus # "memory" => request.op = "conversation"

LibraryNext ==
    /\ UNCHANGED focus
    /\ \/ /\ focus = "publication" /\ Next /\ (ThreeAttempts' \/ FaultyAttempts')
          /\ UNCHANGED <<derivationVars, reportReadsVars, analysisInputsVars, memoryReadsVars,
                         accountsVars, panelsVars>>
       \/ /\ focus = "derivation" /\ DerivationNext
          /\ UNCHANGED <<vars, reportReadsVars, analysisInputsVars, memoryReadsVars,
                         accountsVars, panelsVars>>
       \/ /\ focus = "reads" /\ ReportReadsNext
          /\ UNCHANGED <<vars, derivationVars, analysisInputsVars, memoryReadsVars,
                         accountsVars, panelsVars>>
       \/ /\ focus = "inputs" /\ AnalysisInputsNext
          /\ UNCHANGED <<vars, derivationVars, reportReadsVars, memoryReadsVars,
                         accountsVars, panelsVars>>
       \/ /\ focus = "memory" /\ MemoryReadsNext
          /\ UNCHANGED <<vars, derivationVars, reportReadsVars, analysisInputsVars,
                         accountsVars, panelsVars>>
       \/ /\ focus = "accounts" /\ AccountsNext
          /\ UNCHANGED <<vars, derivationVars, reportReadsVars, analysisInputsVars,
                         memoryReadsVars, panelsVars>>
       \/ /\ \/ focus = "preview" /\ PreviewNext
             \/ focus = "review" /\ ReviewNext
             \/ focus = "trace" /\ TraceNext
          /\ UNCHANGED <<vars, derivationVars, reportReadsVars, analysisInputsVars,
                         memoryReadsVars, accountsVars>>

LibrarySpec == LibraryInit /\ [][LibraryNext]_libraryVars
=============================================================================
