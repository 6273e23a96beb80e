------------------------------ MODULE TableAgent ------------------------------
(***************************************************************************)
(* How the worker finds the table in a spreadsheet.                        *)
(*                                                                         *)
(* The file is imported into an online document, which other people may    *)
(* edit at any time.  A model looks at parts of its sheets and selects a   *)
(* rectangle; header and data are then read separately.  Every call runs   *)
(* a command line program and is a step of its own.  Columns are left out: *)
(* a range is a first and a last row.                                      *)
(***************************************************************************)
EXTENDS Integers

CONSTANTS
    Sheets,             \* sheets of the document
    Rows,               \* its last row at the beginning
    TABLE_AGENT_MAX_STEPS,
    HeadRows, TailRows, \* rows at both ends of a range that an observation shows
    MaxEdits            \* bound on edits of others

ASSUME TableAgentAssumption ==
    /\ Rows \in Nat \ {0}
    /\ {TABLE_AGENT_MAX_STEPS, HeadRows, TailRows, MaxEdits} \subseteq Nat

VARIABLES
    agentStage,     \* what the worker does next, or how it ended
    docRevision,    \* the revision of the document
    imported,       \* whether the document exists, and whether the job row names it
    baseRevision,   \* the revision before the first look
    decisions,      \* turns of the model that are over
    inspected,      \* the last observation of each sheet, and the revision it shows
    selected,       \* the rectangle the model selected
    readAt          \* revisions header and data were read at

tableAgentVars == <<agentStage, docRevision, imported, baseRevision, decisions, inspected,
                    selected, readAt>>

Ranges == {r \in [first : 1..Rows, last : 1..Rows] : r.first <= r.last}
NoObservation == [range |-> [first |-> 0, last |-> 0], at |-> 0]
NoSelection == [sheet |-> CHOOSE s \in Sheets : TRUE, range |-> [first |-> 0, last |-> 0]]
AgentStages == {"import", "revision", "decide", "header", "data", "recheck", "table", "failed"}

TableAgentTypeOK ==
    /\ agentStage \in AgentStages
    /\ docRevision \in 0..MaxEdits + 1 /\ baseRevision \in 0..MaxEdits + 1
    /\ imported \in {"no", "unrecorded", "recorded"}
    /\ decisions \in 0..TABLE_AGENT_MAX_STEPS
    /\ inspected \in [Sheets -> {NoObservation} \cup [range : Ranges, at : 1..MaxEdits + 1]]
    /\ selected \in {NoSelection} \cup [sheet : Sheets, range : Ranges]
    /\ readAt \in [header : 0..MaxEdits + 1, data : 0..MaxEdits + 1]

TableAgentInit ==
    /\ agentStage = "import"
    /\ docRevision = 0 /\ baseRevision = 0
    /\ imported = "no"
    /\ decisions = 0
    /\ inspected = [s \in Sheets |-> NoObservation]
    /\ selected = NoSelection
    /\ readAt = [header |-> 0, data |-> 0]

TurnTo(s) == agentStage' = s

\* Somebody edits the document.
EditDocument ==
    /\ imported # "no" /\ docRevision <= MaxEdits
    /\ docRevision' = docRevision + 1
    /\ UNCHANGED <<agentStage, imported, baseRevision, decisions, inspected, selected, readAt>>

\* A call of the program fails, is killed when it takes too long or the job is past its
\* deadline, or answers something that does not pass the checks; the model has no answer
\* or asks back; the job is no longer this worker's.
AgentFails ==
    /\ agentStage \notin {"table", "failed"}
    /\ TurnTo("failed")
    /\ UNCHANGED <<docRevision, imported, baseRevision, decisions, inspected, selected, readAt>>

\* +workbook-import. Its answer may be lost with the program, or say that the import is
\* not ready; the job is told about the document before that is looked at.
ImportWorkbook ==
    /\ agentStage = "import"
    /\ docRevision' = 1
    /\ \/ imported' = "recorded" /\ (TurnTo("revision") \/ TurnTo("failed"))
       \/ imported' = "unrecorded" /\ TurnTo("failed")
    /\ UNCHANGED <<baseRevision, decisions, inspected, selected, readAt>>

\* +revision-get. The directory of the sheets follows.
ReadRevision ==
    /\ agentStage = "revision"
    /\ baseRevision' = docRevision
    /\ TurnTo("decide")
    /\ UNCHANGED <<docRevision, imported, decisions, inspected, selected, readAt>>

\* The model asks for a look at a sheet; a range that is not fully answered fails.
InspectSheet(sheet, range) ==
    /\ agentStage = "decide" /\ decisions < TABLE_AGENT_MAX_STEPS
    /\ inspected' = [inspected EXCEPT ![sheet] = [range |-> range, at |-> docRevision]]
    /\ decisions' = decisions + 1
    /\ UNCHANGED <<agentStage, docRevision, imported, baseRevision, selected, readAt>>

\* Rows of an observation the model has seen.
Shown(o) == {r \in o.range.first..o.range.last :
                r < o.range.first + HeadRows \/ r > o.range.last - TailRows}

\* Mutant: the revision to compare with is taken with the selection.
SelectTableAnew(sheet, range) ==
    /\ agentStage = "decide" /\ decisions < TABLE_AGENT_MAX_STEPS
    /\ inspected[sheet] # NoObservation
    /\ range.first < range.last
    /\ {range.first, range.last} \subseteq Shown(inspected[sheet])
    /\ selected' = [sheet |-> sheet, range |-> range]
    /\ decisions' = decisions + 1
    /\ baseRevision' = docRevision
    /\ TurnTo("header")
    /\ UNCHANGED <<docRevision, imported, inspected, readAt>>

\* The model selects a rectangle inside its last observation of the sheet, with a header
\* and a last row that were shown.
SelectTable(sheet, range) ==
    /\ agentStage = "decide" /\ decisions < TABLE_AGENT_MAX_STEPS
    /\ inspected[sheet] # NoObservation
    /\ range.first < range.last
    /\ {range.first, range.last} \subseteq Shown(inspected[sheet])
    /\ selected' = [sheet |-> sheet, range |-> range]
    /\ decisions' = decisions + 1
    /\ TurnTo("header")
    /\ UNCHANGED <<docRevision, imported, baseRevision, inspected, readAt>>

\* +table-get of the header, of the data, and +revision-get.
ReadHeader ==
    /\ agentStage = "header"
    /\ readAt' = [readAt EXCEPT !.header = docRevision]
    /\ TurnTo("data")
    /\ UNCHANGED <<docRevision, imported, baseRevision, decisions, inspected, selected>>

ReadData ==
    /\ agentStage = "data"
    /\ readAt' = [readAt EXCEPT !.data = docRevision]
    /\ TurnTo("recheck")
    /\ UNCHANGED <<docRevision, imported, baseRevision, decisions, inspected, selected>>

RecheckRevision ==
    /\ agentStage = "recheck"
    /\ docRevision = baseRevision
    /\ TurnTo("table")
    /\ UNCHANGED <<docRevision, imported, baseRevision, decisions, inspected, selected, readAt>>

TableAgentNext ==
    \/ EditDocument \/ AgentFails \/ ImportWorkbook \/ ReadRevision
    \/ ReadHeader \/ ReadData \/ RecheckRevision
    \/ \E sheet \in Sheets, range \in Ranges :
          InspectSheet(sheet, range) \/ SelectTable(sheet, range)

TableAgentSpec == TableAgentInit /\ [][TableAgentNext]_tableAgentVars

-----------------------------------------------------------------------------
\* A table that is taken over is what the model saw: the looks its selection rests on, the
\* header and the data show one revision of the document, in spite of edits between the
\* calls; and the document it is taken from is known to the job (runLarkTableAgent).
TableIsWhatWasSeen ==
    agentStage = "table" =>
        /\ readAt.header = inspected[selected.sheet].at
        /\ readAt.data = inspected[selected.sheet].at
        /\ \A row \in {selected.range.first, selected.range.last} :
              row \in Shown(inspected[selected.sheet])
        /\ imported = "recorded"
=============================================================================
