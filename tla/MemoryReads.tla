------------------------------ MODULE MemoryReads ------------------------------
(***************************************************************************)
(* What is read of memories, preferences and the summary of a conversation *)
(* while memories are changed and deleted.                                 *)
(*                                                                         *)
(* A read is several statements, some of them sent side by side, without a *)
(* transaction: rows, tombstones and suppressed messages in any order.     *)
(* Changes are transactions under row locks, one step here: ProjectMemory  *)
(* has the locks, MemoryRevocation the ledger behind deletions.            *)
(***************************************************************************)
EXTENDS Naturals, Sequences

CONSTANTS
    MaxMessages,  \* user messages of the conversation
    Recent,       \* messages a summary is made of (8)
    MaxHistory,   \* bound on versions of a memory
    MaxTime,      \* bound on the clock
    Unread        \* a statement of a request that has not run

ASSUME MemoryReadsAssumption == Recent \in Nat \ {0} /\ MaxMessages \in Nat /\ MaxTime \in Nat

\* A memory of the project, a candidate for one and a preference of the user.
Items == {"fact", "candidate", "habit"}
Private(item) == item = "habit"

VARIABLES
    said,         \* user messages so far, numbered in the order of createdAt
    turns,        \* syncConversationTurn of each message
    summary,      \* conversation_memory_snapshots: the messages in it, and its watermark
    clock,
    versions,     \* rows of each item: effective_from, effective_to, status
    sources,      \* source_message_ids of each item
    tombstones,   \* revocations
    hidden,       \* suppressed messages, by the project and by the user
    selected,     \* private_generation_memory_contexts: versions a job has selected
    used,         \* versions on record as used by requests to the model
    request,      \* the read that is going on
    display       \* its answer: rows, messages summarised and the watermark

memoryReadsVars == <<said, turns, summary, clock, versions, sources, tombstones, hidden,
                     selected, used, request, display>>
memoryTables == <<said, turns, summary, clock, versions, sources, tombstones, hidden, selected, used>>

\* What may be read: lists and the context of a job, what was and what has been used.
Lists == {"project", "candidates", "conversation"}
ForJob == {"context", "selected"}
OverTime == {"history", "asOf"}
Usages == {"usage", "ownUsage"}
Reads == Lists \cup ForJob \cup OverTime \cup Usages \cup {"preferences"}
ItemsOf(op) ==
    CASE op \in {"project", "context", "history", "asOf", "usage"} -> {"fact"}
      [] op = "candidates" -> {"candidate"}
      [] op \in {"preferences", "selected", "ownUsage"} -> {"habit"}
      [] op = "conversation" -> {}
Summarises(op) == op \in {"context", "conversation"}

NoSummary == [covers |-> {}, through |-> 0]
NoDisplay == [rows |-> {}, disputed |-> {}, covers |-> {}, through |-> 0]
NoneHidden == [project |-> {}, user |-> {}]

\* The request to come. What it cannot see is left out, to keep the instances small.
Due(op) == [op |-> op, begun |-> FALSE, ids |-> Unread, rows |-> Unread, revoked |-> Unread,
            project |-> Unread, user |-> Unread, summary |-> NoSummary, disputed |-> {},
            forgotten |-> NoneHidden, gone |-> {}]

\* History and usage are shown as they are on record.
Unfiltered(op) == op \in Usages \cup {"history"}
Concerned(item) ==
    item \in ItemsOf(request.op) \cup IF Unfiltered(request.op) THEN {} ELSE {"fact", "habit"}

MemoryReadsInit ==
    /\ said = 0
    /\ turns = [m \in 1..MaxMessages |-> Unread]
    /\ summary = NoSummary
    /\ clock = 0
    /\ versions = [i \in Items |-> <<>>]
    /\ sources = [i \in Items |-> {}]
    /\ tombstones = {}
    /\ hidden = NoneHidden
    /\ selected = {}
    /\ used = {}
    /\ \E op \in Reads : request = Due(op)
    /\ display = NoDisplay

ReadsStay == UNCHANGED <<request, display>>

-----------------------------------------------------------------------------
(* The conversation. *)

\* One message shows what there is to see of a read that shows no summary.
Say ==
    /\ said < IF Summarises(request.op) THEN MaxMessages ELSE 1
    /\ said' = said + 1
    /\ UNCHANGED <<turns, summary, clock, versions, sources, tombstones, hidden, selected, used>>
    /\ ReadsStay

\* syncConversationTurn reads the latest messages, whichever they are by now ...
ReadRecent(m) ==
    /\ Summarises(request.op)
    /\ m <= said
    /\ turns[m] = Unread
    /\ turns' = [turns EXCEPT ![m] = {n \in 1..said : n + Recent > said}]
    /\ UNCHANGED <<said, summary, clock, versions, sources, tombstones, hidden, selected, used>>
    /\ ReadsStay

\* ... and updateConversationMemory writes them with the message of the turn as watermark.
WriteSummary(m) ==
    /\ turns[m] \notin {Unread, {}}
    /\ summary' = [covers |-> turns[m], through |-> m]
    /\ turns' = [turns EXCEPT ![m] = {}]
    /\ UNCHANGED <<said, clock, versions, sources, tombstones, hidden, selected, used>>
    /\ ReadsStay

-----------------------------------------------------------------------------
(* Memories. *)

PassTime ==
    /\ request.op = "asOf" /\ clock < MaxTime
    /\ clock' = clock + 1
    /\ UNCHANGED <<said, turns, summary, versions, sources, tombstones, hidden, selected, used>>
    /\ ReadsStay

\* When versions begin and end matters for the memories of the project only.
Now(item) == IF item = "fact" THEN clock ELSE 0
Version(item) == [from |-> Now(item), to |-> MaxTime + 1, status |-> "active", disputed |-> FALSE]
Newest(item) == Len(versions[item])
Current(item) == Newest(item) > 0 /\ versions[item][Newest(item)].status = "active"
HiddenFor(item) == hidden.user \cup (IF Private(item) THEN {} ELSE hidden.project)

\* Only what the user said in this conversation may be cited.
Citable == {{}} \cup {{m} : m \in 1..said}

\* createProjectMemory, createUserPreferenceMemory and what extraction proposes. After a
\* deletion, a new memory has another id.
CreateItem(item, from) ==
    /\ Concerned(item)
    /\ versions[item] = <<>> /\ item \notin tombstones
    /\ from \cap HiddenFor(item) = {}
    /\ versions' = [versions EXCEPT ![item] = <<Version(item)>>]
    /\ sources' = [sources EXCEPT ![item] = from]
    /\ UNCHANGED <<said, turns, summary, clock, tombstones, hidden, selected, used>>
    /\ ReadsStay

\* The old version ends when the new one begins. Versions matter to the read that shows them.
Replaced(item) == [versions[item][Newest(item)] EXCEPT !.status = "superseded", !.to = Now(item)]
Supersede(item) ==
    /\ item \in ItemsOf(request.op)
    /\ Current(item)
    /\ Newest(item) < MaxHistory
    /\ versions' = [versions EXCEPT ![item] =
           Append([@ EXCEPT ![Newest(item)] = Replaced(item)], Version(item))]
    /\ UNCHANGED <<said, turns, summary, clock, sources, tombstones, hidden, selected, used>>
    /\ ReadsStay

\* updateProjectMemory refuses a source that anybody has hidden, updateUserPreferenceMemory
\* one that its owner has.
UpdateFact == sources["fact"] \cap HiddenFor("fact") = {} /\ Supersede("fact")
UpdateHabit == sources["habit"] \cap hidden.user = {} /\ Supersede("habit")

\* setProjectMemoryConflict: a flag on the current version, which the next one does not take
\* over. A list of the project's memories shows what there is to see of it.
InDispute(item) == Current(item) /\ versions[item][Newest(item)].disputed
SetConflict ==
    /\ request.op = "project"
    /\ Current("fact")
    /\ versions' = [versions EXCEPT !["fact"][Newest("fact")].disputed = ~@]
    /\ UNCHANGED <<said, turns, summary, clock, sources, tombstones, hidden, selected, used>>
    /\ ReadsStay

\* deleteProjectMemory keeps its rows.
DeleteFact ==
    /\ Current("fact")
    /\ tombstones' = tombstones \cup {"fact"}
    /\ hidden' = [hidden EXCEPT !.project = @ \cup sources["fact"]]
    /\ versions' = [versions EXCEPT !["fact"][Newest("fact")].status = "deleted",
                                    !["fact"][Newest("fact")].to = clock]
    /\ UNCHANGED <<said, turns, summary, clock, sources, selected, used>>
    /\ ReadsStay

\* removePreferenceVersionReferences.
WithoutHabit(refs) == {r \in refs : r[1] # "habit"}
\* deleteUserPreferenceMemory removes them, also from the selections of jobs and from the
\* record of what was used.
DeleteHabit ==
    /\ Current("habit")
    /\ tombstones' = tombstones \cup {"habit"}
    /\ hidden' = [hidden EXCEPT !.user = @ \cup sources["habit"]]
    /\ versions' = [versions EXCEPT !["habit"] = <<>>]
    /\ selected' = WithoutHabit(selected)
    /\ used' = WithoutHabit(used)
    /\ UNCHANGED <<said, turns, summary, clock, sources>>
    /\ ReadsStay

\* The transaction that inserts a job selects the active preferences that are not hidden.
SelectForJob ==
    /\ selected = {}
    /\ Current("habit")
    /\ "habit" \notin tombstones /\ sources["habit"] \cap hidden.user = {}
    /\ selected' = {<<"habit", Newest("habit")>>}
    /\ UNCHANGED <<said, turns, summary, clock, versions, sources, tombstones, hidden, used>>
    /\ ReadsStay

\* admitMemoryInvocation puts what a request to the model is sent on record (MemoryRevocation
\* has its checks). It matters to the reads that list it.
RecordUsage ==
    /\ used = {}
    /\ \E item \in ItemsOf(request.op) :
        /\ request.op \in Usages
        /\ Current(item)
        /\ item \notin tombstones /\ sources[item] \cap HiddenFor(item) = {}
        /\ used' = {<<item, Newest(item)>>}
    /\ UNCHANGED <<said, turns, summary, clock, versions, sources, tombstones, hidden, selected>>
    /\ ReadsStay

-----------------------------------------------------------------------------
(* Reads. *)

\* One request is enough, for reads change nothing. forgotten and gone are what was deleted
\* before it began.
BeginRead ==
    /\ ~request.begun
    /\ request' = [request EXCEPT !.begun = TRUE, !.forgotten = hidden, !.gone = tombstones]
    /\ UNCHANGED <<display, memoryTables>>

\* The selection of a job and the record of what was used are read first, and hold versions
\* that were superseded since.
ById(op) == op \in Usages \cup {"selected"}
ReadSelection ==
    /\ request.begun /\ request.op = "selected" /\ request.ids = Unread
    /\ request' = [request EXCEPT !.ids = selected]
    /\ UNCHANGED <<display, memoryTables>>
ReadUsage ==
    /\ request.begun /\ request.op \in Usages /\ request.ids = Unread
    /\ request' = [request EXCEPT !.ids = used]
    /\ UNCHANGED <<display, memoryTables>>

\* memoryVersionAsOf.
EffectiveAt(item, t) ==
    {v \in DOMAIN versions[item] :
        LET row == versions[item][v] IN
        row.from <= t /\ t < row.to /\ (row.status # "deleted" \/ t < row.to)}
VersionsRead(item) ==
    CASE ById(request.op) -> {{v \in DOMAIN versions[item] : <<item, v>> \in request.ids}}
      [] request.op = "history" -> {DOMAIN versions[item]}
      [] request.op = "asOf" -> {EffectiveAt(item, t) : t \in 0..MaxTime}
      [] OTHER -> {IF Current(item) THEN {Newest(item)} ELSE {}}
ReadRows ==
    /\ request.begun /\ request.rows = Unread
    /\ ById(request.op) => request.ids # Unread
    /\ \E rows \in [ItemsOf(request.op) -> SUBSET (1..MaxHistory)] :
        /\ \A i \in DOMAIN rows : rows[i] \in VersionsRead(i)
        /\ request' = [request EXCEPT !.rows = UNION {{i} \X rows[i] : i \in DOMAIN rows},
                                      !.disputed = {i \in DOMAIN rows : InDispute(i)},
                                      !.summary = IF Summarises(request.op)
                                                  THEN summary ELSE NoSummary]
    /\ UNCHANGED <<display, memoryTables>>

ReadTombstones ==
    /\ request.begun /\ request.revoked = Unread
    /\ request.op = "asOf" => request.rows # Unread
    /\ request' = [request EXCEPT !.revoked =
           IF request.op = "candidates" \/ Unfiltered(request.op) THEN {} ELSE tombstones]
    /\ UNCHANGED <<display, memoryTables>>

\* The project's suppressions are read side by side with the rows; the user's, when they are
\* wanted for rows of the project, after them. A preference is hidden by the user's alone.
OfUser == request.op \in {"preferences", "selected"}
ReadProjectHidden ==
    /\ request.begun /\ request.project = Unread
    /\ request.op = "asOf" => request.rows # Unread
    /\ request' = [request EXCEPT !.project = IF OfUser \/ Unfiltered(request.op)
                                              THEN {} ELSE hidden.project]
    /\ UNCHANGED <<display, memoryTables>>
ReadUserHidden ==
    /\ request.begun /\ request.user = Unread
    /\ OfUser \/ request.rows # Unread
    /\ request' = [request EXCEPT !.user = IF Unfiltered(request.op) THEN {} ELSE hidden.user]
    /\ UNCHANGED <<display, memoryTables>>

\* As if only what the project has hidden counted.
ShownByProject(row) == row[1] \notin request.revoked /\ sources[row[1]] \cap request.project = {}
Shown(row) ==
    /\ row[1] \notin request.revoked
    /\ sources[row[1]] \cap (request.project \cup request.user) = {}

\* hasSuppressedConversationSource, which looks at messages up to the watermark, last of all.
SummaryUsable == \A m \in hidden.project \cup hidden.user : m > request.summary.through

\* buildMemoryContext: a disputed memory is passed on as a conflict.
Conflicts(rows) == {row[1] : row \in rows} \cap request.disputed

\* filterContextForPrompt: the context of a job has the memories its prompt mentions.
Relevant(rows) == IF request.op = "context" THEN SUBSET rows ELSE {rows}

AnswerRead ==
    /\ request.begun
    /\ Unread \notin {request.rows, request.revoked, request.project, request.user}
    /\ \E rows \in Relevant({row \in request.rows : Shown(row)}) :
        display' = [rows |-> rows,
                    disputed |-> Conflicts(rows),
                    covers |-> IF SummaryUsable THEN request.summary.covers ELSE {},
                    through |-> request.summary.through,
                    forgotten |-> request.forgotten, gone |-> request.gone]
    /\ UNCHANGED <<request, memoryTables>>

\* Nothing is looked at after the answer.
MemoryReadsNext ==
  /\ display = NoDisplay
  /\
    \/ Say \/ PassTime
    \/ \E m \in 1..MaxMessages : ReadRecent(m) \/ WriteSummary(m)
    \/ \E item \in Items :
        \E from \in Citable : CreateItem(item, from)
    \/ UpdateFact \/ UpdateHabit \/ SetConflict
    \/ DeleteFact \/ DeleteHabit \/ SelectForJob \/ RecordUsage
    \/ BeginRead \/ ReadSelection \/ ReadUsage \/ ReadRows \/ ReadTombstones
    \/ ReadProjectHidden \/ ReadUserHidden \/ AnswerRead

MemoryReadsSpec == MemoryReadsInit /\ [][MemoryReadsNext]_memoryReadsVars

-----------------------------------------------------------------------------
(* What must hold. *)

\* An answer shows no memory and no candidate that rests on a message deleted before the
\* request began, whoever deleted it and as what, and a summary only with messages after its
\* watermark (see README.md). A deleted preference is in no record of what was used either;
\* history and usage of the project keep what they recorded. At no moment are two versions of
\* a memory in force.
ReadsForgetDeleted ==
    /\ display # NoDisplay =>
        /\ \A row \in display.rows :
            /\ Private(row[1]) \/ ~Unfiltered(request.op) => row[1] \notin display.gone
            /\ ~Unfiltered(request.op) =>
                /\ sources[row[1]] \cap display.forgotten.user = {}
                /\ ~Private(row[1]) => sources[row[1]] \cap display.forgotten.project = {}
        /\ \A m \in display.covers :
            m <= display.through => m \notin display.forgotten.user \cup display.forgotten.project
    /\ \A item \in Items, t \in 0..MaxTime :
        \A v, w \in EffectiveAt(item, t) : v = w
=============================================================================
