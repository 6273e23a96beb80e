------------------------------ MODULE MCRequests ------------------------------
(* Seven parts that share no state: reviews of revisions; messages and commands   *)
(* that enqueue jobs; calls that make revisions; local parses; the import of a     *)
(* table by a model; transform plans; and what becomes of a proposed chart.  The   *)
(* initial state chooses the one that moves.                                       *)
EXTENDS RevisionReview, JobEnqueue, RevisionService, LocalParse, TableAgent,
        TransformExecution, ChartPlanning, TLC

CONSTANTS p1, p2, p3, k

VARIABLE focus

requestsVars == <<vars, jobEnqueueVars, revisionServiceVars, localParseVars, tableAgentVars,
                  transformVars, chartPlanningVars, focus>>

TwoOfOneArtifact == [r \in Revisions |-> "artifact"]

\* The requests that enqueue, parse or make revisions are alike.
RequestSymmetry == Permutations({p1, p2, p3})

\* One key repeated with the same content, with another content and in another
\* conversation, and requests without a key.
Body(entry, key, content, conversation) ==
    [entry |-> entry, key |-> key, content |-> content, conversation |-> conversation]
SomeBodies ==
    {Body("message", k, "x", "chat"), Body("message", k, "y", "chat"),
     Body("message", k, "x", "chat2"), Body("chat", NoKey, "x", "chat"),
     Body("direct", k, "x", "chat"), Body("direct", NoKey, "x", NoConversation),
     Body("revision", k, "x", NoConversation), Body("revision", NoKey, "x", NoConversation)}

\* Two rows of any kind, or three of fewer kinds: no date, a month, its last day, days of short
\* months a year apart, a day that its month does not have, and a quarter; and no amount,
\* nothing or two.
RowsOver(times, groups, amounts) == [time : times, series : groups, amount : amounts]
SomeTimes == {{}, {Period("month", 12)}, {Period("day", 31)}, {Period("day", 13 * 31)},
              {Period("day", 12 * 31 + 30)}, {Period("invalid", 13 * 31 + 29)},
              {Period("quarter", 0)}}
SomeTables ==
    [1..2 -> RowsOver(SomeTimes, {"a", "b"}, {{}, {0}, {2}})]
    \cup [1..3 -> RowsOver({{Period("month", 12)}, {Period("day", 31)}, {Period("day", 13 * 31)}},
                           {"a", "b"}, {{0}, {2}})]
SomeDays == [m \in -12..30 |-> IF m % 2 = 1 THEN 28 ELSE 31]
OneTable == [n \in 1..2 |-> [time |-> {Period("month", 12)}, series |-> "a", amount |-> {2}]]
OneQuestion == [time |-> TRUE, series |-> TRUE, grain |-> "month", comparison |-> "yoy",
                spare |-> FALSE]
\* Version 1 took no quarters for dates; it knows no grain.
VersionOneTakes(rows, i) ==
    i.grain = "month" /\ \A n \in DOMAIN rows : \A p \in rows[n].time : p.grain # "quarter"

\* Snapshots with a date, without, without a number, with numbers only, and with an empty
\* column.
OneSnapshot == "region" :> "string" @@ "sales" :> "number"
SomeSnapshots ==
    {"month" :> "date" @@ "region" :> "string" @@ "sales" :> "number", OneSnapshot,
     "month" :> "date" @@ "region" :> "string", "price" :> "number" @@ "sales" :> "number",
     "note" :> "null" @@ "sales" :> "number"}

RequestsInit ==
    /\ focus \in {"review", "enqueue", "service", "parse", "table", "transform", "chart"}
    \* The parts that do not move start in one state.
    /\ focus # "enqueue" => requested = [q \in EnqueueRequests |-> Body("chat", NoKey, "x", "chat")]
    /\ focus # "transform" =>
          sourceRows = OneTable /\ intent = OneQuestion /\ executorVersion = "v2"
    /\ focus # "chart" => columnType = OneSnapshot /\ gateway = "llm"
    /\ Init /\ JobEnqueueInit /\ RevisionServiceInit /\ LocalParseInit /\ TableAgentInit
    /\ TransformInit /\ ChartPlanningInit
    /\ executorVersion = "v1" => VersionOneTakes(sourceRows, intent)

RequestsNext ==
    /\ UNCHANGED focus
    /\ \/ /\ focus = "review" /\ Next
          /\ UNCHANGED <<jobEnqueueVars, revisionServiceVars, localParseVars, tableAgentVars,
                         transformVars, chartPlanningVars>>
       \/ /\ focus = "enqueue" /\ JobEnqueueNext
          /\ UNCHANGED <<vars, revisionServiceVars, localParseVars, tableAgentVars,
                         transformVars, chartPlanningVars>>
       \/ /\ focus = "service" /\ RevisionServiceNext
          /\ UNCHANGED <<vars, jobEnqueueVars, localParseVars, tableAgentVars,
                         transformVars, chartPlanningVars>>
       \/ /\ focus = "parse" /\ LocalParseNext
          /\ UNCHANGED <<vars, jobEnqueueVars, revisionServiceVars, tableAgentVars,
                         transformVars, chartPlanningVars>>
       \/ /\ focus = "table" /\ TableAgentNext
          /\ UNCHANGED <<vars, jobEnqueueVars, revisionServiceVars, localParseVars,
                         transformVars, chartPlanningVars>>
       \/ /\ focus = "transform" /\ TransformNext
          /\ UNCHANGED <<vars, jobEnqueueVars, revisionServiceVars, localParseVars,
                         tableAgentVars, chartPlanningVars>>
       \/ /\ focus = "chart" /\ ChartPlanningNext
          /\ UNCHANGED <<vars, jobEnqueueVars, revisionServiceVars, localParseVars,
                         tableAgentVars, transformVars>>

RequestsSpec == RequestsInit /\ [][RequestsNext]_requestsVars

\* Requests that repeat one another are answered alike, whatever they make: jobs, with
\* their conversations, or revisions, with their artifacts.
RepeatedCallsAgree == AnswersAgree /\ RevisionsAreCounted
=============================================================================
