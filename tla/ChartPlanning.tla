----------------------------- MODULE ChartPlanning -----------------------------
(***************************************************************************)
(* From a question to the fields of a chart, and back to the user.         *)
(*                                                                         *)
(* A model proposes an intent, a plan and the fields of the chart; where   *)
(* no model is configured a rule does.  The fields must be columns of what *)
(* the plan yields.  When the one for the horizontal axis is not, the job  *)
(* ends with a question, and the user's choice goes into the next job,     *)
(* where it is laid over whatever the model proposes then.                 *)
(***************************************************************************)
EXTENDS Integers, FiniteSets

CONSTANTS
    Profiles,       \* snapshots: the columns, each with its ColumnProfile.inferredType
    MaxPlanningJobs \* bound on jobs of the conversation

ASSUME ChartPlanningAssumption ==
    /\ \A p \in Profiles : p \in [DOMAIN p -> {"date", "string", "number", "null"}]
    /\ MaxPlanningJobs \in Nat \ {0}

VARIABLES
    columnType,     \* profile of the snapshot
    gateway,        \* who proposes: llm or rule
    chosenX,        \* the user's choice for the axis: a column, or nothing
    chartIntent,    \* conversation intent: time column, dimensions, measure, comparison
    chartColumns,   \* columns of the transform result
    chartFields,    \* fields of the chart
    chartStage,     \* stage of the job, or how it ended
    candidates,     \* columns its question offers
    planningJobs    \* jobs so far

chartPlanningVars == <<columnType, gateway, chosenX, chartIntent, chartColumns, chartFields, chartStage,
                       candidates, planningJobs>>

SourceColumns == DOMAIN columnType
\* A column of the source, the sum of a measure, or its change.
Column(c, kind) == [of |-> c, kind |-> kind]
Source(c) == Column(c, "source")
Numeric(c) == columnType[c] = "number"
AllColumns == {Source(c) : c \in SourceColumns}
              \cup {Column(c, kind) : c \in {d \in SourceColumns : Numeric(d)}, kind \in {"sum", "change"}}
Option(S) == {{}} \cup {{x} : x \in S}
Types(columns) == {columnType[c] : c \in columns}

\* dimensionColumns are kept as a set: the chart names its series itself.
Intent == [time : Option(SourceColumns), dimensions : SUBSET SourceColumns,
           measure : Option(SourceColumns), compared : BOOLEAN]
NoIntent == [time |-> {}, dimensions |-> {}, measure |-> {}, compared |-> FALSE]
Fields == [x : Option(AllColumns), y : Option(AllColumns), series : Option(AllColumns)]
NoFields == [x |-> {}, y |-> {}, series |-> {}]

ChartPlanningTypeOK ==
    /\ columnType \in Profiles
    /\ gateway \in {"llm", "rule"}
    /\ chosenX \in Option(AllColumns)
    /\ chartIntent \in Intent
    /\ chartColumns \subseteq AllColumns
    /\ chartFields \in Fields
    /\ chartStage \in {"planning", "transforming", "compiling", "validating", "drafted",
                       "missingX", "modelAsks", "fieldMissing", "failed"}
    /\ candidates \subseteq AllColumns
    /\ planningJobs \in 1..MaxPlanningJobs

ChartPlanningInit ==
    /\ columnType \in Profiles
    /\ gateway \in {"llm", "rule"}
    /\ chosenX = {}
    /\ chartIntent = NoIntent /\ chartColumns = {} /\ chartFields = NoFields
    /\ chartStage = "planning"
    /\ candidates = {}
    /\ planningJobs = 1

-----------------------------------------------------------------------------
(* generateTransformPlan *)

GroupedBy(i) == i.time \cup i.dimensions
\* With nothing to group by, the first column that is neither the measure nor a number.
Fallbacks(i) == {c \in SourceColumns \ i.measure : ~Numeric(c)}
PlanExists(i) == i.measure # {} /\ (GroupedBy(i) # {} \/ Fallbacks(i) # {})
YieldsOf(i) ==
    LET measured == {Column(c, "sum") : c \in i.measure}
                    \cup {Column(c, "change") : c \in IF i.compared THEN i.measure ELSE {}}
    IN  IF GroupedBy(i) # {} THEN {measured \cup {Source(c) : c \in GroupedBy(i)}}
        ELSE {measured \cup {Source(c)} : c \in Fallbacks(i)}

-----------------------------------------------------------------------------
(* Proposals. *)

\* parseConversationIntent: a time column where there is one, the first measure, and the
\* other columns with values that are no numbers.
RuleIntents ==
    {i \in Intent :
        /\ i.time \subseteq {c \in SourceColumns : columnType[c] = "date"}
        /\ i.time = {} => "date" \notin Types(SourceColumns)
        /\ i.measure # {} /\ \A c \in i.measure : Numeric(c)
        /\ i.dimensions = {c \in SourceColumns \ (i.time \cup i.measure) :
                              columnType[c] \notin {"number", "null"}}}
\* Its chart: the time, or else a dimension, or else what the plan groups by.
RuleFields(i, yields) ==
    {f \in Fields :
        /\ f.y = {Column(c, "sum") : c \in i.measure}
        /\ \/ i.time # {} /\ f.x = {Source(c) : c \in i.time}
           \/ i.time = {} /\ f.x \in {{Source(c)} : c \in i.dimensions}
           \/ GroupedBy(i) = {} /\ f.x \in {{c} : c \in {d \in yields : d.kind = "source"}}
        /\ f.series \in IF i.time # {} /\ i.dimensions # {}
                        THEN {{Source(c)} : c \in i.dimensions} ELSE {{}}}

\* applyGenerationDecision: the choice must be a source column, and a date where the
\* question compares periods.
AppliesTo(choice, i) ==
    \E c \in SourceColumns :
        /\ choice = {Source(c)}
        /\ columnType[c] = "date" \/ ~i.compared
Applies(i) == AppliesTo(chosenX, i)
WithChoice(i) ==
    LET c == CHOOSE s \in SourceColumns : chosenX = {Source(s)}
    IN  IF columnType[c] = "date" THEN [i EXCEPT !.time = {c}]
        ELSE [i EXCEPT !.time = {}, !.dimensions = @ \cup {c}]

Stays == UNCHANGED <<columnType, gateway, chosenX, planningJobs>>
StopJob(s) ==
    /\ chartStage' = s
    /\ UNCHANGED <<chartIntent, chartColumns, chartFields, candidates>>

\* Mutant: the choice changes the fields of the chart and not the plan.
FollowProposalKeepingPlan(i, fields, yields) ==
    /\ chartIntent' = i
    /\ chartColumns' = yields
    /\ chartFields' = IF Applies(i) THEN [fields EXCEPT !.x = chosenX] ELSE fields
    /\ chartStage' = "transforming"
    /\ UNCHANGED candidates

\* The plan the intent has with the choice laid over it is made anew; else the proposed
\* plan stays.
FollowProposal(i, fields, yields) ==
    /\ IF Applies(i)
       THEN /\ PlanExists(WithChoice(i))
            /\ chartIntent' = WithChoice(i)
            /\ chartColumns' \in YieldsOf(WithChoice(i))
            /\ chartFields' = [fields EXCEPT !.x = chosenX]
       ELSE /\ chartIntent' = i
            /\ chartColumns' = yields
            /\ chartFields' = fields
    /\ chartStage' = "transforming"
    /\ UNCHANGED candidates

\* A model may propose any intent, and any column for the axis. What its plan yields shows
\* when it is executed, and its other fields when they are looked up. It may also ask back,
\* or fail; a choice its intent has no plan for throws. (A measure that is no number fails
\* when it is added up.)
ModelIntents == {i \in Intent : \A c \in i.measure : Numeric(c)}
ProposeByModel ==
    /\ chartStage = "planning" /\ gateway = "llm"
    /\ \/ \E i \in ModelIntents, x \in AllColumns : FollowProposal(i, [NoFields EXCEPT !.x = {x}], {})
       \/ StopJob("modelAsks")
       \/ StopJob("failed")
    /\ Stays

\* The rule asks for a measure when there is none, and fails when nothing can be grouped.
ProposeByRule ==
    /\ chartStage = "planning" /\ gateway = "rule"
    /\ \/ \E i \in RuleIntents : PlanExists(i) /\ \E yields \in YieldsOf(i) :
             \E fields \in RuleFields(i, yields) : FollowProposal(i, fields, yields)
       \/ "number" \notin Types(SourceColumns) /\ StopJob("modelAsks")
       \/ \E i \in RuleIntents : ~PlanExists(i) /\ StopJob("failed")
    /\ Stays

-----------------------------------------------------------------------------
(* executeTransformPlan, generateFlintSpec and the readiness gate. *)

\* A plan that is not made anew is the model's, or one that an earlier attempt has stored.
PlanIsOfModel == gateway = "llm" /\ ~Applies(chartIntent)
Transform ==
    /\ chartStage = "transforming"
    /\ \/ /\ chartStage' = "compiling"
          /\ IF PlanIsOfModel THEN chartColumns' \in SUBSET AllColumns ELSE UNCHANGED chartColumns
          /\ UNCHANGED <<chartIntent, chartFields, candidates>>
       \/ StopJob("failed")
    /\ Stays

\* missingXAxisResult: columns of the result but the sum, and columns of the source that can
\* be grouped by.
Offered ==
    (chartColumns \ {Column(c, "sum") : c \in chartIntent.measure})
    \cup {Source(c) : c \in {d \in SourceColumns \ chartIntent.measure :
                                columnType[d] \notin {"number", "null"}}}

\* compareCandidates: dates first, then texts; the name, the number of values and of gaps, and
\* where it is from decide among equals.
TypeRank(c) ==
    IF c.kind = "source" /\ columnType[c.of] = "date" THEN 3
    ELSE IF c.kind = "source" /\ columnType[c.of] = "string" THEN 2
    ELSE 1

\* The candidates that may come first and be recommended.
Recommended == {c \in candidates : \A d \in candidates : TypeRank(d) <= TypeRank(c)}

OtherFields == chartFields.y \cup chartFields.series
CanCompile == chartIntent.measure # {} /\ chartFields.x \cup OtherFields \subseteq chartColumns
Compile ==
    /\ chartStage = "compiling"
    /\ \/ CanCompile /\ chartStage' = "validating" /\ UNCHANGED candidates
       \/ /\ chartIntent.measure # {} /\ ~(chartFields.x \subseteq chartColumns)
          /\ chartStage' = "missingX" /\ candidates' = Offered
       \/ /\ chartIntent.measure = {} \/ chartFields.x \subseteq chartColumns
          /\ gateway = "llm" \/ ~CanCompile
          /\ chartStage' = "fieldMissing" /\ UNCHANGED candidates
    /\ UNCHANGED <<chartIntent, chartColumns, chartFields>>
    /\ Stays

\* validateFlintSpec, and the repairs that run the same plan again.
Validate ==
    /\ chartStage = "validating"
    /\ StopJob("drafted") \/ StopJob("failed")
    /\ Stays

-----------------------------------------------------------------------------
\* The next job: with a choice among the candidates (assertGenerationDecisionMatchesParent),
\* with other words, or as a new question; the route may have changed.
NextJob(choice) ==
    /\ planningJobs < MaxPlanningJobs
    /\ planningJobs' = planningJobs + 1
    /\ UNCHANGED columnType
    /\ chosenX' = choice
    /\ gateway' \in {"llm", "rule"}
    /\ chartIntent' = NoIntent /\ chartColumns' = {} /\ chartFields' = NoFields
    /\ chartStage' = "planning" /\ candidates' = {}

AnswerQuestion == chartStage = "missingX" /\ \E c \in candidates : NextJob({c})
AskAnew == chartStage \in {"missingX", "modelAsks", "drafted", "fieldMissing", "failed"} /\ NextJob({})

ChartPlanningNext ==
    \/ ProposeByModel \/ ProposeByRule \/ Transform \/ Compile \/ Validate
    \/ AnswerQuestion \/ AskAnew

ChartPlanningSpec == ChartPlanningInit /\ [][ChartPlanningNext]_chartPlanningVars

-----------------------------------------------------------------------------
\* A choice that applies is final: its job is not asked for the axis again, and its chart
\* has it. What the rule proposes compiles, with such a choice or without. The candidate that
\* is recommended applies if another does, but for columns that are neither date nor text
\* (applyGenerationDecision, generateTransformPlan, generateFlintSpec and missingXAxisResult).
ChosenFieldIsUsed ==
    /\ Applies(chartIntent) =>
          /\ chartStage # "missingX"
          /\ chartStage = "drafted" => chartFields.x = chosenX
    /\ gateway = "rule" /\ (chosenX = {} \/ Applies(chartIntent)) =>
          chartStage \notin {"missingX", "fieldMissing"}
    /\ \A c \in Recommended, d \in candidates :
          AppliesTo({d}, chartIntent) => AppliesTo({c}, chartIntent) \/ TypeRank(d) = 1
=============================================================================
