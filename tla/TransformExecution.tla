-------------------------- MODULE TransformExecution --------------------------
(***************************************************************************)
(* What a question about totals and their change over time is answered.    *)
(*                                                                         *)
(* The planner turns the intent of a question into steps, and the executor *)
(* runs them over the rows of the snapshot, in whatever order these are.   *)
(* A row has a date, a series and an amount; a cell without a value is the *)
(* empty set, and a cell with one the set of it.  The profile takes for a  *)
(* date what looks like one, months and days that do not exist and days    *)
(* with an hour included: those are invalid, and the calendar of version 2 *)
(* refuses them.  Jobs whose executor was frozen as version 1 keep it: it  *)
(* takes dates, which are days or months, as they are, reads no more than  *)
(* their digits and compares months.                                       *)
(***************************************************************************)
EXTENDS Integers, Sequences, FiniteSets, FiniteSetsExt, SequencesExt

CONSTANTS
    SourceTables,   \* snapshots: sequences of rows
    DaysIn          \* days of each month, by its index

Grains == {"day", "month", "quarter", "year"}

\* isDateString: what a column of dates may hold.  The index of an invalid date is that of the
\* day its digits make.
SourcePeriods == [grain : Grains \cup {"invalid"}, index : Int]

ASSUME TransformAssumption ==
    \A rows \in SourceTables :
        /\ rows \in Seq(ToSet(rows))
        /\ \A n \in DOMAIN rows :
              /\ rows[n].time \subseteq SourcePeriods
              /\ \A p, q \in rows[n].time : p = q

VARIABLES
    executorVersion, \* v1 or v2, frozen with the job
    intent,     \* the question: has it a time column, a dimension; grain; comparison; is there
                \* another column that holds nothing
    sourceRows, \* the snapshot
    resultRows, \* rows after the steps executed so far
    planSteps,  \* steps that are left
    execution   \* running, done or failed

transformVars == <<executorVersion, intent, sourceRows, resultRows, planSteps, execution>>

-----------------------------------------------------------------------------
(* Periods: calendarPeriod gives a date a grain and the number of its day, month, *)
(* quarter or year.                                                              *)

Period(grain, index) == [grain |-> grain, index |-> index]
DaysPerMonth == 31
MonthOf(p) == IF p.grain \in {"day", "invalid"} THEN p.index \div DaysPerMonth ELSE p.index
Coarse(p) == IF p.grain = "day" THEN Period("month", MonthOf(p)) ELSE p
YearOf(p) == CASE p.grain = "year" -> p.index
               [] p.grain = "quarter" -> p.index \div 4
               [] OTHER -> MonthOf(p) \div 12

\* A date in a coarser grain: the period, or nothing where the code throws.
InGrain(p, grain) ==
    CASE grain = "day" -> IF p.grain = "day" THEN {p} ELSE {}
      [] grain = "month" -> IF Coarse(p).grain = "month" THEN {Coarse(p)} ELSE {}
      [] grain = "quarter" -> IF p.grain = "quarter" THEN {p}
                              ELSE IF Coarse(p).grain = "month"
                                   THEN {Period("quarter", MonthOf(p) \div 3)} ELSE {}
      [] grain = "year" -> IF p.grain = "invalid" THEN {} ELSE {Period("year", YearOf(p))}

\* shiftedPeriodIndex: nothing when the day does not exist that many months earlier.
ShiftedPeriod(p, offset, unit) ==
    CASE unit = p.grain -> {Period(p.grain, p.index - offset)}
      [] p.grain = "day" ->
            LET month == MonthOf(p) - offset * (IF unit = "year" THEN 12 ELSE IF unit = "quarter" THEN 3 ELSE 1)
                day == p.index % DaysPerMonth
            IN  IF day < DaysIn[month] THEN {Period("day", month * DaysPerMonth + day)} ELSE {}
      [] OTHER -> {Period(p.grain, p.index - offset * (IF p.grain = "quarter" THEN 4
                                                       ELSE IF unit = "year" THEN 12 ELSE 3))}

-----------------------------------------------------------------------------
(* generateTransformPlan *)

\* Mutant: a comparison with the year before looks one period back whatever the grain.
PeriodOffsetOne(i) == IF i.comparison = "yoy" /\ i.grain = "month" THEN 12 ELSE 1

PeriodOffset(i) ==
    CASE i.comparison = "mom" -> 1
      [] i.comparison = "yoy" /\ executorVersion = "v1" -> 12
      [] OTHER -> CASE i.grain = "quarter" -> 4 [] i.grain = "month" -> 12 [] OTHER -> 1
PeriodUnit(i) == IF i.grain = "day" THEN IF i.comparison = "yoy" THEN "year" ELSE "month"
                 ELSE i.grain

PlanFor(i) ==
    (IF i.time /\ executorVersion = "v2" THEN <<[kind |-> "derive"]>> ELSE <<>>)
    \o <<[kind |-> "aggregate"]>>
    \o (IF i.comparison = "none" THEN <<>> ELSE <<[kind |-> "change"]>>)
    \o (IF i.time THEN <<[kind |-> "sort"]>> ELSE <<>>)

Intents ==
    {i \in [time : BOOLEAN, series : BOOLEAN, grain : Grains, comparison : {"none", "yoy", "mom"},
            spare : BOOLEAN] : i.spare => ~i.time /\ ~i.series}
Versions == {"v1", "v2"}

TransformTypeOK ==
    /\ executorVersion \in Versions
    /\ intent \in Intents
    /\ sourceRows \in SourceTables
    /\ execution \in {"planned", "running", "done", "failed"}
    /\ Len(planSteps) <= 4

TransformInit ==
    /\ executorVersion \in Versions
    /\ intent \in Intents
    /\ sourceRows \in SourceTables
    /\ resultRows = <<>>
    /\ planSteps = <<>>
    /\ execution = "planned"

\* A plan needs a column to group by, be it one that holds nothing.
PlanQuestion ==
    /\ execution = "planned"
    /\ IF intent.time \/ intent.series \/ intent.spare
       THEN /\ planSteps' = PlanFor(intent)
            /\ resultRows' = [n \in DOMAIN sourceRows |->
                  [time |-> sourceRows[n].time, series |-> {sourceRows[n].series},
                   amount |-> sourceRows[n].amount, change |-> {}]]
            /\ execution' = "running"
       ELSE execution' = "failed" /\ UNCHANGED <<planSteps, resultRows>>
    /\ UNCHANGED <<executorVersion, intent, sourceRows>>

-----------------------------------------------------------------------------
(* executeTransformPlan, one action per kind of step. *)

NextStep(kind) == execution = "running" /\ planSteps # <<>> /\ planSteps[1].kind = kind
StepFails == execution' = "failed" /\ UNCHANGED <<resultRows, planSteps>>
StepYields(rows) ==
    /\ resultRows' = rows
    /\ planSteps' = Tail(planSteps)
    /\ UNCHANGED execution

\* The time column in the grain of the question.
DeriveTime ==
    /\ NextStep("derive")
    /\ IF \E n \in DOMAIN resultRows : \E p \in resultRows[n].time : InGrain(p, intent.grain) = {}
       THEN StepFails
       ELSE StepYields([n \in DOMAIN resultRows |->
                [resultRows[n] EXCEPT !.time = UNION {InGrain(p, intent.grain) : p \in @}]])
    /\ UNCHANGED <<executorVersion, intent, sourceRows>>

\* aggregateRows: groups in the order of their first rows; a group without numbers has no sum.
GroupKey(row) == [time |-> IF intent.time THEN row.time ELSE {},
                  series |-> IF intent.series THEN row.series ELSE {}]
SumOver(amounts, numbered) ==
    IF numbered = {} THEN {}
    ELSE {MapThenSumSet(LAMBDA n : CHOOSE v \in amounts[n] : TRUE, numbered)}
SumOf(rows, group) ==
    SumOver([n \in DOMAIN rows |-> rows[n].amount],
            {n \in DOMAIN rows : GroupKey(rows[n]) = group /\ rows[n].amount # {}})
FirstRows ==
    {n \in DOMAIN resultRows :
        \A m \in 1..n-1 : GroupKey(resultRows[m]) # GroupKey(resultRows[n])}
Aggregate ==
    /\ NextStep("aggregate")
    /\ \E firsts \in Bijection(1..Cardinality(FirstRows), FirstRows) :
          /\ \A j, k \in DOMAIN firsts : j < k => firsts[j] < firsts[k]
          /\ StepYields([k \in DOMAIN firsts |->
                LET group == GroupKey(resultRows[firsts[k]])
                IN  [time |-> group.time, series |-> group.series,
                     amount |-> SumOf(resultRows, group), change |-> {}]])
    /\ UNCHANGED <<executorVersion, intent, sourceRows>>

\* deriveRowsV2, percent_change: within a series, the amount beside the one of the earlier
\* period, when both are there and the earlier is not zero.
EarlierRows(row) ==
    {n \in DOMAIN resultRows :
        /\ resultRows[n].series = row.series
        /\ \E p \in row.time :
              resultRows[n].time = ShiftedPeriod(p, PeriodOffset(intent), PeriodUnit(intent))}
\* deriveRows, version 1: the first row, in order of time, whose month is so much earlier; rows
\* without a date find one another.
StartOf(p) == IF p.grain = "month" THEN p.index * DaysPerMonth ELSE p.index
\* compareValues puts an empty cell first.
Before(a, b) ==
    \/ a = {} /\ b # {}
    \/ \E p \in a, q \in b : StartOf(p) < StartOf(q)
InOrder(n, m) ==
    \/ Before(resultRows[n].time, resultRows[m].time)
    \/ ~Before(resultRows[m].time, resultRows[n].time) /\ n < m
MonthKey(time, offset) == {MonthOf(p) - offset : p \in time}
EarlierRowsV1(row) ==
    LET found == {n \in DOMAIN resultRows :
                    /\ intent.time
                    /\ resultRows[n].series = row.series
                    /\ MonthKey(resultRows[n].time, 0) = MonthKey(row.time, PeriodOffset(intent))}
    IN  {n \in found : \A m \in found \ {n} : InOrder(n, m)}

ChangePairs(current, earlier) == {pair \in current \X earlier : pair[2] # 0}
PercentChange ==
    /\ NextStep("change")
    /\ IF /\ executorVersion = "v2"
          /\ \/ ~intent.time
             \/ \E n \in DOMAIN resultRows : resultRows[n].time = {}
             \/ \E n, m \in DOMAIN resultRows :
                   n # m /\ resultRows[n].time = resultRows[m].time
                         /\ resultRows[n].series = resultRows[m].series
       THEN StepFails
       ELSE StepYields([n \in DOMAIN resultRows |->
                [resultRows[n] EXCEPT !.change =
                    UNION {ChangePairs(resultRows[n].amount, resultRows[m].amount) :
                              m \in IF executorVersion = "v1" THEN EarlierRowsV1(resultRows[n])
                                    ELSE EarlierRows(resultRows[n])}]])
    /\ UNCHANGED <<executorVersion, intent, sourceRows>>

\* Rows that compare as equal keep their order.
SortByTime ==
    /\ NextStep("sort")
    /\ \E order \in Bijection(DOMAIN resultRows, DOMAIN resultRows) :
          /\ \A j, k \in DOMAIN order : j < k => InOrder(order[j], order[k])
          /\ StepYields([k \in DOMAIN order |-> resultRows[order[k]]])
    /\ UNCHANGED <<executorVersion, intent, sourceRows>>

FinishPlan ==
    /\ execution = "running" /\ planSteps = <<>>
    /\ execution' = "done"
    /\ UNCHANGED <<executorVersion, intent, sourceRows, resultRows, planSteps>>

TransformNext ==
    \/ PlanQuestion \/ DeriveTime \/ Aggregate \/ PercentChange \/ SortByTime \/ FinishPlan

TransformSpec == TransformInit /\ [][TransformNext]_transformVars

-----------------------------------------------------------------------------
(* The answer, from the source rows alone. *)

\* The periods of a source row, in the grain that was asked; version 1 keeps its date.
PeriodsOf(n) ==
    IF ~intent.time THEN {}
    ELSE IF executorVersion = "v1" THEN sourceRows[n].time
    ELSE UNION {InGrain(p, intent.grain) : p \in sourceRows[n].time}
SeriesOf(n) == IF intent.series THEN {sourceRows[n].series} ELSE {}

\* The total of the rows of the source that count for a series and a period.
Total(time, series) ==
    SumOver([n \in DOMAIN sourceRows |-> sourceRows[n].amount],
            {n \in DOMAIN sourceRows : /\ SeriesOf(n) = series /\ PeriodsOf(n) = time
                                       /\ sourceRows[n].amount # {}})

\* The period a year, or one unit of the calendar, earlier; of a day, the same day of the
\* month before.
Months == IF intent.comparison = "yoy" THEN 12 ELSE 1
Ago(p) ==
    CASE p.grain = "year" -> {Period("year", p.index - 1)}
      [] p.grain = "quarter" -> {Period("quarter", p.index - (IF intent.comparison = "yoy" THEN 4 ELSE 1))}
      [] p.grain = "month" -> {Period("month", p.index - Months)}
      [] p.grain = "day" -> IF p.index % DaysPerMonth < DaysIn[MonthOf(p) - Months]
                            THEN {Period("day", p.index - Months * DaysPerMonth)} ELSE {}
\* Of version 1, the dates of the month so much earlier.
MonthAgo(p, series) ==
    UNION {PeriodsOf(n) : n \in {m \in DOMAIN sourceRows :
              SeriesOf(m) = series /\ MonthKey(PeriodsOf(m), 0) = {MonthOf(p) - Months}}}
EarlierTime(p, series) == IF executorVersion = "v1" THEN MonthAgo(p, series) ELSE Ago(p)

Answered ==
    {[time |-> PeriodsOf(n), series |-> SeriesOf(n), amount |-> Total(PeriodsOf(n), SeriesOf(n)),
      change |-> IF intent.comparison = "none" THEN {}
                 ELSE UNION {ChangePairs(Total(PeriodsOf(n), SeriesOf(n)),
                                         Total(EarlierTime(p, SeriesOf(n)), SeriesOf(n))) :
                                p \in PeriodsOf(n)}] :
        n \in DOMAIN sourceRows}

EveryRowIsDated == intent.time /\ \A n \in DOMAIN sourceRows : sourceRows[n].time # {}
Answerable ==
    /\ intent.time \/ intent.series \/ intent.spare
    /\ executorVersion = "v2" =>
          /\ intent.time => \A n \in DOMAIN sourceRows :
                               \A p \in sourceRows[n].time : InGrain(p, intent.grain) # {}
          /\ intent.comparison # "none" => EveryRowIsDated

\* Version 1 compares months: its comparisons say what was asked only of rows that all have a
\* date of the calendar, with one date for each month of a series.
OneDatePerMonth ==
    \A n, m \in DOMAIN sourceRows :
        /\ SeriesOf(n) = SeriesOf(m)
        /\ MonthKey(PeriodsOf(n), 0) = MonthKey(PeriodsOf(m), 0)
        => PeriodsOf(n) = PeriodsOf(m)
AllDatesExist == \A n \in DOMAIN sourceRows : \A p \in sourceRows[n].time : p.grain # "invalid"
Comparable ==
    executorVersion = "v1" /\ intent.comparison # "none" =>
        EveryRowIsDated /\ OneDatePerMonth /\ AllDatesExist

\* A plan answers what was asked, in whatever order the rows come: one row for each series
\* and period, with the total of its source rows, beside the total of the period it is to be
\* compared with, in order of time. It fails exactly when there is nothing to group by or, since
\* version 2, when a date is none of the calendar, is too coarse, or is missing from rows that
\* are to be compared. Version 1 answers from invalid dates too, but promises neither order nor
\* comparison then (generateTransformPlan and executeTransformPlan together).
AnswerIsWhatWasAsked ==
    /\ execution = "done" /\ Comparable =>
          ToSet(resultRows) = Answered /\ Len(resultRows) = Cardinality(Answered)
    /\ execution = "done" /\ intent.time /\ (executorVersion = "v1" => AllDatesExist) =>
          \A n \in 1..Len(resultRows)-1 : ~Before(resultRows[n+1].time, resultRows[n].time)
    /\ execution = "failed" => ~Answerable
    /\ execution = "done" => Answerable
=============================================================================
