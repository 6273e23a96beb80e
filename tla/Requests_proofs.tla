---------------------------- MODULE Requests_proofs ----------------------------
(***************************************************************************)
(* What is proved of calls that overlap: LocalParse, the parser that one   *)
(* call holds at a time; TableAgent, the import of a document that others  *)
(* edit; ProjectTheme, saves of a theme that several authors were shown;   *)
(* JobEnqueue, requests for jobs that repeat one another, and              *)
(* RevisionService, the calls that make revisions without a render worker. *)
(* For any calls, sheets, authors, keys and bounds.                        *)
(*                                                                         *)
(* Of requests that race for one revision, RevisionReview, for any         *)
(* revisions, artifacts and requests.                                      *)
(*                                                                         *)
(* And what is proved of one job that computes: TransformExecution, the    *)
(* answer of a plan over tables of any size, by what each step has made of *)
(* the rows; ChartPlanning, a choice laid over whatever is proposed.       *)
(***************************************************************************)
EXTENDS MCRequests, ProjectTheme, FiniteSetTheorems,
        SequenceTheorems, TLAPS

\* Every set of natural numbers that is not empty has a least: induction on data rests on it.
LEMMA LeastOf ==
    ASSUME NEW S \in SUBSET Nat, S # {}
    PROVE  \E n \in S : \A m \in S : n <= m
<1> DEFINE Below == {1..n : n \in S}
           R == StrictSubsetOrdering(Nat)
<1>1. Below \subseteq FiniteSubsetsOf(Nat) /\ Below # {}
  <2>1. \A n \in S : IsFiniteSet(1..n) /\ 1..n \subseteq Nat
    BY FS_Interval
  <2> QED
    BY <2>1 DEF FiniteSubsetsOf
<1> HIDE DEF Below, R
<1>2. IsWellFoundedOn(R, FiniteSubsetsOf(Nat))
  BY FS_StrictSubsetOrderingWellFounded DEF R
<1>3. PICK x \in Below : \A y \in Below : ~(<<y, x>> \in R)
  BY <1>1, <1>2, WFMin
<1>4. PICK n \in S : x = 1..n
  BY DEF Below
<1>5. SUFFICES ASSUME NEW m \in S, m < n PROVE FALSE
  BY <1>4
<1>6. 1..m \in Below
  BY DEF Below
<1>7. <<1..m, x>> \in R
  <2>1. 1..m \subseteq 1..n /\ n \in 1..n /\ n \notin 1..m
    BY <1>5
  <2> QED
    BY <1>4, <2>1 DEF R, StrictSubsetOrdering
<1> QED
  BY <1>3, <1>6, <1>7

-----------------------------------------------------------------------------
(* Transform plans: the plan that is left *)

Sorting(i) == IF i.time THEN <<[kind |-> "sort"]>> ELSE <<>>
Changing(i) ==
    IF i.comparison = "none" THEN Sorting(i) ELSE <<[kind |-> "change"]>> \o Sorting(i)
Aggregating(i) == <<[kind |-> "aggregate"]>> \o Changing(i)
Derives == intent.time /\ executorVersion = "v2"

StepKinds == [kind : {"derive", "aggregate", "change", "sort"}]

\* A step put before a plan is its head, and the plan its tail.
LEMMA FirstStep ==
    ASSUME NEW plan \in Seq(StepKinds), NEW head \in StepKinds
    PROVE  /\ <<head>> \o plan \in Seq(StepKinds) /\ <<head>> \o plan # <<>>
           /\ (<<head>> \o plan)[1] = head /\ Tail(<<head>> \o plan) = plan
<1>1. <<head>> \in Seq(StepKinds) /\ Len(<<head>>) = 1 /\ <<head>>[1] = head
  OBVIOUS
<1>2. /\ <<head>> \o plan \in Seq(StepKinds) /\ Len(<<head>> \o plan) = 1 + Len(plan)
      /\ (<<head>> \o plan)[1] = head
      /\ \A n \in 1..Len(plan) : (<<head>> \o plan)[n + 1] = plan[n]
  BY <1>1
<1> DEFINE longer == <<head>> \o plan
<1> HIDE DEF longer
<1>3. /\ longer # <<>> /\ Tail(longer) \in Seq(StepKinds) /\ Len(Tail(longer)) = Len(plan)
      /\ \A n \in 1..Len(plan) : Tail(longer)[n] = longer[n + 1]
  BY <1>2 DEF longer
<1>4. Tail(longer) = plan
  BY <1>2, <1>3 DEF longer
<1> QED
  BY <1>2, <1>3, <1>4 DEF longer

Then(plan, rest) == plan \o rest

LEMMA PlansJoin ==
    ASSUME NEW a \in Seq(StepKinds), NEW b \in Seq(StepKinds), NEW c \in Seq(StepKinds)
    PROVE  Then(a, b) \in Seq(StepKinds) /\ Then(Then(a, b), c) = Then(a, Then(b, c))
<1>1. a \o b \in Seq(StepKinds)
  BY ConcatProperties
<1>2. (a \o b) \o c = a \o (b \o c)
  BY ConcatAssociative
<1> QED
  BY <1>1, <1>2 DEF Then

\* Each part of a plan is its first step and the next part.
LEMMA PlanParts ==
    ASSUME NEW i \in Intents
    PROVE  /\ Sorting(i) \in Seq(StepKinds) /\ Changing(i) \in Seq(StepKinds)
           /\ Aggregating(i) \in Seq(StepKinds)
           /\ i.time => /\ Sorting(i) # <<>> /\ Sorting(i)[1].kind = "sort"
                        /\ Tail(Sorting(i)) = <<>>
           /\ ~i.time => Sorting(i) = <<>>
           /\ i.comparison # "none" =>
                 /\ Changing(i) # <<>> /\ Changing(i)[1].kind = "change"
                 /\ Tail(Changing(i)) = Sorting(i)
           /\ i.comparison = "none" => Changing(i) = Sorting(i)
           /\ Aggregating(i) # <<>> /\ Aggregating(i)[1].kind = "aggregate"
           /\ Tail(Aggregating(i)) = Changing(i)
<1> DEFINE sort == [kind |-> "sort"]
           change == [kind |-> "change"]
           aggregate == [kind |-> "aggregate"]
<1>1. /\ sort \in StepKinds /\ change \in StepKinds /\ aggregate \in StepKinds
      /\ sort.kind = "sort" /\ change.kind = "change" /\ aggregate.kind = "aggregate"
  BY DEF StepKinds
<1>2. <<>> \in Seq(StepKinds) /\ <<sort>> \in Seq(StepKinds)
      /\ <<sort>>[1] = sort /\ Tail(<<sort>>) = <<>> /\ <<sort>> # <<>>
  BY <1>1
<1> HIDE DEF sort, change, aggregate
<1>3. /\ Sorting(i) = (IF i.time THEN <<sort>> ELSE <<>>)
      /\ Changing(i) = (IF i.comparison = "none" THEN Sorting(i) ELSE <<change>> \o Sorting(i))
      /\ Aggregating(i) = <<aggregate>> \o Changing(i)
  BY DEF Sorting, Changing, Aggregating, sort, change, aggregate
<1>4. Sorting(i) \in Seq(StepKinds)
  BY <1>2, <1>3
<1>5. /\ <<change>> \o Sorting(i) \in Seq(StepKinds) /\ <<change>> \o Sorting(i) # <<>>
      /\ (<<change>> \o Sorting(i))[1] = change /\ Tail(<<change>> \o Sorting(i)) = Sorting(i)
  BY <1>1, <1>4, FirstStep
<1>6. Changing(i) \in Seq(StepKinds)
  BY <1>3, <1>4, <1>5
<1>7. /\ Aggregating(i) \in Seq(StepKinds) /\ Aggregating(i) # <<>>
      /\ Aggregating(i)[1] = aggregate /\ Tail(Aggregating(i)) = Changing(i)
  BY <1>1, <1>3, <1>6, FirstStep
<1> QED
  BY <1>1, <1>2, <1>3, <1>4, <1>5, <1>6, <1>7

\* So is the plan, as PlanFor puts it together.
LEMMA PlanWhole ==
    ASSUME NEW i \in Intents
    PROVE  /\ i.time /\ executorVersion = "v2" =>
                 /\ PlanFor(i) # <<>> /\ PlanFor(i)[1].kind = "derive"
                 /\ Tail(PlanFor(i)) = Aggregating(i)
           /\ ~(i.time /\ executorVersion = "v2") => PlanFor(i) = Aggregating(i)
<1> DEFINE derive == [kind |-> "derive"]
           one == IF i.time /\ executorVersion = "v2" THEN <<derive>> ELSE <<>>
           two == <<[kind |-> "aggregate"]>>
           three == IF i.comparison = "none" THEN <<>> ELSE <<[kind |-> "change"]>>
           four == Sorting(i)
<1>1. derive \in StepKinds /\ derive.kind = "derive"
  BY DEF StepKinds
<1>2. /\ one \in Seq(StepKinds) /\ two \in Seq(StepKinds) /\ three \in Seq(StepKinds)
      /\ four \in Seq(StepKinds) /\ Aggregating(i) \in Seq(StepKinds)
  <2>1. [kind |-> "aggregate"] \in StepKinds /\ [kind |-> "change"] \in StepKinds
    BY DEF StepKinds
  <2>2. one \in Seq(StepKinds) /\ two \in Seq(StepKinds) /\ three \in Seq(StepKinds)
    BY <1>1, <2>1
  <2> QED
    BY <2>2, PlanParts
<1>3. PlanFor(i) = Then(Then(Then(one, two), three), four)
  BY DEF PlanFor, Sorting, Then
<1>4. Aggregating(i) = Then(two, Then(three, four))
  BY <1>2 DEF Changing, Aggregating, Then
<1>5. PlanFor(i) = Then(one, Aggregating(i))
  <2> HIDE DEF one, two, three, four
  <2>1. Then(one, two) \in Seq(StepKinds) /\ Then(three, four) \in Seq(StepKinds)
    BY <1>2, PlansJoin
  <2>2. Then(Then(Then(one, two), three), four) = Then(Then(one, two), Then(three, four))
    BY <1>2, <2>1, PlansJoin
  <2>3. Then(Then(one, two), Then(three, four)) = Then(one, Then(two, Then(three, four)))
    BY <1>2, <2>1, PlansJoin
  <2> QED
    BY <1>3, <1>4, <2>2, <2>3
<1>6. /\ <<derive>> \o Aggregating(i) # <<>> /\ (<<derive>> \o Aggregating(i))[1] = derive
      /\ Tail(<<derive>> \o Aggregating(i)) = Aggregating(i)
  BY <1>1, <1>2, FirstStep
<1>7. <<>> \o Aggregating(i) = Aggregating(i)
  BY <1>2
<1> QED
  BY <1>1, <1>5, <1>6, <1>7 DEF Then

-----------------------------------------------------------------------------
(* Rows: the inductive invariant *)

\* A source row with the time that its plan groups it by.
TimeOf(n) == IF Derives THEN UNION {InGrain(p, intent.grain) : p \in sourceRows[n].time}
             ELSE sourceRows[n].time
RowsFrom(times) ==
    [n \in DOMAIN sourceRows |->
        [time |-> times[n], series |-> {sourceRows[n].series},
         amount |-> sourceRows[n].amount, change |-> {}]]
SourceTimes == [n \in DOMAIN sourceRows |-> sourceRows[n].time]
GroupTimes == [n \in DOMAIN sourceRows |-> TimeOf(n)]

\* Dates that the grain can be told of.
Datable == \A n \in DOMAIN sourceRows :
               \A p \in sourceRows[n].time : InGrain(p, intent.grain) # {}

\* What is to stand beside the amount of a row of the answer.
ChangeOf(time, series) ==
    IF intent.comparison = "none" THEN {}
    ELSE UNION {ChangePairs(Total(time, series), Total(EarlierTime(p, series), series)) :
                   p \in time}

\* One row for each group, with its total.
Grouped(rows) ==
    /\ Len(rows) \in Nat /\ DOMAIN rows = 1..Len(rows)
    /\ \A j \in DOMAIN rows :
          \E n \in DOMAIN sourceRows :
              rows[j] = [time |-> PeriodsOf(n), series |-> SeriesOf(n),
                         amount |-> Total(PeriodsOf(n), SeriesOf(n)), change |-> rows[j].change]
    /\ \A n \in DOMAIN sourceRows :
          \E j \in DOMAIN rows : rows[j].time = PeriodsOf(n) /\ rows[j].series = SeriesOf(n)
    /\ \A j, m \in DOMAIN rows :
          rows[j].time = rows[m].time /\ rows[j].series = rows[m].series => j = m
Changed(rows) == \A j \in DOMAIN rows : rows[j].change = ChangeOf(rows[j].time, rows[j].series)
InTime(rows) ==
    \A j, m \in DOMAIN rows : j < m => ~Before(rows[m].time, rows[j].time)

Told == Derives => Datable
Dated == executorVersion = "v2" /\ intent.comparison # "none" => EveryRowIsDated
IsAnswer(rows) ==
    Told /\ Dated /\ Grouped(rows) /\ (Comparable => Changed(rows))

\* How far the plan has got, and what it has made of the rows.
Progress ==
    \/ planSteps = PlanFor(intent) /\ resultRows = RowsFrom(SourceTimes)
    \/ planSteps = Aggregating(intent) /\ resultRows = RowsFrom(GroupTimes) /\ Told
    \/ /\ planSteps = Changing(intent) /\ intent.comparison # "none"
       /\ Told /\ Grouped(resultRows) /\ \A j \in DOMAIN resultRows : resultRows[j].change = {}
    \/ planSteps = Sorting(intent) /\ IsAnswer(resultRows)
    \/ planSteps = <<>> /\ IsAnswer(resultRows) /\ (intent.time => InTime(resultRows))

Grouping == intent.time \/ intent.series \/ intent.spare

TransformInv ==
    /\ executorVersion \in Versions /\ intent \in Intents /\ sourceRows \in SourceTables
    /\ execution \in {"planned", "running", "done", "failed"}
    /\ execution = "running" => Grouping /\ Progress
    /\ execution = "failed" => ~Answerable
    /\ execution = "done" =>
          /\ Grouping /\ IsAnswer(resultRows)
          /\ intent.time => InTime(resultRows)

-----------------------------------------------------------------------------
(* Dates *)

AtMostOne(dates) == dates \subseteq SourcePeriods /\ \A p, q \in dates : p = q

\* Snapshots are sequences, with one date in a cell at most.
LEMMA SourceFacts ==
    ASSUME sourceRows \in SourceTables
    PROVE  /\ Len(sourceRows) \in Nat /\ DOMAIN sourceRows = 1..Len(sourceRows)
           /\ \A n \in DOMAIN sourceRows : AtMostOne(sourceRows[n].time)
<1>1. sourceRows \in Seq(ToSet(sourceRows))
  BY TransformAssumption
<1> QED
  BY <1>1, TransformAssumption, LenProperties DEF AtMostOne

\* A date has one period in a grain at most.
LEMMA GrainFacts ==
    ASSUME NEW p \in SourcePeriods, NEW grain \in Grains
    PROVE  AtMostOne(InGrain(p, grain)) /\ \A q \in InGrain(p, grain) : q.grain = grain
<1>1. /\ Coarse(p) \in SourcePeriods /\ MonthOf(p) \in Int /\ YearOf(p) \in Int
      /\ MonthOf(p) \div 3 \in Int
  BY DEF Coarse, Period, MonthOf, YearOf, SourcePeriods, Grains, DaysPerMonth
<1>2. \A g \in Grains, i \in Int : Period(g, i) \in SourcePeriods /\ Period(g, i).grain = g
  BY DEF Period, SourcePeriods
<1> QED
  BY <1>1, <1>2 DEF InGrain, AtMostOne, Grains

\* What the plan groups a row by is the period that was asked for.
LEMMA TimeFacts ==
    ASSUME executorVersion \in Versions, intent \in Intents, sourceRows \in SourceTables
    PROVE  \A n \in DOMAIN sourceRows :
              /\ AtMostOne(TimeOf(n))
              /\ PeriodsOf(n) = (IF intent.time THEN TimeOf(n) ELSE {})
              /\ AtMostOne(PeriodsOf(n))
              /\ Derives => \A p \in TimeOf(n) : p.grain = intent.grain
              /\ Derives /\ Datable /\ TimeOf(n) = {} => sourceRows[n].time = {}
<1> SUFFICES ASSUME NEW n \in DOMAIN sourceRows
             PROVE  /\ AtMostOne(TimeOf(n))
                    /\ PeriodsOf(n) = (IF intent.time THEN TimeOf(n) ELSE {})
                    /\ AtMostOne(PeriodsOf(n))
                    /\ Derives => \A p \in TimeOf(n) : p.grain = intent.grain
                    /\ Derives /\ Datable /\ TimeOf(n) = {} => sourceRows[n].time = {}
  OBVIOUS
<1>1. AtMostOne(sourceRows[n].time) /\ intent.grain \in Grains
  BY SourceFacts DEF Intents
<1>2. \A p \in sourceRows[n].time : /\ AtMostOne(InGrain(p, intent.grain))
                                    /\ \A q \in InGrain(p, intent.grain) : q.grain = intent.grain
  BY <1>1, GrainFacts DEF AtMostOne
<1>3. AtMostOne(TimeOf(n)) /\ (Derives => \A p \in TimeOf(n) : p.grain = intent.grain)
  <2>1. CASE Derives
    <3>1. TimeOf(n) = UNION {InGrain(p, intent.grain) : p \in sourceRows[n].time}
      BY <2>1 DEF TimeOf
    <3> QED
      BY <1>1, <1>2, <3>1 DEF AtMostOne
  <2>2. CASE ~Derives
    BY <1>1, <2>2 DEF TimeOf
  <2> QED
    BY <2>1, <2>2
<1>4. PeriodsOf(n) = (IF intent.time THEN TimeOf(n) ELSE {})
  <2>1. CASE ~intent.time
    BY <2>1 DEF PeriodsOf
  <2>2. CASE intent.time /\ executorVersion = "v2"
    BY <2>2 DEF PeriodsOf, TimeOf, Derives
  <2>3. CASE intent.time /\ executorVersion # "v2"
    BY <2>3 DEF Versions, PeriodsOf, TimeOf, Derives
  <2> QED
    BY <2>1, <2>2, <2>3
<1>5. Derives /\ Datable /\ TimeOf(n) = {} => sourceRows[n].time = {}
  BY DEF Datable, TimeOf
<1> QED
  BY <1>3, <1>4, <1>5 DEF AtMostOne

-----------------------------------------------------------------------------
(* Groups *)

Key(n) == [time |-> PeriodsOf(n), series |-> SeriesOf(n)]
SourceFirsts == {n \in DOMAIN sourceRows : \A m \in 1..n-1 : Key(m) # Key(n)}

\* A function of the numbers up to c has c rows.
LEMMA LenOfRows ==
    ASSUME NEW c \in Nat, NEW rows, rows = [j \in 1..c |-> rows[j]]
    PROVE  Len(rows) = c /\ DOMAIN rows = 1..c
<1>1. rows \in [1..c -> {rows[j] : j \in 1..c}]
  OBVIOUS
<1>2. rows \in Seq({rows[j] : j \in 1..c})
  BY <1>1
<1> QED
  BY <1>1, <1>2, LenProperties

\* Grouping the rows is grouping the source.
LEMMA GroupedRows ==
    ASSUME executorVersion \in Versions, intent \in Intents, sourceRows \in SourceTables,
           resultRows = RowsFrom(GroupTimes)
    PROVE  /\ DOMAIN resultRows = DOMAIN sourceRows
           /\ \A n \in DOMAIN sourceRows :
                 /\ GroupKey(resultRows[n]) = Key(n)
                 /\ SumOf(resultRows, Key(n)) = Total(PeriodsOf(n), SeriesOf(n))
           /\ FirstRows = SourceFirsts
<1>1. /\ DOMAIN resultRows = DOMAIN sourceRows
      /\ \A n \in DOMAIN sourceRows :
            /\ resultRows[n].time = TimeOf(n) /\ resultRows[n].series = {sourceRows[n].series}
            /\ resultRows[n].amount = sourceRows[n].amount
  BY DEF RowsFrom, GroupTimes
<1>2. \A n \in DOMAIN sourceRows : GroupKey(resultRows[n]) = Key(n)
  BY <1>1, TimeFacts DEF GroupKey, Key, SeriesOf
<1>3. ASSUME NEW n \in DOMAIN sourceRows
      PROVE  SumOf(resultRows, Key(n)) = Total(PeriodsOf(n), SeriesOf(n))
  <2> DEFINE amounts == [m \in DOMAIN sourceRows |-> sourceRows[m].amount]
             counted == {m \in DOMAIN sourceRows :
                            /\ SeriesOf(m) = SeriesOf(n) /\ PeriodsOf(m) = PeriodsOf(n)
                            /\ sourceRows[m].amount # {}}
             summed == {m \in DOMAIN resultRows :
                            GroupKey(resultRows[m]) = Key(n) /\ resultRows[m].amount # {}}
  <2>1. [m \in DOMAIN resultRows |-> resultRows[m].amount] = amounts
    BY <1>1
  <2>2. summed = counted
    BY <1>1, <1>2 DEF Key
  <2>3. SumOf(resultRows, Key(n)) = SumOver(amounts, summed)
    BY <2>1 DEF SumOf
  <2>4. Total(PeriodsOf(n), SeriesOf(n)) = SumOver(amounts, counted)
    BY DEF Total
  <2> QED
    BY <2>2, <2>3, <2>4
<1>4. FirstRows = SourceFirsts
  <2>1. DOMAIN sourceRows = 1..Len(sourceRows) /\ Len(sourceRows) \in Nat
    BY SourceFacts
  <2>2. \A n \in DOMAIN sourceRows : \A m \in 1..n-1 : m \in DOMAIN sourceRows
    BY <2>1
  <2> QED
    BY <1>1, <1>2, <2>2 DEF FirstRows, SourceFirsts
<1> QED
  BY <1>1, <1>2, <1>3, <1>4

\* Every group has a first row, and only one.
LEMMA GroupHasFirst ==
    ASSUME sourceRows \in SourceTables
    PROVE  /\ SourceFirsts \subseteq DOMAIN sourceRows
           /\ IsFiniteSet(SourceFirsts) /\ Cardinality(SourceFirsts) \in Nat
           /\ \A n \in DOMAIN sourceRows : \E m \in SourceFirsts : Key(m) = Key(n)
           /\ \A m, n \in SourceFirsts : Key(m) = Key(n) => m = n
<1>1. DOMAIN sourceRows = 1..Len(sourceRows) /\ Len(sourceRows) \in Nat
  BY SourceFacts
<1>2. SourceFirsts \subseteq DOMAIN sourceRows
  BY DEF SourceFirsts
<1>3. IsFiniteSet(SourceFirsts) /\ Cardinality(SourceFirsts) \in Nat
  <2>1. IsFiniteSet(DOMAIN sourceRows)
    BY <1>1, FS_Interval
  <2>2. IsFiniteSet(SourceFirsts)
    BY <1>2, <2>1, FS_Subset
  <2> QED
    BY <2>2, FS_CardinalityType
<1>4. ASSUME NEW n \in DOMAIN sourceRows
      PROVE  \E m \in SourceFirsts : Key(m) = Key(n)
  <2> DEFINE same == {m \in DOMAIN sourceRows : Key(m) = Key(n)}
  <2>1. same \in SUBSET Nat /\ same # {}
    BY <1>1
  <2>2. PICK m \in same : \A other \in same : m <= other
    <3> HIDE DEF same
    <3> QED
      BY <2>1, LeastOf
  <2>3. ASSUME NEW other \in 1..m-1, Key(other) = Key(m) PROVE FALSE
    <3>1. other \in same /\ ~(m <= other)
      BY <1>1, <2>2, <2>3
    <3> QED
      BY <2>2, <3>1
  <2> QED
    BY <2>2, <2>3 DEF SourceFirsts
<1>5. ASSUME NEW m \in SourceFirsts, NEW n \in SourceFirsts, Key(m) = Key(n), m # n
      PROVE  FALSE
  <2>1. m \in Nat /\ n \in Nat /\ m > 0 /\ n > 0
    BY <1>1, <1>2
  <2>2. m \in 1..n-1 \/ n \in 1..m-1
    BY <1>5, <2>1
  <2> QED
    BY <1>5, <2>2 DEF SourceFirsts
<1> QED
  BY <1>2, <1>3, <1>4, <1>5

\* Aggregation leaves one row for each group.
LEMMA AggregateGroups ==
    ASSUME executorVersion \in Versions, intent \in Intents, sourceRows \in SourceTables,
           resultRows = RowsFrom(GroupTimes), Aggregate
    PROVE  /\ Grouped(resultRows') /\ \A j \in DOMAIN resultRows' : resultRows'[j].change = {}
           /\ planSteps' = Tail(planSteps) /\ execution' = execution
<1> DEFINE size == Cardinality(SourceFirsts)
           row(n) == [time |-> PeriodsOf(n), series |-> SeriesOf(n),
                      amount |-> Total(PeriodsOf(n), SeriesOf(n)), change |-> {}]
<1>1. FirstRows = SourceFirsts
  BY GroupedRows
<1>2. PICK firsts \in Bijection(1..size, SourceFirsts) :
         StepYields([j \in DOMAIN firsts |->
                LET group == GroupKey(resultRows[firsts[j]])
                IN  [time |-> group.time, series |-> group.series,
                     amount |-> SumOf(resultRows, group), change |-> {}]])
  BY <1>1 DEF Aggregate
<1>3. /\ DOMAIN firsts = 1..size
      /\ \A j \in 1..size : firsts[j] \in SourceFirsts
      /\ \A j, m \in 1..size : firsts[j] = firsts[m] => j = m
      /\ \A n \in SourceFirsts : \E j \in 1..size : firsts[j] = n
  BY DEF Bijection, Injection, Surjection, IsInjective
<1>4. size \in Nat /\ SourceFirsts \subseteq DOMAIN sourceRows
  BY GroupHasFirst
<1> DEFINE rows == [j \in 1..size |-> row(firsts[j])]
<1>5. resultRows' = rows
  <2>1. \A j \in 1..size : /\ GroupKey(resultRows[firsts[j]]) = Key(firsts[j])
                           /\ SumOf(resultRows, Key(firsts[j]))
                                 = Total(PeriodsOf(firsts[j]), SeriesOf(firsts[j]))
    BY <1>3, <1>4, GroupedRows
  <2>2. resultRows' = [j \in 1..size |->
                LET group == GroupKey(resultRows[firsts[j]])
                IN  [time |-> group.time, series |-> group.series,
                     amount |-> SumOf(resultRows, group), change |-> {}]]
    BY <1>2, <1>3 DEF StepYields
  <2>3. ASSUME NEW j \in 1..size
        PROVE  LET group == GroupKey(resultRows[firsts[j]])
               IN  [time |-> group.time, series |-> group.series,
                    amount |-> SumOf(resultRows, group), change |-> {}] = row(firsts[j])
    <3>1. Key(firsts[j]).time = PeriodsOf(firsts[j]) /\ Key(firsts[j]).series = SeriesOf(firsts[j])
      BY DEF Key
    <3> QED
      BY <2>1, <3>1
  <2> QED
    BY <2>2, <2>3
<1>6. Len(rows) = size /\ DOMAIN rows = 1..size
  <2>1. rows = [j \in 1..size |-> rows[j]]
    OBVIOUS
  <2> HIDE DEF rows
  <2> QED
    BY <1>4, <2>1, LenOfRows
<1>7. ASSUME NEW n \in DOMAIN sourceRows
      PROVE  \E j \in 1..size : rows[j].time = PeriodsOf(n) /\ rows[j].series = SeriesOf(n)
  <2>1. PICK m \in SourceFirsts : Key(m) = Key(n)
    BY GroupHasFirst
  <2>2. PICK j \in 1..size : firsts[j] = m
    BY <1>3
  <2> QED
    BY <2>1, <2>2 DEF Key
<1>8. ASSUME NEW j \in 1..size, NEW m \in 1..size,
             rows[j].time = rows[m].time, rows[j].series = rows[m].series
      PROVE  j = m
  <2>1. Key(firsts[j]) = Key(firsts[m])
    BY <1>8 DEF Key
  <2> QED
    BY <1>3, <2>1, GroupHasFirst
<1>9. Grouped(rows)
  <2>1. \A j \in 1..size : rows[j] = row(firsts[j]) /\ firsts[j] \in DOMAIN sourceRows
    BY <1>3, <1>4
  <2>2. \A j \in 1..size :
          \E n \in DOMAIN sourceRows :
              rows[j] = [time |-> PeriodsOf(n), series |-> SeriesOf(n),
                         amount |-> Total(PeriodsOf(n), SeriesOf(n)), change |-> rows[j].change]
    BY <2>1
  <2> HIDE DEF rows
  <2> QED
    BY <1>4, <1>6, <1>7, <1>8, <2>2 DEF Grouped
<1> QED
  <2>1. \A j \in DOMAIN rows : rows[j].change = {}
    BY <1>6
  <2>2. planSteps' = Tail(planSteps) /\ execution' = execution
    BY <1>2 DEF StepYields
  <2> HIDE DEF rows
  <2> QED
    BY <1>5, <1>9, <2>1, <2>2

\* Dates are derived, unless one is too coarse.
LEMMA DeriveDates ==
    ASSUME sourceRows \in SourceTables, resultRows = RowsFrom(SourceTimes), Derives, DeriveTime
    PROVE  \/ StepFails /\ ~Datable
           \/ /\ resultRows' = RowsFrom(GroupTimes) /\ Datable
              /\ planSteps' = Tail(planSteps) /\ execution' = execution
<1>1. /\ DOMAIN resultRows = DOMAIN sourceRows
      /\ \A n \in DOMAIN sourceRows :
            /\ resultRows[n].time = sourceRows[n].time
            /\ resultRows[n] = [time |-> sourceRows[n].time, series |-> {sourceRows[n].series},
                                amount |-> sourceRows[n].amount, change |-> {}]
  BY DEF RowsFrom, SourceTimes
<1>2. (\E n \in DOMAIN resultRows :
          \E p \in resultRows[n].time : InGrain(p, intent.grain) = {}) <=> ~Datable
  BY <1>1 DEF Datable
<1>3. CASE ~Datable
  BY <1>2, <1>3 DEF DeriveTime
<1>4. CASE Datable
  <2> DEFINE derived(row) ==
                [row EXCEPT !.time = UNION {InGrain(p, intent.grain) : p \in row.time}]
  <2>1. StepYields([n \in DOMAIN resultRows |->
            [resultRows[n] EXCEPT !.time = UNION {InGrain(p, intent.grain) : p \in @}]])
    BY <1>2, <1>4 DEF DeriveTime
  <2>2. /\ resultRows' = [n \in DOMAIN sourceRows |-> derived(resultRows[n])]
        /\ planSteps' = Tail(planSteps) /\ execution' = execution
    BY <1>1, <2>1 DEF StepYields
  <2>3. ASSUME NEW n \in DOMAIN sourceRows
        PROVE  derived(resultRows[n]) = [time |-> TimeOf(n), series |-> {sourceRows[n].series},
                                         amount |-> sourceRows[n].amount, change |-> {}]
    <3>1. TimeOf(n) = UNION {InGrain(p, intent.grain) : p \in resultRows[n].time}
      BY <1>1 DEF TimeOf
    <3>2. derived(resultRows[n]) = [resultRows[n] EXCEPT !.time = TimeOf(n)]
      BY <3>1
    <3>3. \A time : [resultRows[n] EXCEPT !.time = time]
                        = [time |-> time, series |-> {sourceRows[n].series},
                           amount |-> sourceRows[n].amount, change |-> {}]
      <4> DEFINE one == sourceRows[n].time
                 two == {sourceRows[n].series}
                 three == sourceRows[n].amount
      <4>1. resultRows[n] = [time |-> one, series |-> two, amount |-> three, change |-> {}]
        BY <1>1
      <4> HIDE DEF one, two, three
      <4>2. \A time : [[time |-> one, series |-> two, amount |-> three, change |-> {}]
                         EXCEPT !.time = time]
                        = [time |-> time, series |-> two, amount |-> three, change |-> {}]
        OBVIOUS
      <4>3. \A time : [resultRows[n] EXCEPT !.time = time]
                        = [time |-> time, series |-> two, amount |-> three, change |-> {}]
        BY <4>1, <4>2
      <4> QED
        BY <4>3 DEF two, three
    <3> HIDE DEF derived
    <3> QED
      BY <3>2, <3>3
  <2>4. resultRows' = RowsFrom(GroupTimes)
    <3> HIDE DEF derived
    <3> QED
      BY <2>2, <2>3 DEF RowsFrom, GroupTimes
  <2> QED
    BY <1>4, <2>2, <2>4
<1> QED
  BY <1>3, <1>4

-----------------------------------------------------------------------------
(* Changes *)

\* What Grouped says of a row.
LEMMA GroupedFacts ==
    ASSUME executorVersion \in Versions, intent \in Intents, sourceRows \in SourceTables,
           NEW rows, Grouped(rows), NEW j \in DOMAIN rows
    PROVE  /\ AtMostOne(rows[j].time)
           /\ rows[j].amount = Total(rows[j].time, rows[j].series)
           /\ \E n \in DOMAIN sourceRows :
                 rows[j].time = PeriodsOf(n) /\ rows[j].series = SeriesOf(n)
<1>1. PICK n \in DOMAIN sourceRows :
         rows[j] = [time |-> PeriodsOf(n), series |-> SeriesOf(n),
                    amount |-> Total(PeriodsOf(n), SeriesOf(n)), change |-> rows[j].change]
  BY DEF Grouped
<1>2. /\ rows[j].time = PeriodsOf(n) /\ rows[j].series = SeriesOf(n)
      /\ rows[j].amount = Total(PeriodsOf(n), SeriesOf(n))
  BY <1>1
<1> QED
  BY <1>2, TimeFacts

\* What no row of the source counts for has no total.
LEMMA TotalOfNothing ==
    ASSUME NEW time, NEW series,
           \A n \in DOMAIN sourceRows : ~(SeriesOf(n) = series /\ PeriodsOf(n) = time)
    PROVE  Total(time, series) = {}
<1>1. {n \in DOMAIN sourceRows : /\ SeriesOf(n) = series /\ PeriodsOf(n) = time
                                 /\ sourceRows[n].amount # {}} = {}
  OBVIOUS
<1> QED
  BY <1>1 DEF Total, SumOver

\* The two ways to reckon an earlier period agree.
LEMMA EarlierPeriod ==
    ASSUME intent \in Intents, executorVersion = "v2", intent.comparison # "none",
           NEW p \in SourcePeriods, p.grain = intent.grain
    PROVE  ShiftedPeriod(p, PeriodOffset(intent), PeriodUnit(intent)) = Ago(p)
<1>1. /\ p.index \in Int /\ p.grain \in {"day", "month", "quarter", "year"}
      /\ intent.comparison \in {"yoy", "mom"}
  BY DEF SourcePeriods, Grains, Intents
<1>2. CASE p.grain = "day"
  <2>1. /\ PeriodOffset(intent) = 1
        /\ PeriodUnit(intent) = (IF intent.comparison = "yoy" THEN "year" ELSE "month")
    BY <1>1, <1>2 DEF PeriodOffset, PeriodUnit
  <2> DEFINE month == (p.index \div 31) - Months
             day == p.index % 31
  <2>2. /\ day \in Int /\ month \in Int /\ Months \in Int
        /\ month * 31 + day = p.index - Months * 31
    BY <1>1 DEF Months
  <2>3. MonthOf(p) = p.index \div 31
    BY <1>2 DEF MonthOf, DaysPerMonth
  <2>4. Ago(p) = IF day < DaysIn[month] THEN {Period("day", p.index - Months * 31)} ELSE {}
    BY <1>2, <2>3 DEF Ago, DaysPerMonth
  <2>5. ShiftedPeriod(p, PeriodOffset(intent), PeriodUnit(intent))
           = IF day < DaysIn[month] THEN {Period("day", month * 31 + day)} ELSE {}
    <3>1. CASE intent.comparison = "yoy"
      BY <1>1, <1>2, <2>1, <2>3, <3>1 DEF ShiftedPeriod, Months, DaysPerMonth
    <3>2. CASE intent.comparison = "mom"
      BY <1>1, <1>2, <2>1, <2>3, <3>2 DEF ShiftedPeriod, Months, DaysPerMonth
    <3> QED
      BY <1>1, <3>1, <3>2
  <2> QED
    BY <2>2, <2>4, <2>5
<1>3. CASE p.grain # "day"
  <2>1. PeriodUnit(intent) = p.grain
    BY <1>3 DEF PeriodUnit
  <2>2. ShiftedPeriod(p, PeriodOffset(intent), PeriodUnit(intent))
           = {Period(p.grain, p.index - PeriodOffset(intent))}
    BY <1>3, <2>1 DEF ShiftedPeriod
  <2>3. CASE intent.comparison = "mom"
    <3>1. PeriodOffset(intent) = 1
      BY <2>3 DEF PeriodOffset
    <3> QED
      BY <1>1, <1>3, <2>2, <2>3, <3>1 DEF Ago, Months
  <2>4. CASE intent.comparison = "yoy"
    <3>1. PeriodOffset(intent)
             = (CASE p.grain = "quarter" -> 4 [] p.grain = "month" -> 12 [] OTHER -> 1)
      BY <2>4 DEF PeriodOffset
    <3> QED
      BY <1>1, <1>3, <2>2, <2>4, <3>1 DEF Ago, Months
  <2> QED
    BY <1>1, <2>3, <2>4
<1> QED
  BY <1>2, <1>3

\* Where every row of the source is dated, every row of the answer has one date.
LEMMA DatedRows ==
    ASSUME executorVersion \in Versions, intent \in Intents, sourceRows \in SourceTables,
           EveryRowIsDated, Told
    PROVE  /\ \A n \in DOMAIN sourceRows : \E p \in SourcePeriods : PeriodsOf(n) = {p}
           /\ \A n \in DOMAIN sourceRows :
                 executorVersion = "v2" => \A p \in PeriodsOf(n) : p.grain = intent.grain
<1> SUFFICES ASSUME NEW n \in DOMAIN sourceRows
             PROVE  /\ \E p \in SourcePeriods : PeriodsOf(n) = {p}
                    /\ executorVersion = "v2" => \A p \in PeriodsOf(n) : p.grain = intent.grain
  OBVIOUS
<1>1. intent.time /\ sourceRows[n].time # {}
  BY DEF EveryRowIsDated
<1>2. /\ AtMostOne(TimeOf(n)) /\ PeriodsOf(n) = TimeOf(n)
      /\ Derives => \A p \in TimeOf(n) : p.grain = intent.grain
      /\ Derives /\ Datable /\ TimeOf(n) = {} => sourceRows[n].time = {}
  BY <1>1, TimeFacts
<1>3. TimeOf(n) # {}
  <2>1. CASE Derives
    BY <1>1, <1>2, <2>1 DEF Told
  <2>2. CASE ~Derives
    BY <1>1, <2>2 DEF TimeOf
  <2> QED
    BY <2>1, <2>2
<1>4. executorVersion = "v2" => Derives
  BY <1>1 DEF Derives
<1> QED
  BY <1>2, <1>3, <1>4 DEF AtMostOne

\* The earlier row has the total of the earlier period, or both are missing.
LEMMA ChangeFromRows ==
    ASSUME executorVersion = "v2", intent \in Intents, sourceRows \in SourceTables,
           intent.comparison # "none", EveryRowIsDated, Told, Grouped(resultRows),
           NEW j \in DOMAIN resultRows
    PROVE  UNION {ChangePairs(resultRows[j].amount, resultRows[m].amount) :
                     m \in EarlierRows(resultRows[j])}
              = ChangeOf(resultRows[j].time, resultRows[j].series)
<1> DEFINE time == resultRows[j].time
           series == resultRows[j].series
           found == EarlierRows(resultRows[j])
<1>1. executorVersion \in Versions
  BY DEF Versions
<1>2. PICK n \in DOMAIN sourceRows : time = PeriodsOf(n) /\ series = SeriesOf(n)
  BY <1>1, GroupedFacts
<1>3. PICK p \in SourcePeriods : time = {p} /\ p.grain = intent.grain
  BY <1>1, <1>2, DatedRows
<1>4. resultRows[j].amount = Total({p}, series)
  BY <1>1, <1>3, GroupedFacts
<1>5. ChangeOf(time, series) = ChangePairs(Total({p}, series), Total(Ago(p), series))
  <2>1. EarlierTime(p, series) = Ago(p)
    BY DEF EarlierTime
  <2>2. ChangeOf(time, series) =
           UNION {ChangePairs(Total({p}, series), Total(EarlierTime(q, series), series)) :
                     q \in {p}}
    BY <1>3 DEF ChangeOf
  <2> QED
    BY <2>1, <2>2
<1>6. found = {m \in DOMAIN resultRows :
                  resultRows[m].series = series /\ resultRows[m].time = Ago(p)}
  <2>1. found = {m \in DOMAIN resultRows :
                    /\ resultRows[m].series = series
                    /\ \E q \in {p} : resultRows[m].time
                          = ShiftedPeriod(q, PeriodOffset(intent), PeriodUnit(intent))}
    BY <1>3 DEF EarlierRows
  <2>2. ShiftedPeriod(p, PeriodOffset(intent), PeriodUnit(intent)) = Ago(p)
    BY <1>3, EarlierPeriod
  <2> QED
    BY <2>1, <2>2
<1>7. \A m \in found : resultRows[m].amount = Total(Ago(p), series)
  BY <1>1, <1>6, GroupedFacts
<1>8. found = {} => Total(Ago(p), series) = {}
  <2> SUFFICES ASSUME found = {}, NEW x \in DOMAIN sourceRows,
                      SeriesOf(x) = series, PeriodsOf(x) = Ago(p)
               PROVE  FALSE
    BY TotalOfNothing
  <2>1. PICK m \in DOMAIN resultRows :
           resultRows[m].time = PeriodsOf(x) /\ resultRows[m].series = SeriesOf(x)
    BY DEF Grouped
  <2> QED
    BY <1>6, <2>1
<1> HIDE DEF found, time, series
<1>9. ChangePairs(Total({p}, series), {}) = {}
  BY DEF ChangePairs
<1>10. UNION {ChangePairs(Total({p}, series), resultRows[m].amount) : m \in found}
          = ChangePairs(Total({p}, series), Total(Ago(p), series))
  <2>1. CASE found = {}
    BY <1>8, <1>9, <2>1
  <2>2. CASE found # {}
    BY <1>7, <2>2
  <2> QED
    BY <2>1, <2>2
<1> QED
  BY <1>4, <1>5, <1>10 DEF found, time, series

\* With one date for each month, so has the one that version 1 finds.
LEMMA ChangeFromRowsV1 ==
    ASSUME executorVersion = "v1", intent \in Intents, sourceRows \in SourceTables,
           intent.comparison # "none", Comparable, Grouped(resultRows),
           NEW j \in DOMAIN resultRows
    PROVE  UNION {ChangePairs(resultRows[j].amount, resultRows[m].amount) :
                     m \in EarlierRowsV1(resultRows[j])}
              = ChangeOf(resultRows[j].time, resultRows[j].series)
<1> DEFINE time == resultRows[j].time
           series == resultRows[j].series
           found == EarlierRowsV1(resultRows[j])
<1>1. executorVersion \in Versions /\ EveryRowIsDated /\ OneDatePerMonth /\ Told
  BY DEF Versions, Comparable, Told, Derives
<1>2. PICK n \in DOMAIN sourceRows : time = PeriodsOf(n) /\ series = SeriesOf(n)
  BY <1>1, GroupedFacts
<1>3. PICK p \in SourcePeriods : time = {p}
  BY <1>1, <1>2, DatedRows
<1>4. resultRows[j].amount = Total({p}, series)
  BY <1>1, <1>3, GroupedFacts
<1> DEFINE earlier == MonthAgo(p, series)
           matching == {m \in DOMAIN resultRows :
                           /\ resultRows[m].series = series
                           /\ MonthKey(resultRows[m].time, 0) = {MonthOf(p) - Months}}
<1>5. ChangeOf(time, series) = ChangePairs(Total({p}, series), Total(earlier, series))
  <2>1. EarlierTime(p, series) = earlier
    BY DEF EarlierTime
  <2>2. ChangeOf(time, series) =
           UNION {ChangePairs(Total({p}, series), Total(EarlierTime(q, series), series)) :
                     q \in {p}}
    BY <1>3 DEF ChangeOf
  <2> HIDE DEF earlier
  <2> QED
    BY <2>1, <2>2
<1>6. \A m, x \in matching : m = x
  <2> SUFFICES ASSUME NEW m \in matching, NEW x \in matching PROVE m = x
    OBVIOUS
  <2>1. PICK a \in DOMAIN sourceRows :
           resultRows[m].time = PeriodsOf(a) /\ resultRows[m].series = SeriesOf(a)
    BY <1>1, GroupedFacts
  <2>2. PICK b \in DOMAIN sourceRows :
           resultRows[x].time = PeriodsOf(b) /\ resultRows[x].series = SeriesOf(b)
    BY <1>1, GroupedFacts
  <2>3. PeriodsOf(a) = PeriodsOf(b)
    BY <1>1, <2>1, <2>2 DEF OneDatePerMonth
  <2> QED
    BY <2>1, <2>2, <2>3 DEF Grouped
<1>7. found = matching
  <2>1. MonthKey(time, PeriodOffset(intent)) = {MonthOf(p) - Months}
    <3>1. PeriodOffset(intent) = Months
      BY DEF PeriodOffset, Months, Intents
    <3> QED
      BY <1>3, <3>1 DEF MonthKey
  <2>2. found = {m \in matching : \A x \in matching \ {m} : InOrder(m, x)}
    <3>1. intent.time
      BY <1>1 DEF EveryRowIsDated
    <3> QED
      BY <2>1, <3>1 DEF EarlierRowsV1
  <2> HIDE DEF found, matching
  <2> QED
    BY <1>6, <2>2
<1>8. \A m \in matching : earlier = resultRows[m].time
  <2> SUFFICES ASSUME NEW m \in matching PROVE earlier = resultRows[m].time
    OBVIOUS
  <2>1. PICK a \in DOMAIN sourceRows :
           resultRows[m].time = PeriodsOf(a) /\ resultRows[m].series = SeriesOf(a)
    BY <1>1, GroupedFacts
  <2> DEFINE those == {x \in DOMAIN sourceRows :
                 SeriesOf(x) = series /\ MonthKey(PeriodsOf(x), 0) = {MonthOf(p) - Months}}
  <2>2. a \in those
    BY <2>1
  <2>3. \A x \in those : PeriodsOf(x) = PeriodsOf(a)
    BY <1>1, <2>1 DEF OneDatePerMonth
  <2>4. earlier = UNION {PeriodsOf(x) : x \in those}
    BY DEF MonthAgo
  <2> HIDE DEF those, earlier
  <2> QED
    BY <2>1, <2>2, <2>3, <2>4
<1>9. matching = {} => Total(earlier, series) = {}
  <2> SUFFICES ASSUME matching = {} PROVE Total(earlier, series) = {}
    OBVIOUS
  <2>1. \A x \in DOMAIN sourceRows :
           ~(SeriesOf(x) = series /\ MonthKey(PeriodsOf(x), 0) = {MonthOf(p) - Months})
    <3> SUFFICES ASSUME NEW x \in DOMAIN sourceRows, SeriesOf(x) = series,
                        MonthKey(PeriodsOf(x), 0) = {MonthOf(p) - Months}
                 PROVE  FALSE
      OBVIOUS
    <3>1. PICK m \in DOMAIN resultRows :
             resultRows[m].time = PeriodsOf(x) /\ resultRows[m].series = SeriesOf(x)
      BY DEF Grouped
    <3> QED
      BY <3>1
  <2>2. earlier = {}
    BY <2>1 DEF MonthAgo
  <2>3. \A x \in DOMAIN sourceRows : PeriodsOf(x) # {}
    BY <1>1, DatedRows
  <2> QED
    BY <2>2, <2>3, TotalOfNothing
<1>10. \A m \in matching : resultRows[m].amount = Total(earlier, series)
  <2>1. \A m \in matching : /\ resultRows[m].series = series
                            /\ resultRows[m].amount
                                  = Total(resultRows[m].time, resultRows[m].series)
    BY <1>1, GroupedFacts
  <2> HIDE DEF matching, earlier, series
  <2> QED
    BY <1>8, <2>1
<1> HIDE DEF found, time, series, matching, earlier
<1>11. ChangePairs(Total({p}, series), {}) = {}
  BY DEF ChangePairs
<1>12. UNION {ChangePairs(Total({p}, series), resultRows[m].amount) : m \in matching}
          = ChangePairs(Total({p}, series), Total(earlier, series))
  <2>1. CASE matching = {}
    BY <1>9, <1>11, <2>1
  <2>2. CASE matching # {}
    BY <1>10, <2>2
  <2> QED
    BY <2>1, <2>2
<1> QED
  BY <1>4, <1>5, <1>7, <1>12 DEF found, time, series

WithChanges(rows, changes) == [j \in DOMAIN rows |-> [rows[j] EXCEPT !.change = changes[j]]]

\* Rows that are given their changes stay the groups they were.
LEMMA GroupsStay ==
    ASSUME NEW rows, NEW changes, Grouped(rows)
    PROVE  LET next == WithChanges(rows, changes)
           IN  /\ Grouped(next) /\ DOMAIN next = DOMAIN rows
               /\ \A j \in DOMAIN rows :
                     /\ next[j].time = rows[j].time /\ next[j].series = rows[j].series
                     /\ next[j].change = changes[j]
<1> DEFINE next == WithChanges(rows, changes)
<1>0. next = [j \in DOMAIN rows |-> [rows[j] EXCEPT !.change = changes[j]]]
  BY DEF WithChanges
<1> HIDE DEF next
<1>1. Len(rows) \in Nat /\ DOMAIN rows = 1..Len(rows)
  BY DEF Grouped
<1>2. Len(next) = Len(rows) /\ DOMAIN next = 1..Len(rows)
  <2>1. next = [j \in 1..Len(rows) |-> next[j]]
    BY <1>0, <1>1
  <2> QED
    BY <1>1, <2>1, LenOfRows
<1>3. ASSUME NEW j \in DOMAIN rows
      PROVE  \E n \in DOMAIN sourceRows :
                /\ next[j] = [time |-> PeriodsOf(n), series |-> SeriesOf(n),
                              amount |-> Total(PeriodsOf(n), SeriesOf(n)), change |-> changes[j]]
                /\ rows[j].time = PeriodsOf(n) /\ rows[j].series = SeriesOf(n)
  <2>1. PICK n \in DOMAIN sourceRows :
           rows[j] = [time |-> PeriodsOf(n), series |-> SeriesOf(n),
                      amount |-> Total(PeriodsOf(n), SeriesOf(n)), change |-> rows[j].change]
    BY DEF Grouped
  <2> DEFINE time == PeriodsOf(n)
             series == SeriesOf(n)
             amount == Total(PeriodsOf(n), SeriesOf(n))
  <2>2. next[j] = [rows[j] EXCEPT !.change = changes[j]]
    BY <1>0
  <2> HIDE DEF time, series, amount
  <2>3. rows[j] = [time |-> time, series |-> series, amount |-> amount, change |-> rows[j].change]
    BY <2>1 DEF time, series, amount
  <2>4. next[j] = [time |-> time, series |-> series, amount |-> amount, change |-> changes[j]]
    BY <2>2, <2>3
  <2>5. rows[j].time = time /\ rows[j].series = series
    BY <2>3
  <2> QED
    BY <2>4, <2>5 DEF time, series, amount
<1>4. \A j \in DOMAIN rows :
         /\ next[j].time = rows[j].time /\ next[j].series = rows[j].series
         /\ next[j].change = changes[j]
         /\ \E n \in DOMAIN sourceRows :
               next[j] = [time |-> PeriodsOf(n), series |-> SeriesOf(n),
                          amount |-> Total(PeriodsOf(n), SeriesOf(n)), change |-> next[j].change]
  <2> SUFFICES ASSUME NEW j \in DOMAIN rows
               PROVE  /\ next[j].time = rows[j].time /\ next[j].series = rows[j].series
                      /\ next[j].change = changes[j]
                      /\ \E n \in DOMAIN sourceRows :
                            next[j] = [time |-> PeriodsOf(n), series |-> SeriesOf(n),
                                       amount |-> Total(PeriodsOf(n), SeriesOf(n)),
                                       change |-> next[j].change]
    OBVIOUS
  <2>1. PICK n \in DOMAIN sourceRows :
           /\ next[j] = [time |-> PeriodsOf(n), series |-> SeriesOf(n),
                         amount |-> Total(PeriodsOf(n), SeriesOf(n)), change |-> changes[j]]
           /\ rows[j].time = PeriodsOf(n) /\ rows[j].series = SeriesOf(n)
    BY <1>3
  <2> QED
    BY <2>1
<1>5. Grouped(next)
  <2>1. \A n \in DOMAIN sourceRows :
           \E j \in DOMAIN next : next[j].time = PeriodsOf(n) /\ next[j].series = SeriesOf(n)
    BY <1>1, <1>2, <1>4 DEF Grouped
  <2>2. \A j, m \in DOMAIN next :
           next[j].time = next[m].time /\ next[j].series = next[m].series => j = m
    BY <1>1, <1>2, <1>4 DEF Grouped
  <2> QED
    BY <1>1, <1>2, <1>4, <2>1, <2>2 DEF Grouped
<1> QED
  BY <1>1, <1>2, <1>4, <1>5 DEF next

\* The changes are those that were asked for, unless rows cannot be compared.
LEMMA ChangesAsked ==
    ASSUME executorVersion \in Versions, intent \in Intents, sourceRows \in SourceTables,
           intent.comparison # "none", Told, Grouped(resultRows), PercentChange
    PROVE  \/ StepFails /\ ~Answerable
           \/ /\ IsAnswer(resultRows')
              /\ planSteps' = Tail(planSteps) /\ execution' = execution
<1> DEFINE failing ==
              /\ executorVersion = "v2"
              /\ \/ ~intent.time
                 \/ \E n \in DOMAIN resultRows : resultRows[n].time = {}
                 \/ \E n, m \in DOMAIN resultRows :
                       n # m /\ resultRows[n].time = resultRows[m].time
                             /\ resultRows[n].series = resultRows[m].series
           changes == [j \in DOMAIN resultRows |->
                          UNION {ChangePairs(resultRows[j].amount, resultRows[m].amount) :
                              m \in IF executorVersion = "v1" THEN EarlierRowsV1(resultRows[j])
                                    ELSE EarlierRows(resultRows[j])}]
<1>1. CASE failing
  <2>1. ~EveryRowIsDated
    <3>1. SUFFICES ASSUME EveryRowIsDated PROVE FALSE
      OBVIOUS
    <3>2. intent.time
      BY <3>1 DEF EveryRowIsDated
    <3>3. \A n \in DOMAIN sourceRows : PeriodsOf(n) # {}
      BY <3>1, DatedRows
    <3>4. \A n \in DOMAIN resultRows : resultRows[n].time # {}
      BY <3>3, GroupedFacts
    <3> QED
      BY <1>1, <3>2, <3>4 DEF Grouped
  <2>2. StepFails
    BY <1>1 DEF PercentChange
  <2> QED
    BY <1>1, <2>1, <2>2 DEF Answerable
<1>2. CASE ~failing
  <2>1. StepYields([n \in DOMAIN resultRows |->
                [resultRows[n] EXCEPT !.change =
                    UNION {ChangePairs(resultRows[n].amount, resultRows[m].amount) :
                              m \in IF executorVersion = "v1" THEN EarlierRowsV1(resultRows[n])
                                    ELSE EarlierRows(resultRows[n])}]])
    BY <1>2 DEF PercentChange
  <2>2. /\ resultRows' = [j \in DOMAIN resultRows |->
                             [resultRows[j] EXCEPT !.change = changes[j]]]
        /\ planSteps' = Tail(planSteps) /\ execution' = execution
    BY <2>1 DEF StepYields
  <2>3. executorVersion = "v2" => EveryRowIsDated
    <3>1. SUFFICES ASSUME executorVersion = "v2", NEW n \in DOMAIN sourceRows,
                          sourceRows[n].time = {}
                   PROVE  FALSE
      BY <1>2 DEF EveryRowIsDated
    <3>2. PICK j \in DOMAIN resultRows : resultRows[j].time = PeriodsOf(n)
      BY DEF Grouped
    <3>3. PeriodsOf(n) = {}
      BY <3>1 DEF PeriodsOf
    <3> QED
      BY <1>2, <3>1, <3>2, <3>3
  <2>4. ASSUME Comparable, NEW j \in DOMAIN resultRows
        PROVE  changes[j] = ChangeOf(resultRows[j].time, resultRows[j].series)
    <3>1. CASE executorVersion = "v1"
      <4>1. changes[j] = UNION {ChangePairs(resultRows[j].amount, resultRows[m].amount) :
                                   m \in EarlierRowsV1(resultRows[j])}
        BY <3>1
      <4> HIDE DEF changes
      <4> QED
        BY <2>4, <3>1, <4>1, ChangeFromRowsV1
    <3>2. CASE executorVersion = "v2"
      <4>1. changes[j] = UNION {ChangePairs(resultRows[j].amount, resultRows[m].amount) :
                                   m \in EarlierRows(resultRows[j])}
        BY <3>2
      <4> HIDE DEF changes
      <4> QED
        BY <2>3, <3>2, <4>1, ChangeFromRows
    <3> QED
      BY <3>1, <3>2 DEF Versions
  <2> HIDE DEF changes
  <2>5. /\ Grouped(resultRows') /\ DOMAIN resultRows' = DOMAIN resultRows
        /\ \A j \in DOMAIN resultRows :
              /\ resultRows'[j].time = resultRows[j].time
              /\ resultRows'[j].series = resultRows[j].series
              /\ resultRows'[j].change = changes[j]
    <3> DEFINE after == WithChanges(resultRows, changes)
    <3>1. resultRows' = after
      BY <2>2 DEF WithChanges
    <3> HIDE DEF after
    <3>2. /\ Grouped(after) /\ DOMAIN after = DOMAIN resultRows
          /\ \A j \in DOMAIN resultRows :
                /\ after[j].time = resultRows[j].time /\ after[j].series = resultRows[j].series
                /\ after[j].change = changes[j]
      BY GroupsStay DEF after
    <3> QED
      BY <3>1, <3>2
  <2>6. Comparable => Changed(resultRows')
    BY <2>4, <2>5 DEF Changed
  <2>7. Dated
    BY <2>3 DEF Dated
  <2> QED
    BY <2>2, <2>5, <2>6, <2>7 DEF IsAnswer
<1> QED
  BY <1>1, <1>2

-----------------------------------------------------------------------------
(* Order *)

\* Sorting keeps the answer, and puts it in order.
LEMMA OrderedRows ==
    ASSUME executorVersion \in Versions, intent \in Intents, sourceRows \in SourceTables,
           IsAnswer(resultRows), SortByTime
    PROVE  /\ IsAnswer(resultRows') /\ InTime(resultRows')
           /\ planSteps' = Tail(planSteps) /\ execution' = execution
<1>1. Grouped(resultRows) /\ Len(resultRows) \in Nat /\ DOMAIN resultRows = 1..Len(resultRows)
  BY DEF IsAnswer, Grouped
<1>2. PICK order \in Bijection(DOMAIN resultRows, DOMAIN resultRows) :
         /\ \A j, m \in DOMAIN order : j < m => InOrder(order[j], order[m])
         /\ StepYields([j \in DOMAIN order |-> resultRows[order[j]]])
  BY DEF SortByTime
<1>3. /\ DOMAIN order = DOMAIN resultRows
      /\ \A j \in DOMAIN resultRows : order[j] \in DOMAIN resultRows
      /\ \A j, m \in DOMAIN resultRows : order[j] = order[m] => j = m
      /\ \A n \in DOMAIN resultRows : \E j \in DOMAIN resultRows : order[j] = n
  BY DEF Bijection, Injection, Surjection, IsInjective
<1> DEFINE next == [j \in DOMAIN resultRows |-> resultRows[order[j]]]
<1>4. resultRows' = next /\ planSteps' = Tail(planSteps) /\ execution' = execution
  BY <1>2, <1>3 DEF StepYields
<1>5. Len(next) = Len(resultRows) /\ DOMAIN next = 1..Len(resultRows)
  <2>1. next = [j \in 1..Len(resultRows) |-> next[j]]
    BY <1>1
  <2> HIDE DEF next
  <2> QED
    BY <1>1, <2>1, LenOfRows
<1>6. \A j \in DOMAIN resultRows : next[j] = resultRows[order[j]]
  OBVIOUS
<1> HIDE DEF next
<1>7. Grouped(next)
  <2>1. \A j \in DOMAIN next :
          \E n \in DOMAIN sourceRows :
              next[j] = [time |-> PeriodsOf(n), series |-> SeriesOf(n),
                         amount |-> Total(PeriodsOf(n), SeriesOf(n)), change |-> next[j].change]
    <3> SUFFICES ASSUME NEW j \in DOMAIN next
                 PROVE  \E n \in DOMAIN sourceRows :
                           next[j] = [time |-> PeriodsOf(n), series |-> SeriesOf(n),
                                      amount |-> Total(PeriodsOf(n), SeriesOf(n)),
                                      change |-> next[j].change]
      OBVIOUS
    <3>1. next[j] = resultRows[order[j]] /\ order[j] \in DOMAIN resultRows
      BY <1>1, <1>3, <1>5, <1>6
    <3> QED
      BY <1>1, <3>1 DEF Grouped
  <2>2. \A n \in DOMAIN sourceRows :
           \E j \in DOMAIN next : next[j].time = PeriodsOf(n) /\ next[j].series = SeriesOf(n)
    <3> SUFFICES ASSUME NEW n \in DOMAIN sourceRows
                 PROVE  \E j \in DOMAIN next : /\ next[j].time = PeriodsOf(n)
                                               /\ next[j].series = SeriesOf(n)
      OBVIOUS
    <3>1. PICK m \in DOMAIN resultRows :
             resultRows[m].time = PeriodsOf(n) /\ resultRows[m].series = SeriesOf(n)
      BY <1>1 DEF Grouped
    <3>2. PICK j \in DOMAIN resultRows : order[j] = m
      BY <1>3
    <3> QED
      BY <1>1, <1>5, <1>6, <3>1, <3>2
  <2>3. \A j, m \in DOMAIN next :
           next[j].time = next[m].time /\ next[j].series = next[m].series => j = m
    <3> SUFFICES ASSUME NEW j \in DOMAIN next, NEW m \in DOMAIN next,
                        next[j].time = next[m].time, next[j].series = next[m].series
                 PROVE  j = m
      OBVIOUS
    <3>1. /\ j \in DOMAIN resultRows /\ m \in DOMAIN resultRows
          /\ next[j] = resultRows[order[j]] /\ next[m] = resultRows[order[m]]
          /\ order[j] \in DOMAIN resultRows /\ order[m] \in DOMAIN resultRows
      BY <1>1, <1>3, <1>5, <1>6
    <3>2. order[j] = order[m]
      BY <1>1, <3>1 DEF Grouped
    <3> QED
      BY <1>3, <3>1, <3>2
  <2> QED
    BY <1>1, <1>5, <2>1, <2>2, <2>3 DEF Grouped
<1>8. Comparable => Changed(next)
  BY <1>1, <1>3, <1>5, <1>6 DEF IsAnswer, Changed
<1>9. IsAnswer(next)
  BY <1>7, <1>8 DEF IsAnswer
<1>10. ASSUME NEW a, NEW b, AtMostOne(a), AtMostOne(b), Before(a, b) PROVE ~Before(b, a)
  <2>1. \A p \in SourcePeriods : StartOf(p) \in Int
    BY DEF StartOf, SourcePeriods, DaysPerMonth
  <2>2. CASE a = {}
    BY <1>10, <2>2 DEF Before
  <2>3. CASE a # {}
    <3>1. PICK p \in a, q \in b : StartOf(p) < StartOf(q)
      BY <1>10, <2>3 DEF Before
    <3>2. a = {p} /\ b = {q} /\ p \in SourcePeriods /\ q \in SourcePeriods
      BY <1>10, <3>1 DEF AtMostOne
    <3> QED
      BY <2>1, <3>1, <3>2 DEF Before
  <2> QED
    BY <2>2, <2>3
<1>11. InTime(next)
  <2> SUFFICES ASSUME NEW j \in DOMAIN next, NEW m \in DOMAIN next, j < m
               PROVE  ~Before(next[m].time, next[j].time)
    BY DEF InTime
  <2>1. j \in DOMAIN resultRows /\ m \in DOMAIN resultRows
    BY <1>1, <1>5
  <2>2. InOrder(order[j], order[m]) /\ next[j] = resultRows[order[j]]
        /\ next[m] = resultRows[order[m]]
    BY <1>2, <1>3, <1>6, <2>1
  <2>3. AtMostOne(next[j].time) /\ AtMostOne(next[m].time)
    BY <1>5, <1>7, GroupedFacts
  <2> QED
    BY <1>10, <2>2, <2>3 DEF InOrder
<1> QED
  BY <1>4, <1>9, <1>11

-----------------------------------------------------------------------------
(* The plan as a whole *)

\* The question and the snapshot never change, nor does what is said of them.
LEMMA SameQuestion ==
    ASSUME UNCHANGED <<executorVersion, intent, sourceRows>>
    PROVE  /\ Answerable' <=> Answerable
           /\ Grouping' <=> Grouping
           /\ Derives' <=> Derives
           /\ Told' <=> Told
           /\ PlanFor(intent)' = PlanFor(intent)
           /\ Aggregating(intent)' = Aggregating(intent)
           /\ Changing(intent)' = Changing(intent)
           /\ Sorting(intent)' = Sorting(intent)
           /\ RowsFrom(SourceTimes)' = RowsFrom(SourceTimes)
           /\ RowsFrom(GroupTimes)' = RowsFrom(GroupTimes)
           /\ Grouped(resultRows)' <=> Grouped(resultRows')
           /\ IsAnswer(resultRows)' <=> IsAnswer(resultRows')
           /\ InTime(resultRows)' <=> InTime(resultRows')
<1>1. executorVersion' = executorVersion /\ intent' = intent /\ sourceRows' = sourceRows
  OBVIOUS
<1>2. /\ \A n : PeriodsOf(n)' = PeriodsOf(n) /\ SeriesOf(n)' = SeriesOf(n)
      /\ \A n : TimeOf(n)' = TimeOf(n)
      /\ (Derives' <=> Derives) /\ (Datable' <=> Datable)
      /\ (EveryRowIsDated' <=> EveryRowIsDated)
  BY <1>1 DEF PeriodsOf, SeriesOf, TimeOf, Derives, Datable, EveryRowIsDated
<1>3. \A time, series : Total(time, series)' = Total(time, series)
  BY <1>1, <1>2 DEF Total
<1>4. Months' = Months /\ \A p : Ago(p)' = Ago(p)
  BY <1>1 DEF Months, Ago
<1>5. \A p, series : MonthAgo(p, series)' = MonthAgo(p, series)
  BY <1>1, <1>2, <1>4 DEF MonthAgo
<1>6. \A p, series : EarlierTime(p, series)' = EarlierTime(p, series)
  BY <1>1, <1>4, <1>5 DEF EarlierTime
<1>7. \A time, series : ChangeOf(time, series)' = ChangeOf(time, series)
  BY <1>1, <1>3, <1>6 DEF ChangeOf
<1>8. OneDatePerMonth' <=> OneDatePerMonth
  BY <1>1, <1>2 DEF OneDatePerMonth
<1>9. Comparable' <=> Comparable
  BY <1>1, <1>2, <1>8 DEF Comparable, AllDatesExist
<1>10. Grouped(resultRows)' <=> Grouped(resultRows')
  BY <1>1, <1>2, <1>3 DEF Grouped
<1>11. (Told' <=> Told) /\ (Dated' <=> Dated)
  BY <1>1, <1>2 DEF Told, Dated
<1>12. Changed(resultRows)' <=> Changed(resultRows')
  BY <1>7 DEF Changed
<1>13. IsAnswer(resultRows)' <=> IsAnswer(resultRows')
  BY <1>9, <1>10, <1>11, <1>12 DEF IsAnswer
<1>14. InTime(resultRows)' <=> InTime(resultRows')
  BY DEF InTime
<1>15. (Answerable' <=> Answerable) /\ (Grouping' <=> Grouping)
  BY <1>1, <1>2 DEF Answerable, Grouping
<1>16. /\ PlanFor(intent)' = PlanFor(intent)
       /\ Aggregating(intent)' = Aggregating(intent)
       /\ Changing(intent)' = Changing(intent)
       /\ Sorting(intent)' = Sorting(intent)
  BY <1>1 DEF PlanFor, Aggregating, Changing, Sorting
<1>17. /\ RowsFrom(SourceTimes)' = RowsFrom(SourceTimes)
       /\ RowsFrom(GroupTimes)' = RowsFrom(GroupTimes)
  BY <1>1, <1>2 DEF RowsFrom, SourceTimes, GroupTimes
<1> QED
  BY <1>2, <1>10, <1>11, <1>13, <1>14, <1>15, <1>16, <1>17

\* The head of the plan says how far it has got.
LEMMA HeadOfPlan ==
    ASSUME executorVersion \in Versions, intent \in Intents, sourceRows \in SourceTables, Progress
    PROVE  /\ NextStep("derive") =>
                 Derives /\ resultRows = RowsFrom(SourceTimes) /\ Tail(planSteps) = Aggregating(intent)
           /\ NextStep("aggregate") =>
                 Told /\ resultRows = RowsFrom(GroupTimes) /\ Tail(planSteps) = Changing(intent)
           /\ NextStep("change") =>
                 /\ intent.comparison # "none" /\ Told /\ Grouped(resultRows)
                 /\ Tail(planSteps) = Sorting(intent)
           /\ NextStep("sort") =>
                 /\ intent.time /\ Tail(planSteps) = <<>> /\ IsAnswer(resultRows)
           /\ planSteps = <<>> =>
                 IsAnswer(resultRows) /\ (intent.time => InTime(resultRows))
<1>1. CASE planSteps = PlanFor(intent) /\ resultRows = RowsFrom(SourceTimes)
  <2>1. CASE Derives
    BY <1>1, <2>1, PlanWhole DEF NextStep, Derives
  <2>2. CASE ~Derives
    <3>1. planSteps = Aggregating(intent)
      BY <1>1, <2>2, PlanWhole DEF Derives
    <3>2. resultRows = RowsFrom(GroupTimes) /\ Told
      <4>1. \A n \in DOMAIN sourceRows : TimeOf(n) = sourceRows[n].time
        BY <2>2 DEF TimeOf
      <4> QED
        BY <1>1, <2>2, <4>1 DEF RowsFrom, GroupTimes, SourceTimes, Told
    <3> QED
      BY <3>1, <3>2, PlanParts DEF NextStep
  <2> QED
    BY <2>1, <2>2
<1>2. CASE planSteps = Aggregating(intent) /\ resultRows = RowsFrom(GroupTimes) /\ Told
  BY <1>2, PlanParts DEF NextStep
<1>3. CASE /\ planSteps = Changing(intent) /\ intent.comparison # "none"
           /\ Told /\ Grouped(resultRows)
           /\ \A j \in DOMAIN resultRows : resultRows[j].change = {}
  BY <1>3, PlanParts DEF NextStep
<1>4. CASE planSteps = Sorting(intent) /\ IsAnswer(resultRows)
  BY <1>4, PlanParts DEF NextStep
<1>5. CASE planSteps = <<>> /\ IsAnswer(resultRows) /\ (intent.time => InTime(resultRows))
  BY <1>5 DEF NextStep
<1> QED
  BY <1>1, <1>2, <1>3, <1>4, <1>5 DEF Progress

\* Every step of a plan brings it on.
LEMMA PlanStepKeepsInv ==
    ASSUME TransformInv, TransformNext
    PROVE  TransformInv'
<1>1. /\ executorVersion \in Versions /\ intent \in Intents /\ sourceRows \in SourceTables
      /\ execution \in {"planned", "running", "done", "failed"}
      /\ execution = "running" => Grouping /\ Progress
  BY DEF TransformInv
<1>2. UNCHANGED <<executorVersion, intent, sourceRows>>
  BY DEF TransformNext, PlanQuestion, DeriveTime, Aggregate, PercentChange, SortByTime, FinishPlan
<1>3. /\ (executorVersion \in Versions)' /\ (intent \in Intents)'
      /\ (sourceRows \in SourceTables)'
  BY <1>1, <1>2 DEF Versions, Intents
\* It is enough to say how the plan went on, of the question that never changes.
<1>4. SUFFICES \/ execution' = "failed" /\ ~Answerable
               \/ /\ execution' = "running" /\ Grouping
                  /\ \/ planSteps' = PlanFor(intent) /\ resultRows' = RowsFrom(SourceTimes)
                     \/ /\ planSteps' = Aggregating(intent)
                        /\ resultRows' = RowsFrom(GroupTimes) /\ Told
                     \/ /\ planSteps' = Changing(intent) /\ intent.comparison # "none"
                        /\ Told /\ Grouped(resultRows')
                        /\ \A j \in DOMAIN resultRows' : resultRows'[j].change = {}
                     \/ planSteps' = Sorting(intent) /\ IsAnswer(resultRows')
                     \/ /\ planSteps' = <<>> /\ IsAnswer(resultRows')
                        /\ intent.time => InTime(resultRows')
               \/ /\ execution' = "done" /\ Grouping
                  /\ IsAnswer(resultRows') /\ (intent.time => InTime(resultRows'))
  <2>1. intent' = intent
    BY <1>2
  <2> QED
    BY <1>2, <1>3, <2>1, SameQuestion DEF TransformInv, Progress
<1>5. CASE PlanQuestion
  <2>1. CASE Grouping
    <3>1. execution' = "running" /\ planSteps' = PlanFor(intent)
      BY <1>5, <2>1 DEF PlanQuestion, Grouping
    <3>2. resultRows' = RowsFrom(SourceTimes)
      BY <1>5, <2>1 DEF PlanQuestion, Grouping, RowsFrom, SourceTimes
    <3> QED
      BY <2>1, <3>1, <3>2
  <2>2. CASE ~Grouping
    BY <1>5, <2>2 DEF PlanQuestion, Grouping, Answerable
  <2> QED
    BY <2>1, <2>2
<1>6. CASE DeriveTime
  <2>1. NextStep("derive") /\ execution = "running"
    BY <1>6 DEF DeriveTime, NextStep
  <2>2. /\ Derives /\ resultRows = RowsFrom(SourceTimes) /\ Tail(planSteps) = Aggregating(intent)
        /\ Grouping
    BY <1>1, <2>1, HeadOfPlan
  <2>3. CASE StepFails /\ ~Datable
    BY <2>2, <2>3 DEF StepFails, Answerable, Derives, Datable
  <2>4. CASE /\ resultRows' = RowsFrom(GroupTimes) /\ Datable
             /\ planSteps' = Tail(planSteps) /\ execution' = execution
    BY <2>1, <2>2, <2>4 DEF Told
  <2> QED
    BY <1>1, <1>6, <2>2, <2>3, <2>4, DeriveDates
<1>7. CASE Aggregate
  <2>1. NextStep("aggregate") /\ execution = "running"
    BY <1>7 DEF Aggregate, NextStep
  <2>2. /\ Told /\ resultRows = RowsFrom(GroupTimes) /\ Tail(planSteps) = Changing(intent)
        /\ Grouping
    BY <1>1, <2>1, HeadOfPlan
  <2>3. /\ Grouped(resultRows') /\ \A j \in DOMAIN resultRows' : resultRows'[j].change = {}
        /\ planSteps' = Tail(planSteps) /\ execution' = execution
    BY <1>1, <1>7, <2>2, AggregateGroups
  <2>4. CASE intent.comparison = "none"
    <3>1. planSteps' = Sorting(intent)
      BY <2>2, <2>3, <2>4 DEF Changing
    <3>2. IsAnswer(resultRows')
      BY <2>2, <2>3, <2>4 DEF IsAnswer, Changed, ChangeOf, Dated
    <3> QED
      BY <2>1, <2>2, <2>3, <3>1, <3>2
  <2>5. CASE intent.comparison # "none"
    BY <2>1, <2>2, <2>3, <2>5
  <2> QED
    BY <2>4, <2>5
<1>8. CASE PercentChange
  <2>1. NextStep("change") /\ execution = "running"
    BY <1>8 DEF PercentChange, NextStep
  <2>2. /\ intent.comparison # "none" /\ Told /\ Grouped(resultRows)
        /\ Tail(planSteps) = Sorting(intent) /\ Grouping
    BY <1>1, <2>1, HeadOfPlan
  <2>3. \/ StepFails /\ ~Answerable
        \/ IsAnswer(resultRows') /\ planSteps' = Tail(planSteps) /\ execution' = execution
    BY <1>1, <1>8, <2>2, ChangesAsked
  <2> QED
    BY <2>1, <2>2, <2>3 DEF StepFails
<1>9. CASE SortByTime
  <2>1. NextStep("sort") /\ execution = "running"
    BY <1>9 DEF SortByTime, NextStep
  <2>2. intent.time /\ Tail(planSteps) = <<>> /\ IsAnswer(resultRows) /\ Grouping
    BY <1>1, <2>1, HeadOfPlan
  <2>3. /\ IsAnswer(resultRows') /\ InTime(resultRows')
        /\ planSteps' = Tail(planSteps) /\ execution' = execution
    BY <1>1, <1>9, <2>2, OrderedRows
  <2> QED
    BY <2>1, <2>2, <2>3
<1>10. CASE FinishPlan
  <2>1. execution = "running" /\ planSteps = <<>> /\ execution' = "done"
        /\ resultRows' = resultRows
    BY <1>10 DEF FinishPlan
  <2>2. Grouping /\ IsAnswer(resultRows) /\ (intent.time => InTime(resultRows))
    BY <1>1, <2>1, HeadOfPlan
  <2>3. IsAnswer(resultRows') /\ (intent.time => InTime(resultRows'))
    BY <2>1, <2>2
  <2> QED
    BY <2>1, <2>2, <2>3
<1> QED
  BY <1>5, <1>6, <1>7, <1>8, <1>9, <1>10 DEF TransformNext

\* The inductive invariant: what the plan has made of the rows suits what is left of it.
THEOREM TransformInvariance == TransformSpec => []TransformInv
<1>1. TransformInit => TransformInv
  BY DEF TransformInit, TransformInv
<1>2. ASSUME TransformInv, [TransformNext]_transformVars PROVE TransformInv'
  <2>1. CASE TransformNext
    BY <1>2, <2>1, PlanStepKeepsInv
  <2>2. CASE UNCHANGED transformVars
    <3>1. /\ UNCHANGED <<executorVersion, intent, sourceRows>>
          /\ resultRows' = resultRows /\ planSteps' = planSteps /\ execution' = execution
          /\ intent' = intent
      BY <2>2 DEF transformVars
    <3>2. /\ Grouped(resultRows') <=> Grouped(resultRows)
          /\ IsAnswer(resultRows') <=> IsAnswer(resultRows)
          /\ InTime(resultRows') <=> InTime(resultRows)
      BY <3>1
    <3>3. /\ (executorVersion \in Versions)' /\ (intent \in Intents)'
          /\ (sourceRows \in SourceTables)'
      BY <1>2, <3>1 DEF TransformInv, Versions, Intents
    <3>4. Progress => Progress'
      BY <3>1, <3>2, SameQuestion DEF Progress
    <3> QED
      BY <1>2, <3>1, <3>2, <3>3, <3>4, SameQuestion DEF TransformInv
  <2> QED
    BY <1>2, <2>1, <2>2
<1> QED
  BY <1>1, <1>2, PTL DEF TransformSpec

\* What a finished plan leaves is the answer.
LEMMA AnswerIsRight == TransformInv => AnswerIsWhatWasAsked
<1> SUFFICES ASSUME TransformInv PROVE AnswerIsWhatWasAsked
  OBVIOUS
<1>1. CASE execution = "done"
  <2>1. /\ Grouping /\ Told /\ Dated /\ Grouped(resultRows)
        /\ Comparable => Changed(resultRows)
        /\ intent.time => InTime(resultRows)
    BY <1>1 DEF TransformInv, IsAnswer
  <2>2. Len(resultRows) \in Nat /\ DOMAIN resultRows = 1..Len(resultRows)
    BY <2>1 DEF Grouped
  <2>3. ASSUME Comparable
        PROVE  ToSet(resultRows) = Answered /\ Len(resultRows) = Cardinality(Answered)
    <3> DEFINE row(n) ==
           [time |-> PeriodsOf(n), series |-> SeriesOf(n),
            amount |-> Total(PeriodsOf(n), SeriesOf(n)),
            change |-> ChangeOf(PeriodsOf(n), SeriesOf(n))]
    <3>1. Answered = {row(n) : n \in DOMAIN sourceRows}
      BY DEF Answered, ChangeOf
    <3>2. ASSUME NEW j \in DOMAIN resultRows
          PROVE  \E n \in DOMAIN sourceRows : resultRows[j] = row(n)
      <4>1. PICK n \in DOMAIN sourceRows :
               resultRows[j] = [time |-> PeriodsOf(n), series |-> SeriesOf(n),
                                amount |-> Total(PeriodsOf(n), SeriesOf(n)),
                                change |-> resultRows[j].change]
        BY <2>1 DEF Grouped
      <4>2. resultRows[j].time = PeriodsOf(n) /\ resultRows[j].series = SeriesOf(n)
        BY <4>1
      <4>3. resultRows[j].change = ChangeOf(PeriodsOf(n), SeriesOf(n))
        BY <2>1, <2>3, <4>2 DEF Changed
      <4> QED
        BY <4>1, <4>3
    <3>3. ASSUME NEW n \in DOMAIN sourceRows
          PROVE  \E j \in DOMAIN resultRows : resultRows[j] = row(n)
      <4>1. PICK j \in DOMAIN resultRows :
               resultRows[j].time = PeriodsOf(n) /\ resultRows[j].series = SeriesOf(n)
        BY <2>1 DEF Grouped
      <4>2. PICK m \in DOMAIN sourceRows : resultRows[j] = row(m)
        BY <3>2
      <4>3. PeriodsOf(m) = PeriodsOf(n) /\ SeriesOf(m) = SeriesOf(n)
        BY <4>1, <4>2
      <4> QED
        BY <4>2, <4>3
    <3>4. ToSet(resultRows) = Answered
      <4> HIDE DEF row
      <4> QED
        BY <3>1, <3>2, <3>3 DEF ToSet
    <3> DEFINE numbering == [j \in 1..Len(resultRows) |-> resultRows[j]]
    <3>5. numbering \in Bijection(1..Len(resultRows), Answered)
      <4>1. \A j \in 1..Len(resultRows) : numbering[j] \in Answered
        BY <2>2, <3>4 DEF ToSet
      <4>2. \A r \in Answered : \E j \in 1..Len(resultRows) : numbering[j] = r
        BY <2>2, <3>4 DEF ToSet
      <4>3. \A j, m \in 1..Len(resultRows) : numbering[j] = numbering[m] => j = m
        BY <2>1, <2>2 DEF Grouped
      <4> QED
        BY <4>1, <4>2, <4>3 DEF Bijection, Injection, Surjection, IsInjective
    <3>6. Len(resultRows) = Cardinality(Answered)
      <4> HIDE DEF numbering
      <4>1. ExistsBijection(1..Len(resultRows), Answered)
        BY <3>5 DEF ExistsBijection
      <4> QED
        BY <2>2, <4>1, FS_CountingElements
    <3> QED
      BY <3>4, <3>6
  <2>4. intent.time =>
          \A n \in 1..Len(resultRows)-1 : ~Before(resultRows[n+1].time, resultRows[n].time)
    <3> SUFFICES ASSUME intent.time, NEW n \in 1..Len(resultRows)-1
                 PROVE  ~Before(resultRows[n+1].time, resultRows[n].time)
      OBVIOUS
    <3>1. n \in DOMAIN resultRows /\ n+1 \in DOMAIN resultRows /\ n < n+1
      BY <2>2
    <3> QED
      BY <2>1, <3>1 DEF InTime
  <2>5. Answerable
    <3>1. executorVersion = "v2" /\ intent.time =>
             \A n \in DOMAIN sourceRows :
                \A p \in sourceRows[n].time : InGrain(p, intent.grain) # {}
      BY <2>1 DEF Told, Derives, Datable
    <3> QED
      BY <2>1, <3>1 DEF Answerable, Grouping, Dated
  <2> QED
    BY <1>1, <2>3, <2>4, <2>5 DEF AnswerIsWhatWasAsked
<1>2. CASE execution # "done"
  BY <1>2 DEF TransformInv, AnswerIsWhatWasAsked
<1> QED
  BY <1>1, <1>2

\* A plan answers what was asked, in whatever order the rows come, with one row for each
\* series and period, and fails only where it must (AnswerIsWhatWasAsked).
THEOREM AnswersWhatWasAsked == TransformSpec => []AnswerIsWhatWasAsked
<1>1. TransformInv => AnswerIsWhatWasAsked
  BY AnswerIsRight
<1> QED
  BY <1>1, TransformInvariance, PTL

-----------------------------------------------------------------------------
(* The fields of a chart: the inductive invariant *)

\* Once there is a proposal, a choice that applies is its axis and what it yields.
Proposed == {"transforming", "compiling", "validating", "drafted", "missingX", "fieldMissing"}
ChoiceIsLaid ==
    chartStage \in Proposed /\ Applies(chartIntent) =>
        chartFields.x = chosenX /\ chosenX \subseteq chartColumns

\* What the rule proposes compiles, unless a choice was made that does not apply.
RuleCompiles ==
    /\ gateway = "rule"
    /\ chosenX = {} \/ Applies(chartIntent)
    => /\ chartStage \in {"transforming", "compiling"} => CanCompile
       /\ chartStage \notin {"missingX", "fieldMissing"}

ChartPlanningInv ==
    /\ ChartPlanningTypeOK /\ ChoiceIsLaid /\ RuleCompiles
    /\ chartStage = "missingX" => ~Applies(chartIntent)

LEMMA ColumnsDiffer ==
    /\ \A c, d : Source(c) = Source(d) <=> c = d
    /\ \A c : Source(c).kind = "source" /\ Source(c).of = c
    /\ \A c, kind : Column(c, kind).of = c /\ Column(c, kind).kind = kind
  BY DEF Source, Column

\* The choice laid over an intent keeps its measure and comparison, and is grouped by.
LEMMA ChoiceLaid ==
    ASSUME ChartPlanningTypeOK, NEW i \in Intent, Applies(i)
    PROVE  /\ WithChoice(i) \in Intent
           /\ WithChoice(i).measure = i.measure /\ WithChoice(i).compared = i.compared
           /\ i.dimensions \subseteq WithChoice(i).dimensions
           /\ \E c \in GroupedBy(WithChoice(i)) : chosenX = {Source(c)}
<1>1. PICK s \in SourceColumns : chosenX = {Source(s)}
  BY DEF Applies, AppliesTo
<1>2. (CHOOSE c \in SourceColumns : chosenX = {Source(c)}) = s
  BY <1>1, ColumnsDiffer
<1>3. WithChoice(i) = IF columnType[s] = "date" THEN [i EXCEPT !.time = {s}]
                      ELSE [i EXCEPT !.time = {}, !.dimensions = @ \cup {s}]
  BY <1>2 DEF WithChoice
<1>4. {s} \in Option(SourceColumns) /\ {} \in Option(SourceColumns)
  BY <1>1 DEF Option
<1>5. CASE columnType[s] = "date"
  BY <1>1, <1>3, <1>4, <1>5 DEF Intent, GroupedBy
<1>6. CASE columnType[s] # "date"
  BY <1>1, <1>3, <1>4, <1>6 DEF Intent, GroupedBy
<1> QED
  BY <1>5, <1>6

\* Columns that a plan yields: sums of numbers, and what it groups by.
LEMMA Yielded ==
    ASSUME NEW i \in Intent, \A c \in i.measure : Numeric(c), NEW yields \in YieldsOf(i)
    PROVE  /\ yields \subseteq AllColumns
           /\ \A c \in i.measure : Column(c, "sum") \in yields
           /\ \A c \in GroupedBy(i) : Source(c) \in yields
<1>1. i.measure \subseteq SourceColumns /\ GroupedBy(i) \subseteq SourceColumns
  BY DEF Intent, Option, GroupedBy
<1>2. Fallbacks(i) \subseteq SourceColumns
  BY DEF Fallbacks
<1> QED
  BY <1>1, <1>2 DEF YieldsOf, AllColumns

\* What the rule proposes for an intent is among what its plan yields.
LEMMA RuleFieldsFit ==
    ASSUME NEW i \in RuleIntents, NEW yields \in YieldsOf(i), NEW f \in RuleFields(i, yields)
    PROVE  /\ f \in Fields /\ f.y = {Column(c, "sum") : c \in i.measure}
           /\ f.x \subseteq yields
           /\ f.series \subseteq {Source(c) : c \in i.dimensions}
<1>1. i \in Intent /\ \A c \in i.measure : Numeric(c)
  BY DEF RuleIntents
<1>2. /\ \A c \in i.measure : Column(c, "sum") \in yields
      /\ \A c \in GroupedBy(i) : Source(c) \in yields
  BY <1>1, Yielded
<1> QED
  BY <1>2 DEF RuleFields, GroupedBy

\* Whether a choice applies depends on what an intent compares alone.
LEMMA AppliesAlike ==
    ASSUME NEW i, NEW j, i.compared = j.compared PROVE Applies(i) <=> Applies(j)
  BY DEF Applies, AppliesTo

\* A proposal with the choice laid over it, the plan of the one or of the other.
LEMMA ProposalGood ==
    ASSUME ChartPlanningInv, NEW i \in Intent, \A c \in i.measure : Numeric(c),
           NEW f \in Fields, NEW yields \in SUBSET AllColumns,
           FollowProposal(i, f, yields), Stays,
           gateway = "rule" =>
              /\ i.measure # {} /\ f.y = {Column(c, "sum") : c \in i.measure}
              /\ f.x \cup f.y \cup f.series \subseteq yields
              /\ f.series \subseteq {Source(c) : c \in i.dimensions}
    PROVE  ChartPlanningInv'
<1>1. /\ columnType' = columnType /\ gateway' = gateway /\ chosenX' = chosenX
      /\ planningJobs' = planningJobs /\ chartStage' = "transforming"
      /\ candidates' = candidates
  BY DEF Stays, FollowProposal
<1>2. \A j : Applies(j)' <=> Applies(j')
  BY <1>1 DEF Applies, AppliesTo, SourceColumns
<1>3. CASE Applies(i)
  <2>1. /\ chartIntent' = WithChoice(i) /\ chartColumns' \in YieldsOf(WithChoice(i))
        /\ chartFields' = [f EXCEPT !.x = chosenX]
    BY <1>3 DEF FollowProposal
  <2>2. chartIntent' \in Intent /\ chartIntent'.measure = i.measure
    BY <1>3, <2>1, ChoiceLaid DEF ChartPlanningInv
  <2>3. /\ chartColumns' \subseteq AllColumns
        /\ \A c \in i.measure : Column(c, "sum") \in chartColumns'
        /\ \A c \in GroupedBy(chartIntent') : Source(c) \in chartColumns'
    BY <2>1, <2>2, Yielded
  <2>4. chosenX \subseteq chartColumns'
    BY <1>3, <2>1, <2>3, ChoiceLaid DEF ChartPlanningInv
  <2>5. chartFields' \in Fields /\ chartFields'.x = chosenX
        /\ chartFields'.y = f.y /\ chartFields'.series = f.series
    BY <2>1 DEF Fields, ChartPlanningInv, ChartPlanningTypeOK
  <2>6. i.dimensions \subseteq GroupedBy(chartIntent')
    BY <1>3, <2>1, ChoiceLaid DEF ChartPlanningInv, GroupedBy
  <2>7. gateway = "rule" => CanCompile'
    BY <2>2, <2>3, <2>4, <2>5, <2>6 DEF CanCompile, OtherFields
  <2> QED
    BY <1>1, <2>2, <2>3, <2>4, <2>5, <2>7
       DEF ChartPlanningInv, ChartPlanningTypeOK, ChoiceIsLaid, RuleCompiles, Intent, Fields,
           AllColumns, SourceColumns, Numeric
<1>4. CASE ~Applies(i)
  <2>1. chartIntent' = i /\ chartColumns' = yields /\ chartFields' = f
    BY <1>4 DEF FollowProposal
  <2>2. ~Applies(chartIntent)'
    BY <1>1, <1>4, <2>1 DEF Applies, AppliesTo, SourceColumns
  <2>3. gateway = "rule" => CanCompile'
    BY <2>1 DEF CanCompile, OtherFields
  <2> QED
    BY <1>1, <2>1, <2>2, <2>3
       DEF ChartPlanningInv, ChartPlanningTypeOK, ChoiceIsLaid, RuleCompiles, Intent, Fields,
           AllColumns, SourceColumns, Numeric
<1> QED
  BY <1>3, <1>4

\* A job that stops keeps its proposal.
LEMMA StopGood ==
    ASSUME ChartPlanningInv, NEW s \in {"modelAsks", "failed", "drafted"}, StopJob(s), Stays,
           s = "drafted" => chartStage = "validating"
    PROVE  ChartPlanningInv'
  BY DEF StopJob, Stays, ChartPlanningInv, ChartPlanningTypeOK, ChoiceIsLaid, RuleCompiles,
         CanCompile, OtherFields, Applies, AppliesTo, Intent, Fields, AllColumns, SourceColumns,
         Numeric, Proposed

\* The outcome of the choice: every column of the answer was there to choose.
LEMMA OfferedColumns ==
    ASSUME ChartPlanningTypeOK PROVE Offered \subseteq AllColumns
  BY DEF ChartPlanningTypeOK, Offered, AllColumns

LEMMA ProposeGood ==
    ASSUME ChartPlanningInv, ProposeByModel \/ ProposeByRule PROVE ChartPlanningInv'
<1>1. ASSUME NEW s \in {"modelAsks", "failed", "drafted"}, StopJob(s), Stays, s # "drafted"
      PROVE  ChartPlanningInv'
  BY <1>1, StopGood
<1>2. CASE ProposeByModel
  <2>1. ASSUME NEW i \in ModelIntents, NEW x \in AllColumns,
               FollowProposal(i, [NoFields EXCEPT !.x = {x}], {})
        PROVE  ChartPlanningInv'
    <3>1. i \in Intent /\ \A c \in i.measure : Numeric(c)
      BY DEF ModelIntents
    <3>2. [NoFields EXCEPT !.x = {x}] \in Fields
      BY DEF NoFields, Fields, Option
    <3>3. gateway # "rule" /\ Stays
      BY <1>2 DEF ProposeByModel
    <3> QED
      BY <2>1, <3>1, <3>2, <3>3, ProposalGood
  <2> QED
    BY <1>1, <1>2, <2>1 DEF ProposeByModel
<1>3. CASE ProposeByRule
  <2>1. ASSUME NEW i \in RuleIntents, NEW yields \in YieldsOf(i),
               NEW fields \in RuleFields(i, yields), FollowProposal(i, fields, yields)
        PROVE  ChartPlanningInv'
    <3>1. i \in Intent /\ i.measure # {} /\ \A c \in i.measure : Numeric(c)
      BY DEF RuleIntents
    <3>2. /\ yields \in SUBSET AllColumns
          /\ \A c \in i.measure : Column(c, "sum") \in yields
          /\ \A c \in GroupedBy(i) : Source(c) \in yields
      BY <3>1, Yielded
    <3>3. /\ fields \in Fields /\ fields.y = {Column(c, "sum") : c \in i.measure}
          /\ fields.x \subseteq yields
          /\ fields.series \subseteq {Source(c) : c \in i.dimensions}
      BY RuleFieldsFit
    <3>4. fields.x \cup fields.y \cup fields.series \subseteq yields
      BY <3>2, <3>3 DEF GroupedBy
    <3> QED
      BY <1>3, <2>1, <3>1, <3>2, <3>3, <3>4, ProposalGood DEF ProposeByRule
  <2> QED
    BY <1>1, <1>3, <2>1 DEF ProposeByRule
<1> QED
  BY <1>2, <1>3

\* The measure, the fields and the columns stay, so what compiled still does.
LEMMA TransformGood == ASSUME ChartPlanningInv, Transform PROVE ChartPlanningInv'
<1>1. CASE chartStage' = "compiling" /\ UNCHANGED <<chartIntent, chartFields, candidates>>
  <2>1. /\ columnType' = columnType /\ gateway' = gateway /\ chosenX' = chosenX
        /\ planningJobs' = planningJobs /\ chartStage = "transforming"
        /\ chartIntent' = chartIntent /\ chartFields' = chartFields /\ candidates' = candidates
    BY <1>1 DEF Transform, Stays
  <2>2. Applies(chartIntent)' <=> Applies(chartIntent)
    BY <2>1 DEF Applies, AppliesTo, SourceColumns
  <2>3. ~PlanIsOfModel => chartColumns' = chartColumns
    BY <1>1 DEF Transform, StopJob
  <2>4. chartColumns' \subseteq AllColumns
    BY <1>1, <2>3 DEF Transform, StopJob, ChartPlanningInv, ChartPlanningTypeOK
  <2> QED
    BY <1>1, <2>1, <2>2, <2>3, <2>4
       DEF ChartPlanningInv, ChartPlanningTypeOK, ChoiceIsLaid, RuleCompiles, CanCompile,
           OtherFields, PlanIsOfModel, Intent, Fields, AllColumns, SourceColumns, Numeric,
           Proposed
<1>2. CASE StopJob("failed")
  BY <1>2, StopGood DEF Transform
<1> QED
  BY <1>1, <1>2 DEF Transform

LEMMA CompileGood == ASSUME ChartPlanningInv, Compile PROVE ChartPlanningInv'
<1>1. /\ columnType' = columnType /\ gateway' = gateway /\ chosenX' = chosenX
      /\ planningJobs' = planningJobs /\ chartStage = "compiling"
      /\ chartIntent' = chartIntent /\ chartFields' = chartFields
      /\ chartColumns' = chartColumns
  BY DEF Compile, Stays
<1>2. Applies(chartIntent)' <=> Applies(chartIntent)
  BY <1>1 DEF Applies, AppliesTo, SourceColumns
<1>3. candidates' \subseteq AllColumns
  BY OfferedColumns DEF Compile, ChartPlanningInv, ChartPlanningTypeOK
<1>4. chartStage' \in {"validating", "missingX", "fieldMissing"}
  BY DEF Compile
<1>5. chartStage' = "missingX" => ~Applies(chartIntent)
  BY <1>1 DEF Compile, ChartPlanningInv, ChoiceIsLaid, Proposed
<1>6. gateway = "rule" /\ CanCompile => chartStage' = "validating"
  BY <1>1 DEF Compile, CanCompile
<1> QED
  BY <1>1, <1>2, <1>3, <1>4, <1>5, <1>6
     DEF ChartPlanningInv, ChartPlanningTypeOK, ChoiceIsLaid, RuleCompiles, Intent, Fields,
         AllColumns, SourceColumns, Numeric, Proposed

\* The next job starts from the columns that the last one offered.
LEMMA NextJobGood ==
    ASSUME ChartPlanningInv, NEW choice \in Option(AllColumns), NextJob(choice)
    PROVE  ChartPlanningInv'
<1>1. NoIntent \in Intent /\ NoFields \in Fields
  BY DEF NoIntent, Intent, NoFields, Fields, Option
<1>2. planningJobs' \in 1..MaxPlanningJobs
  BY ChartPlanningAssumption DEF NextJob, ChartPlanningInv, ChartPlanningTypeOK
<1> QED
  BY <1>1, <1>2
     DEF NextJob, ChartPlanningInv, ChartPlanningTypeOK, ChoiceIsLaid, RuleCompiles, Intent,
         Fields, AllColumns, SourceColumns, Numeric, Proposed

LEMMA ChartPlanningStart == ChartPlanningInit => ChartPlanningInv
<1> SUFFICES ASSUME ChartPlanningInit PROVE ChartPlanningInv
  OBVIOUS
<1>1. NoIntent \in Intent /\ NoFields \in Fields /\ {} \in Option(AllColumns)
  BY DEF NoIntent, Intent, NoFields, Fields, Option
<1> QED
  BY <1>1, ChartPlanningAssumption
     DEF ChartPlanningInit, ChartPlanningInv, ChartPlanningTypeOK, ChoiceIsLaid, RuleCompiles,
         Proposed

\* The choice that was laid over a proposal is the axis of its chart and a column that its
\* plan yields, and what the rule proposes with it compiles (applyGenerationDecision).
THEOREM ChartPlanningInvariance == ChartPlanningSpec => []ChartPlanningInv
<1>1. ChartPlanningInv /\ [ChartPlanningNext]_chartPlanningVars => ChartPlanningInv'
  <2> SUFFICES ASSUME ChartPlanningInv, [ChartPlanningNext]_chartPlanningVars
               PROVE  ChartPlanningInv'
    OBVIOUS
  <2>1. CASE Validate
    BY <2>1, StopGood DEF Validate
  <2>2. ASSUME NEW c \in candidates, NextJob({c}) PROVE ChartPlanningInv'
    <3>1. {c} \in Option(AllColumns)
      BY DEF ChartPlanningInv, ChartPlanningTypeOK, Option
    <3> QED
      BY <2>2, <3>1, NextJobGood
  <2>3. CASE NextJob({})
    <3>1. {} \in Option(AllColumns)
      BY DEF Option
    <3> QED
      BY <2>3, <3>1, NextJobGood
  <2>4. CASE UNCHANGED chartPlanningVars
    BY <2>4
       DEF chartPlanningVars, ChartPlanningInv, ChartPlanningTypeOK, ChoiceIsLaid,
           RuleCompiles, CanCompile, OtherFields, Applies, AppliesTo, Intent, Fields,
           AllColumns, SourceColumns, Numeric
  <2> QED
    BY <2>1, <2>2, <2>3, <2>4, ProposeGood, TransformGood, CompileGood
       DEF ChartPlanningNext, AnswerQuestion, AskAnew
<1> QED
  BY <1>1, ChartPlanningStart, PTL DEF ChartPlanningSpec

\* A candidate that ranks with one that applies applies as well: what ranks above columns of
\* numbers is a column of the source, and only the others rank with them.
LEMMA RecommendedApplies ==
    ASSUME ChartPlanningTypeOK, NEW c \in Recommended, NEW d \in candidates,
           AppliesTo({d}, chartIntent), TypeRank(d) # 1
    PROVE  AppliesTo({c}, chartIntent)
<1>1. PICK s \in SourceColumns : /\ d = Source(s)
                                 /\ columnType[s] = "date" \/ ~chartIntent.compared
  BY DEF AppliesTo
<1>2. c \in AllColumns /\ TypeRank(d) <= TypeRank(c)
  BY DEF Recommended, ChartPlanningTypeOK
<1>3. TypeRank(c) # 1 /\ (TypeRank(d) = 3 => TypeRank(c) = 3)
  BY <1>2 DEF TypeRank
<1>4. c.kind = "source" /\ (TypeRank(c) = 3 => columnType[c.of] = "date")
  BY <1>3 DEF TypeRank
<1>5. c = Source(c.of) /\ c.of \in SourceColumns
  BY <1>2, <1>4 DEF AllColumns, Source, Column
<1>6. TypeRank(d) = 3 \/ ~chartIntent.compared
  BY <1>1, ColumnsDiffer DEF TypeRank
<1> QED
  BY <1>3, <1>4, <1>5, <1>6 DEF AppliesTo

\* A choice that applies is final, what the rule proposes compiles, and the candidate that is
\* recommended applies if another does, for any snapshots, proposals and sequences of jobs.
THEOREM ChosenFieldStays == ChartPlanningSpec => []ChosenFieldIsUsed
<1>1. ChartPlanningInv => ChosenFieldIsUsed
  BY RecommendedApplies
     DEF ChartPlanningInv, ChoiceIsLaid, RuleCompiles, ChosenFieldIsUsed, Proposed
<1> QED
  BY <1>1, ChartPlanningInvariance, PTL

-----------------------------------------------------------------------------
(* The parser: the inductive invariant *)

Busy(q) == parseStage[q] \notin {"idle", "done"}

\* The call that is under way holds the parser, and is the one that close waits for.
OneCallAtATime ==
    /\ \A q \in ParseRequests : Busy(q) <=> occupied = q
    /\ activeDone = occupied
    /\ closing = "closed" => occupied = NoRequest
    /\ closing \in ParseRequests => closing = occupied

\* Each call has its thread while it runs, and says why it failed before it cleans up.
CallsHold(q) ==
    /\ ThreadAlive(q) => parseStage[q] = "running"
    /\ parseStage[q] = "clean" => parseVerdict[q] \in ParseFailures
    /\ q \in directories => parseStage[q] # "idle"
    /\ q \in directories /\ parseStage[q] = "done" => parseOutcome[q] \in {"result", "unclean"}
CallsAreContained == \A q \in ParseRequests : CallsHold(q)

LocalParseInv == LocalParseTypeOK /\ OneCallAtATime /\ CallsAreContained

USE LocalParseAssumption DEF ParseStages, ParseFailures, ThreadStates

\* At first nothing is under way.
LEMMA ParseStart == LocalParseInit => LocalParseInv
  BY DEF LocalParseInit, LocalParseInv, LocalParseTypeOK, OneCallAtATime, CallsAreContained,
         CallsHold, Busy, ThreadAlive

\* What the steps of a call q do to the calls, case by case; no other call moves.
LEMMA ParseStep ==
    ASSUME LocalParseInv, [LocalParseNext]_localParseVars
    PROVE  LocalParseInv'
<1> USE DEF LocalParseInv, LocalParseTypeOK, OneCallAtATime, CallsAreContained, CallsHold, Busy,
            ThreadAlive, MoveParse, SlotUnchanged
<1>1. CASE Close
  BY <1>1 DEF Close
<1>2. ASSUME NEW q \in ParseRequests, ParseRefused(q) PROVE LocalParseInv'
  BY <1>2 DEF ParseRefused, RefuseParse
<1>3. ASSUME NEW q \in ParseRequests, Parse(q) PROVE LocalParseInv'
  BY <1>3 DEF Parse
<1>4. ASSUME NEW q \in ParseRequests, AbortParse(q) PROVE LocalParseInv'
  BY <1>4 DEF AbortParse
<1>5. ASSUME NEW q \in ParseRequests, MakeDirectory(q) PROVE LocalParseInv'
  BY <1>5 DEF MakeDirectory, FailParse, FailureNow
<1>6. ASSUME NEW q \in ParseRequests, StartThread(q) PROVE LocalParseInv'
  BY <1>6 DEF StartThread, FailParse, FailureNow
<1>7. ASSUME NEW q \in ParseRequests, WriteOutput(q) \/ PostMetadata(q) \/ PostError(q)
      PROVE  LocalParseInv'
  BY <1>7 DEF WriteOutput, PostMetadata, PostError, ThreadStep
<1>8. ASSUME NEW q \in ParseRequests,
             HearMetadata(q) \/ HearError(q) \/ HearCrash(q) \/ TimeLimit(q)
      PROVE  LocalParseInv'
  BY <1>8 DEF HearMetadata, HearError, HearCrash, TimeLimit, Hear
<1>9. ASSUME NEW q \in ParseRequests, ThreadExits(q) PROVE LocalParseInv'
  BY <1>9 DEF ThreadExits
<1>10. ASSUME NEW q \in ParseRequests, HandOver(q) PROVE LocalParseInv'
  BY <1>10 DEF HandOver, Settle, FailParse, FailureNow
<1>11. ASSUME NEW q \in ParseRequests, Clean(q) PROVE LocalParseInv'
  BY <1>11 DEF Clean, Settle
<1>12. ASSUME NEW q \in ParseRequests, Dispose(q) PROVE LocalParseInv'
  BY <1>12 DEF Dispose
<1>13. CASE UNCHANGED localParseVars
  BY <1>13 DEF localParseVars
<1> QED
  BY <1>1, <1>2, <1>3, <1>4, <1>5, <1>6, <1>7, <1>8, <1>9, <1>10, <1>11, <1>12, <1>13
     DEF LocalParseNext

\* Whoever calls, aborts and closes, the parser's bookkeeping is consistent.
THEOREM LocalParseInvariance == LocalParseSpec => []LocalParseInv
<1>1. LocalParseInit => LocalParseInv
  BY ParseStart
<1>2. LocalParseInv /\ [LocalParseNext]_localParseVars => LocalParseInv'
  BY ParseStep
<1> QED
  BY <1>1, <1>2, PTL DEF LocalParseSpec

\* For any number of calls, one at most is under way; its thread has ended before the next
\* begins; and nothing but handed over results is left when close has returned.
THEOREM ParserContained == LocalParseSpec => []ParserIsContained
<1>1. ASSUME LocalParseInv PROVE ParserIsContained
  <2> DEFINE underWay == {q \in ParseRequests : parseStage[q] \notin {"idle", "done"}}
  <2>1. underWay = {} \/ underWay = {occupied}
    BY <1>1 DEF LocalParseInv, OneCallAtATime, Busy
  <2>2. Cardinality(underWay) <= 1
    BY <2>1, FS_EmptySet, FS_Singleton
  <2>3. \A q \in ParseRequests : CallsHold(q)
    BY <1>1 DEF LocalParseInv, CallsAreContained
  <2>4. \A q \in directories : q \in ParseRequests
    BY <1>1 DEF LocalParseInv, LocalParseTypeOK
  <2>5. closing = "closed" => underWay = {}
    BY <1>1 DEF LocalParseInv, OneCallAtATime, Busy
  <2> QED
    BY <2>2, <2>3, <2>4, <2>5 DEF ParserIsContained, CallsHold
<1> QED
  BY <1>1, LocalParseInvariance, PTL

-----------------------------------------------------------------------------
(* The import of a table: the inductive invariant *)

Looking == agentStage \in {"decide", "header", "data", "recheck", "table"}
Chosen == agentStage \in {"header", "data", "recheck", "table"}

\* The document is there, and the job knows it unless the import has failed.
DocumentIsKnown ==
    /\ imported # "no" => 1 <= docRevision
    /\ agentStage = "import" => imported = "no"
    /\ agentStage \notin {"import", "failed"} => imported = "recorded"

\* Between the first look and the last, no revision is read that is older than the one to
\* compare with; and the document only moves forward.
Between(revision) == baseRevision <= revision /\ revision <= docRevision
LooksAreLater ==
    /\ agentStage \in {"import", "revision"} => inspected = [s \in Sheets |-> NoObservation]
    /\ Looking =>
          /\ 1 <= baseRevision /\ baseRevision <= docRevision
          /\ \A s \in Sheets : inspected[s] # NoObservation => Between(inspected[s].at)
    /\ agentStage \in {"data", "recheck", "table"} => Between(readAt.header)
    /\ agentStage \in {"recheck", "table"} => Between(readAt.data)

\* The selection stays within what was shown.
SelectionWasShown ==
    Chosen =>
        /\ selected.sheet \in Sheets
        /\ inspected[selected.sheet] # NoObservation
        /\ {selected.range.first, selected.range.last} \subseteq Shown(inspected[selected.sheet])

\* A table was taken at the revision to compare with.
TakenAtBase ==
    agentStage = "table" =>
        /\ readAt.header = baseRevision /\ readAt.data = baseRevision
        /\ \A s \in Sheets : inspected[s] # NoObservation => inspected[s].at = baseRevision

TableAgentInv ==
    /\ TableAgentTypeOK /\ DocumentIsKnown /\ LooksAreLater /\ SelectionWasShown /\ TakenAtBase

USE TableAgentAssumption

\* At first there is no document.
LEMMA AgentStart == TableAgentInit => TableAgentInv
  BY DEF TableAgentInit, TableAgentInv, TableAgentTypeOK, AgentStages, DocumentIsKnown,
         LooksAreLater, Looking, Chosen, SelectionWasShown, TakenAtBase, NoSelection

\* Whatever the agent, the model and other editors do next keeps it.
LEMMA AgentStep ==
    ASSUME TableAgentInv, [TableAgentNext]_tableAgentVars
    PROVE  TableAgentInv'
<1> USE DEF TableAgentInv, TableAgentTypeOK, AgentStages, DocumentIsKnown, LooksAreLater,
            Looking, Chosen, Between, SelectionWasShown, TakenAtBase, TurnTo
<1>1. CASE EditDocument
  BY <1>1 DEF EditDocument, Shown
<1>2. CASE AgentFails
  BY <1>2 DEF AgentFails, Shown
<1>3. CASE ImportWorkbook
  BY <1>3 DEF ImportWorkbook, Shown
<1>4. CASE ReadRevision
  BY <1>4 DEF ReadRevision, Shown
<1>5. ASSUME NEW sheet \in Sheets, NEW range \in Ranges, InspectSheet(sheet, range)
      PROVE  TableAgentInv'
  BY <1>5 DEF InspectSheet
<1>6. ASSUME NEW sheet \in Sheets, NEW range \in Ranges, SelectTable(sheet, range)
      PROVE  TableAgentInv'
  BY <1>6 DEF SelectTable, Shown
<1>7. CASE ReadHeader
  BY <1>7 DEF ReadHeader, Shown
<1>8. CASE ReadData
  BY <1>8 DEF ReadData, Shown
<1>9. CASE RecheckRevision
  BY <1>9 DEF RecheckRevision, Shown
<1>10. CASE UNCHANGED tableAgentVars
  BY <1>10 DEF tableAgentVars, Shown
<1> QED
  BY <1>1, <1>2, <1>3, <1>4, <1>5, <1>6, <1>7, <1>8, <1>9, <1>10 DEF TableAgentNext

\* Whatever the model asks for and others edit, every look lies between the two revisions
\* that are compared.
THEOREM TableAgentInvariance == TableAgentSpec => []TableAgentInv
<1>1. TableAgentInit => TableAgentInv
  BY AgentStart
<1>2. TableAgentInv /\ [TableAgentNext]_tableAgentVars => TableAgentInv'
  BY AgentStep
<1> QED
  BY <1>1, <1>2, PTL DEF TableAgentSpec

\* For documents of any size and any number of looks and edits, a table that is taken over
\* is the one the model saw.
THEOREM TableWasSeen == TableAgentSpec => []TableIsWhatWasSeen
<1>1. TableAgentInv => TableIsWhatWasSeen
  BY DEF TableAgentInv, DocumentIsKnown, SelectionWasShown, Chosen, TakenAtBase,
         TableIsWhatWasSeen
<1> QED
  BY <1>1, TableAgentInvariance, PTL

-----------------------------------------------------------------------------
(* Themes: the inductive invariant *)

\* The version counts the saves, but that the first is shown as the default was.
VersionCounts(t) == t.version = IF t.save = 0 THEN 1 ELSE t.save

ProjectThemeInv ==
    /\ ProjectThemeTypeOK
    /\ VersionCounts(theme)
    /\ \A a \in ThemeAuthors : VersionCounts(author[a].seen) /\ author[a].seen.save <= theme.save

USE ProjectThemeAssumption DEF DefaultTheme, Themes

\* Everybody is shown the default at first.
LEMMA ThemeStart == ProjectThemeInit => ProjectThemeInv
  BY DEF ProjectThemeInit, ProjectThemeInv, ProjectThemeTypeOK, VersionCounts

\* A save adds one to both; reading shows the theme there is.
LEMMA ThemeStep ==
    ASSUME ProjectThemeInv, [ProjectThemeNext]_projectThemeVars
    PROVE  ProjectThemeInv'
<1> USE DEF ProjectThemeInv, ProjectThemeTypeOK, VersionCounts
<1>1. ASSUME NEW a \in ThemeAuthors, ReadTheme(a) PROVE ProjectThemeInv'
  BY <1>1 DEF ReadTheme
<1>2. ASSUME NEW a \in ThemeAuthors, CheckThemeReference(a) PROVE ProjectThemeInv'
  BY <1>2 DEF CheckThemeReference
<1>3. ASSUME NEW a \in ThemeAuthors, SaveTheme(a) PROVE ProjectThemeInv'
  BY <1>3 DEF SaveTheme, NextTheme
<1>4. ASSUME NEW a \in ThemeAuthors, RefuseTheme(a) PROVE ProjectThemeInv'
  BY <1>4 DEF RefuseTheme
<1>5. CASE UNCHANGED projectThemeVars
  BY <1>5 DEF projectThemeVars
<1> QED
  BY <1>1, <1>2, <1>3, <1>4, <1>5 DEF ProjectThemeNext

\* The version an author expects tells which theme they were shown, the first save apart.
THEOREM ProjectThemeInvariance == ProjectThemeSpec => []ProjectThemeInv
<1>1. ProjectThemeInit => ProjectThemeInv
  BY ThemeStart
<1>2. ProjectThemeInv /\ [ProjectThemeNext]_projectThemeVars => ProjectThemeInv'
  BY ThemeStep
<1> QED
  BY <1>1, <1>2, PTL DEF ProjectThemeSpec

\* For any authors and number of saves, of which any may state no version, a save that states
\* one replaces only a theme that its author was shown, or the first save of all.
THEOREM NoThemeLost == ProjectThemeSpec => NoThemeLostUnseen
<1> DEFINE Seen == \A a \in ThemeAuthors :
               SavesStated(a) =>
                   author[a].seen = theme \/ (author[a].seen = DefaultTheme /\ theme.save = 1)
<1>1. ASSUME ProjectThemeInv, [ProjectThemeNext]_projectThemeVars PROVE [Seen]_projectThemeVars
  <2> SUFFICES ASSUME NEW a \in ThemeAuthors, SavesStated(a)
               PROVE  \/ author[a].seen = theme
                      \/ author[a].seen = DefaultTheme /\ theme.save = 1
    OBVIOUS
  <2>1. PICK saver \in ThemeAuthors : SaveTheme(saver)
    BY <1>1 DEF ProjectThemeNext, ReadTheme, CheckThemeReference, RefuseTheme, projectThemeVars,
                SavesStated
  <2>2. a = saver
    BY <1>1, <2>1 DEF SaveTheme, SavesStated, ProjectThemeInv, ProjectThemeTypeOK
  <2>3. author[a].seen.version = theme.version
    BY <2>1, <2>2 DEF SaveTheme, VersionExpected, SavesStated
  <2> QED
    BY <1>1, <2>3 DEF ProjectThemeInv, ProjectThemeTypeOK, VersionCounts
<1> QED
  BY <1>1, ProjectThemeInvariance, PTL DEF ProjectThemeSpec, NoThemeLostUnseen

-----------------------------------------------------------------------------
(* Jobs under idempotency keys: the inductive invariant *)

\* A fingerprint tells the route, the content and the conversation of its request.
Describes(f, q) ==
    IF EntryOf(q) = "revision"
    THEN f[1] = "revision" /\ f[2] = ContentOf(q)
    ELSE f[1] = "prompt" /\ f[2] = ConversationOf(q) /\ f[4] = ContentOf(q)

\* Each route has steps of its own; a request has no job before it is answered, and what it
\* is about to insert describes it.
StepsOf(entry) ==
    CASE entry = "chat" -> {"idle", "answered"}
      [] entry = "revision" -> {"idle", "ready", "raced", "answered"}
      [] entry = "direct" -> {"idle", "saved", "checked", "ready", "answered"}
      [] entry = "message" -> Steps \ {"raced"}
StepsFit(q) ==
    /\ step[q] \in StepsOf(EntryOf(q))
    /\ step[q] \in {"checked", "ready", "raced"} => Describes(fingerprint[q], q)
    /\ step[q] # "answered" => replyJob[q] = {}

\* Only the job of a revision command opens a conversation for it.
OpenedWithJob(q) == EntryOf(q) = "revision" => (q \in opened <=> \E j \in queued : j.by = q)

\* A job is what its request asked for, ...
IsJobOf(j, q) ==
    /\ j.by = q
    /\ EntryOf(q) # "chat"
    /\ j.content = ContentOf(q)
    /\ j.conversation = IF ConversationOf(q) = NoConversation THEN q ELSE ConversationOf(q)
    /\ j.key = IF KeyOf(q) = NoKey THEN j.fingerprint ELSE KeyOf(q)
    /\ Describes(j.fingerprint, q)

\* ... and there is one under a key, and one of a request.
JobsFit ==
    \A j \in queued :
        /\ j.by \in EnqueueRequests /\ step[j.by] = "answered"
        /\ IsJobOf(j, j.by)
        /\ \A i \in queued : i.key = j.key \/ i.by = j.by => i = j

\* A request is answered with a job that is like its own would have been.
Alike(p, q) ==
    /\ ContentOf(p) = ContentOf(q)
    /\ ConversationOf(p) = ConversationOf(q)
    /\ EntryOf(p) = "revision" <=> EntryOf(q) = "revision"
Suits(j, q) == Alike(j.by, q) /\ (KeyOf(q) # NoKey => j.key = KeyOf(q))
RepliesFit ==
    \A q \in EnqueueRequests :
        replyJob[q] = {} \/ \E j \in queued : replyJob[q] = {j.by} /\ Suits(j, q)

EnqueueTypeOK ==
    /\ requested \in [EnqueueRequests -> Bodies]
    /\ step \in [EnqueueRequests -> Steps]
    /\ replyJob \in [EnqueueRequests -> SUBSET EnqueueRequests]
    /\ DOMAIN fingerprint = EnqueueRequests

JobEnqueueInv ==
    /\ EnqueueTypeOK
    /\ \A q \in EnqueueRequests : StepsFit(q) /\ OpenedWithJob(q)
    /\ JobsFit
    /\ RepliesFit

USE JobEnqueueAssumption DEF Steps

\* At first there is no job.
LEMMA EnqueueStart == JobEnqueueInit => JobEnqueueInv
  BY DEF JobEnqueueInit, JobEnqueueInv, EnqueueTypeOK, StepsFit, StepsOf, OpenedWithJob, JobsFit,
         RepliesFit, EntryOf

\* A fingerprint describes the request it is taken of.
LEMMA FingerprintDescribes ==
    ASSUME NEW q \in EnqueueRequests
    PROVE  Describes(FingerprintOf(q), q)
  BY DEF Describes, FingerprintOf

\* What two requests have in common that one fingerprint describes.
LEMMA DescribedAlike ==
    ASSUME NEW p \in EnqueueRequests, NEW q \in EnqueueRequests, NEW f,
           requested \in [EnqueueRequests -> Bodies], Describes(f, p), Describes(f, q)
    PROVE  Alike(p, q)
  BY DEF Describes, Alike, EntryOf, ContentOf, ConversationOf

\* A job whose prompt and conversation are those of a message is like it: a conversation
\* that a request opened is not one that a message is written in.
LEMMA SameInputAlike ==
    ASSUME NEW q \in EnqueueRequests, NEW j, j.by \in EnqueueRequests, IsJobOf(j, j.by),
           requested \in [EnqueueRequests -> Bodies], EntryOf(q) = "message", SameInput(q, j)
    PROVE  Alike(j.by, q)
  BY DEF IsJobOf, SameInput, Alike, EntryOf, ContentOf, ConversationOf

\* Requests and jobs that no step changes keep what they are.
LEMMA RequestsStay ==
    ASSUME requested' = requested
    PROVE  /\ \A q : /\ EntryOf(q)' = EntryOf(q) /\ ContentOf(q)' = ContentOf(q)
                     /\ KeyOf(q)' = KeyOf(q) /\ ConversationOf(q)' = ConversationOf(q)
           /\ \A f, q : Describes(f, q)' <=> Describes(f, q)
           /\ \A j, q : IsJobOf(j, q)' <=> IsJobOf(j, q)
           /\ \A p, q : Alike(p, q)' <=> Alike(p, q)
           /\ \A j, q : Suits(j, q)' <=> Suits(j, q)
  BY DEF EntryOf, ContentOf, KeyOf, ConversationOf, Describes, IsJobOf, Alike, Suits

\* A step of q that inserts no job: it goes on, or is answered, if with a job then with one
\* that suits it.
Turns(q, s) == step' = [step EXCEPT ![q] = s]

\* A request that only goes on keeps the invariant.
LEMMA RequestGoesOn ==
    ASSUME JobEnqueueInv, NEW q \in EnqueueRequests, NEW s \in StepsOf(EntryOf(q)),
           requested' = requested, queued' = queued, step[q] # "answered", Turns(q, s),
           \/ opened' = opened
           \/ EntryOf(q) # "revision" /\ opened' = opened \cup {q},
           \/ fingerprint' = fingerprint
           \/ fingerprint' = [fingerprint EXCEPT ![q] = FingerprintOf(q)],
           s \in {"checked", "ready", "raced"} => Describes(fingerprint'[q], q),
           \/ replyJob' = replyJob
           \/ /\ s = "answered"
              /\ \E j \in queued : replyJob' = [replyJob EXCEPT ![q] = {j.by}] /\ Suits(j, q)
    PROVE  JobEnqueueInv'
<1> DEFINE kept == \A p \in EnqueueRequests \ {q} :
                      step'[p] = step[p] /\ fingerprint'[p] = fingerprint[p]
                      /\ replyJob'[p] = replyJob[p] /\ (p \in opened' <=> p \in opened)
<1> USE RequestsStay DEF JobEnqueueInv, Turns
<1>1. StepsOf(EntryOf(q)) \subseteq Steps
  BY DEF StepsOf, EntryOf, EnqueueTypeOK
<1>2. EnqueueTypeOK' /\ kept /\ step'[q] = s
  BY <1>1 DEF EnqueueTypeOK, JobsFit
<1>3. ASSUME NEW p \in EnqueueRequests PROVE StepsFit(p)' /\ OpenedWithJob(p)'
  BY <1>2 DEF StepsFit, OpenedWithJob, EnqueueTypeOK
<1>4. JobsFit'
  BY <1>2 DEF JobsFit
<1>5. RepliesFit'
  BY <1>2 DEF RepliesFit, EnqueueTypeOK, StepsFit
<1> QED
  BY <1>2, <1>3, <1>4, <1>5

\* A step of q that inserts its job.
LEMMA RequestInserts ==
    ASSUME JobEnqueueInv, NEW q \in EnqueueRequests, requested' = requested,
           step[q] = "ready", JobsUnder(KeyUsed(q)) = {},
           queued' = queued \cup {NewJob(q)}, ReplyJob(q, NewJob(q)),
           fingerprint' = fingerprint,
           IF EntryOf(q) = "revision" THEN opened' = opened \cup {q} ELSE opened' = opened
    PROVE  JobEnqueueInv'
<1> DEFINE new == NewJob(q)
           kept == \A p \in EnqueueRequests \ {q} :
                      step'[p] = step[p] /\ fingerprint'[p] = fingerprint[p]
                      /\ replyJob'[p] = replyJob[p] /\ (p \in opened' <=> p \in opened)
<1> USE RequestsStay DEF JobEnqueueInv
<1>1. EntryOf(q) # "chat" /\ Describes(fingerprint[q], q) /\ replyJob[q] = {}
  BY DEF StepsFit, StepsOf
<1>2. IsJobOf(new, q) /\ new.by = q /\ Suits(new, q) /\ new.key = KeyUsed(q)
  BY <1>1 DEF IsJobOf, NewJob, KeyUsed, Suits, Alike
<1>3. \A j \in queued : j.by # q /\ j.key # new.key
  BY <1>2 DEF JobsFit, JobsUnder
<1> HIDE DEF new
<1>4. EnqueueTypeOK' /\ kept /\ step'[q] = "answered" /\ replyJob'[q] = {q}
  BY <1>2 DEF EnqueueTypeOK, ReplyJob, new
<1>5. queued' = queued \cup {new}
  BY DEF new
<1>6. ASSUME NEW p \in EnqueueRequests PROVE StepsFit(p)' /\ OpenedWithJob(p)'
  <2>1. CASE p = q
    <3>1. StepsFit(q)'
      BY <1>1, <1>4, RequestsStay DEF StepsFit, StepsOf, EnqueueTypeOK, EntryOf
    <3>2. OpenedWithJob(q)'
      BY <1>2, <1>5, RequestsStay DEF OpenedWithJob
    <3> QED
      BY <2>1, <3>1, <3>2
  <2>2. CASE p # q
    BY <1>2, <1>4, <1>5, <2>2 DEF StepsFit, OpenedWithJob
  <2> QED
    BY <2>1, <2>2
<1>7. JobsFit'
  BY <1>2, <1>3, <1>4, <1>5 DEF JobsFit
<1>8. RepliesFit'
  BY <1>2, <1>4, <1>5 DEF RepliesFit
<1> QED
  BY <1>4, <1>6, <1>7, <1>8

\* An answer without a job, for any reason, and one with a job that suits.
LEMMA RequestEnds ==
    ASSUME JobEnqueueInv, NEW q \in EnqueueRequests, NEW r, step[q] # "answered",
           requested' = requested, queued' = queued, opened' = opened,
           fingerprint' = fingerprint \/ fingerprint' = [fingerprint EXCEPT ![q] = FingerprintOf(q)],
           \/ ReplyWith(q, r)
           \/ \E j \in queued : ReplyJob(q, j) /\ Suits(j, q)
    PROVE  JobEnqueueInv'
<1>1. "answered" \in StepsOf(EntryOf(q))
  BY DEF StepsOf, EntryOf, JobEnqueueInv, EnqueueTypeOK
<1>2. Turns(q, "answered")
  BY DEF Turns, ReplyWith, ReplyJob
<1>3. \/ replyJob' = replyJob
      \/ \E j \in queued : replyJob' = [replyJob EXCEPT ![q] = {j.by}] /\ Suits(j, q)
  BY DEF ReplyWith, ReplyJob
<1> QED
  BY <1>1, <1>2, <1>3, RequestGoesOn

\* The job under a key suits a request with the key whose fingerprint it has, and a message
\* whose prompt and conversation it has.
LEMMA FoundSuits ==
    ASSUME JobEnqueueInv, NEW q \in EnqueueRequests, NEW j \in queued,
           KeyOf(q) # NoKey => j.key = KeyOf(q),
           \/ j.fingerprint = FingerprintOf(q)
           \/ EntryOf(q) = "message" /\ SameInput(q, j)
    PROVE  Suits(j, q)
<1>1. j.by \in EnqueueRequests /\ IsJobOf(j, j.by) /\ requested \in [EnqueueRequests -> Bodies]
  BY DEF JobEnqueueInv, JobsFit, EnqueueTypeOK
<1>2. CASE j.fingerprint = FingerprintOf(q)
  <2>1. Describes(j.fingerprint, j.by) /\ Describes(j.fingerprint, q)
    BY <1>1, <1>2, FingerprintDescribes DEF IsJobOf
  <2> QED
    BY <1>1, <2>1, DescribedAlike DEF Suits
<1>3. CASE EntryOf(q) = "message" /\ SameInput(q, j)
  BY <1>1, <1>3, SameInputAlike DEF Suits
<1> QED
  BY <1>2, <1>3

\* Whatever a request does next keeps the invariant.
LEMMA EnqueueStep ==
    ASSUME JobEnqueueInv, NEW q \in EnqueueRequests,
           \/ FindMessage(q) \/ FindJob(q) \/ ProjectConversation(q) \/ SaveMessage(q)
           \/ SayInConversation(q)
           \/ CheckKey(q) \/ RefuseInputs(q) \/ AddTurn(q) \/ InsertJob(q)
           \/ ReadExisting(q) \/ EnqueueRevision(q) \/ LoseRequest(q)
    PROVE  JobEnqueueInv'
<1>1. /\ EntryOf(q) \in {"chat", "revision", "direct", "message"}
      /\ step[q] \in StepsOf(EntryOf(q))
      /\ step[q] \in {"checked", "ready", "raced"} => Describes(fingerprint[q], q)
      /\ [fingerprint EXCEPT ![q] = FingerprintOf(q)][q] = FingerprintOf(q)
  BY DEF JobEnqueueInv, EnqueueTypeOK, StepsFit, EntryOf
<1>2. CASE FindMessage(q)
  <2>1. "found" \in StepsOf(EntryOf(q))
    BY <1>2 DEF FindMessage, StepsOf
  <2>2. CASE ReplyWith(q, "conflict")
    BY <1>2, <2>2, RequestEnds DEF FindMessage
  <2>3. CASE GoTo(q, "found")
    BY <1>2, <2>1, <2>3, RequestGoesOn DEF FindMessage, GoTo, Turns
  <2> QED
    BY <1>2, <2>2, <2>3 DEF FindMessage
<1>3. CASE FindJob(q)
  <2>1. EntryOf(q) = "message" /\ "new" \in StepsOf(EntryOf(q))
    BY <1>1, <1>3 DEF FindJob, StepsOf
  <2>2. CASE GoTo(q, "new")
    BY <1>3, <2>1, <2>2, RequestGoesOn DEF FindJob, GoTo, Turns
  <2>3. CASE \E j \in queued : j.key = KeyOf(q) /\ SameInput(q, j) /\ ReplyJob(q, j)
    BY <1>3, <2>1, <2>3, FoundSuits, RequestEnds DEF FindJob
  <2>4. CASE ReplyWith(q, "conflict")
    BY <1>3, <2>4, RequestEnds DEF FindJob
  <2> QED
    BY <1>3, <2>2, <2>3, <2>4 DEF FindJob, JobsUnder
<1>4. CASE ProjectConversation(q)
  <2> DEFINE next == IF EntryOf(q) = "message" THEN "projected" ELSE "saved"
  <2>1. next \in StepsOf(EntryOf(q)) /\ next \notin {"checked", "ready", "raced"}
        /\ step[q] # "answered" /\ GoTo(q, next)
    BY <1>4 DEF ProjectConversation, StepsOf
  <2>2. /\ requested' = requested /\ queued' = queued /\ opened' = opened
        /\ fingerprint' = fingerprint
    BY <1>4 DEF ProjectConversation
  <2> QED
    BY <2>1, <2>2, RequestGoesOn DEF GoTo, Turns
<1>5. CASE SaveMessage(q)
  <2>1. "saved" \in StepsOf(EntryOf(q)) /\ step[q] # "answered"
    BY <1>1, <1>5 DEF SaveMessage, StepsOf
  <2>2. /\ requested' = requested /\ queued' = queued /\ opened' = opened
        /\ fingerprint' = fingerprint
        /\ GoTo(q, "saved") \/ ReplyWith(q, "prepare") \/ ReplyWith(q, "conflict")
    BY <1>5 DEF SaveMessage
  <2>3. CASE GoTo(q, "saved")
    BY <2>1, <2>2, <2>3, RequestGoesOn DEF GoTo, Turns
  <2> QED
    BY <2>1, <2>2, <2>3, RequestEnds
<1>6. CASE SayInConversation(q)
  BY <1>6, RequestEnds DEF SayInConversation
<1>7. CASE CheckKey(q)
  <2> DEFINE key == IF KeyOf(q) = NoKey THEN FingerprintOf(q) ELSE KeyOf(q)
  <2>1. "checked" \in StepsOf(EntryOf(q)) /\ step[q] # "answered"
    BY <1>1, <1>7 DEF CheckKey, StepsOf
  <2>2. /\ requested' = requested /\ queued' = queued /\ opened' = opened
        /\ fingerprint' = [fingerprint EXCEPT ![q] = FingerprintOf(q)]
        /\ \/ GoTo(q, "checked")
           \/ \E j \in queued : /\ j.key = key /\ j.fingerprint = FingerprintOf(q)
                                /\ ReplyJob(q, j)
           \/ ReplyWith(q, "conflict")
    BY <1>7 DEF CheckKey, JobsUnder
  <2>3. CASE GoTo(q, "checked")
    <3>1. Turns(q, "checked") /\ replyJob' = replyJob
      BY <2>3 DEF GoTo, Turns
    <3>2. Describes(fingerprint'[q], q)
      BY <1>1, <2>2, FingerprintDescribes
    <3> QED
      BY <2>1, <2>2, <3>1, <3>2, RequestGoesOn
  <2> QED
    BY <2>1, <2>2, <2>3, FoundSuits, RequestEnds
<1>8. CASE RefuseInputs(q)
  BY <1>8, RequestEnds DEF RefuseInputs
<1>9. CASE AddTurn(q)
  <2>1. EntryOf(q) # "revision" /\ "ready" \in StepsOf(EntryOf(q)) /\ step[q] # "answered"
    BY <1>1, <1>9 DEF AddTurn, StepsOf
  <2>2. /\ requested' = requested /\ queued' = queued /\ fingerprint' = fingerprint
        /\ opened' = opened \/ opened' = opened \cup {q}
        /\ Describes(fingerprint[q], q)
        /\ GoTo(q, "ready")
    BY <1>1, <1>9 DEF AddTurn
  <2> QED
    BY <2>1, <2>2, RequestGoesOn DEF GoTo, Turns
<1>10. CASE InsertJob(q)
  <2>1. /\ step[q] = "ready" /\ EntryOf(q) # "revision" /\ requested' = requested
        /\ opened' = opened /\ fingerprint' = fingerprint
    BY <1>10 DEF InsertJob
  <2>2. CASE /\ JobsUnder(KeyUsed(q)) = {} /\ queued' = queued \cup {NewJob(q)}
             /\ ReplyJob(q, NewJob(q))
    BY <2>1, <2>2, RequestInserts
  <2>3. CASE queued' = queued /\ \E r \in {"error", "conflict"} : ReplyWith(q, r)
    BY <2>1, <2>3, RequestEnds
  <2>4. CASE /\ queued' = queued /\ EntryOf(q) # "direct" /\ KeyOf(q) # NoKey
             /\ \E j \in JobsUnder(KeyUsed(q)) : SameInput(q, j) /\ ReplyJob(q, j)
    <3>1. EntryOf(q) = "message"
      BY <1>1, <2>1, <2>4 DEF StepsOf
    <3> QED
      BY <2>1, <2>4, <3>1, FoundSuits, RequestEnds DEF JobsUnder, KeyUsed
  <2> QED
    BY <1>10, <2>2, <2>3, <2>4 DEF InsertJob
<1>11. CASE ReadExisting(q)
  <2> DEFINE key == IF KeyOf(q) = NoKey THEN FingerprintOf(q) ELSE KeyOf(q)
  <2>1. "ready" \in StepsOf(EntryOf(q)) /\ step[q] # "answered"
    BY <1>11 DEF ReadExisting, StepsOf
  <2>2. /\ requested' = requested /\ queued' = queued /\ opened' = opened
        /\ fingerprint' = [fingerprint EXCEPT ![q] = FingerprintOf(q)]
        /\ \/ GoTo(q, "ready")
           \/ \E j \in queued : /\ j.key = key /\ j.fingerprint = FingerprintOf(q)
                                /\ ReplyJob(q, j)
           \/ ReplyWith(q, "conflict") \/ ReplyWith(q, "error")
    BY <1>11 DEF ReadExisting, JobsUnder
  <2>3. CASE GoTo(q, "ready")
    <3>1. Turns(q, "ready") /\ replyJob' = replyJob
      BY <2>3 DEF GoTo, Turns
    <3>2. Describes(fingerprint'[q], q)
      BY <1>1, <2>2, FingerprintDescribes
    <3> QED
      BY <2>1, <2>2, <3>1, <3>2, RequestGoesOn
  <2> QED
    BY <2>1, <2>2, <2>3, FoundSuits, RequestEnds
<1>12. CASE EnqueueRevision(q)
  <2>1. /\ step[q] = "ready" /\ EntryOf(q) = "revision" /\ requested' = requested
        /\ fingerprint' = fingerprint /\ "raced" \in StepsOf(EntryOf(q))
    BY <1>12 DEF EnqueueRevision, StepsOf
  <2>2. CASE JobsUnder(KeyUsed(q)) = {}
    BY <1>12, <2>1, <2>2, RequestInserts DEF EnqueueRevision
  <2>3. CASE GoTo(q, "raced") /\ queued' = queued /\ opened' = opened
    BY <1>1, <2>1, <2>3, RequestGoesOn DEF GoTo, Turns
  <2> QED
    BY <1>12, <2>2, <2>3 DEF EnqueueRevision
<1>13. CASE LoseRequest(q)
  BY <1>13, RequestEnds DEF LoseRequest
<1> QED
  BY <1>2, <1>3, <1>4, <1>5, <1>6, <1>7, <1>8, <1>9, <1>10, <1>11, <1>12, <1>13

\* Inputs that change in between touch no request and no job.
LEMMA InputsStep ==
    ASSUME JobEnqueueInv, ChangeInputs \/ UNCHANGED jobEnqueueVars
    PROVE  JobEnqueueInv'
<1>1. /\ requested' = requested /\ queued' = queued /\ opened' = opened /\ step' = step
      /\ fingerprint' = fingerprint /\ replyJob' = replyJob
  BY DEF ChangeInputs, jobEnqueueVars, requestState
<1> QED
  BY <1>1, RequestsStay DEF JobEnqueueInv, EnqueueTypeOK, StepsFit, OpenedWithJob, JobsFit,
                            RepliesFit

\* Whatever is asked for, repeated, lost and changed meanwhile, there is one job under a key.
THEOREM JobEnqueueInvariance == JobEnqueueSpec => []JobEnqueueInv
<1>1. JobEnqueueInit => JobEnqueueInv
  BY EnqueueStart
<1>2. JobEnqueueInv /\ [JobEnqueueNext]_jobEnqueueVars => JobEnqueueInv'
  BY EnqueueStep, InputsStep DEF JobEnqueueNext
<1> QED
  BY <1>1, <1>2, PTL DEF JobEnqueueSpec

\* For any requests and keys, those that repeat one another are answered with one job, made
\* from what each of them asked for, and no conversation is left behind without its job.
THEOREM RepeatedRequestsAgree == JobEnqueueSpec => []AnswersAgree
<1>1. ASSUME JobEnqueueInv PROVE AnswersAgree
  <2>1. ASSUME NEW q \in EnqueueRequests, NEW j \in queued, j.by \in replyJob[q]
        PROVE  /\ replyJob[q] = {j.by} /\ Suits(j, q) /\ IsJobOf(j, j.by)
    BY <1>1, <2>1 DEF JobEnqueueInv, JobsFit, RepliesFit
  <2>2. ASSUME NEW q \in EnqueueRequests, NEW j \in queued, j.by \in replyJob[q],
               KeyOf(q) # NoKey, NEW p \in EnqueueRequests, KeyOf(p) = KeyOf(q)
        PROVE  replyJob[p] \subseteq {j.by}
    <3>1. j.key = KeyOf(q)
      BY <2>1, <2>2 DEF Suits
    <3> QED
      BY <1>1, <2>2, <3>1 DEF JobEnqueueInv, JobsFit, RepliesFit, Suits
  <2> QED
    BY <1>1, <2>1, <2>2 DEF AnswersAgree, SameAnswer, NoOrphanConversation, Suits, Alike, IsJobOf,
                            JobEnqueueInv, OpenedWithJob
<1> QED
  BY <1>1, JobEnqueueInvariance, PTL

-----------------------------------------------------------------------------
(* Revisions made without a render worker: the inductive invariant *)

ArtifactRecords == [key : CallKeys \cup {Unkeyed}, next : Nat, head : Nat]
RevisionRecords ==
    [artifact : Nat, number : Nat, parent : Nat, key : CallKeys \cup {Unkeyed},
     job : FirstJobs \cup {NoJob}, verified : BOOLEAN, reserved : BOOLEAN]
CallStages ==
    {"idle", "recheck", "create", "key", "lock", "find", "found", "insert", "fill", "point",
     "answered", "refused", "lost"}
CallRecords ==
    [at : CallStages, op : {"none", "initial", "derive", "copy"}, source : Nat,
     key : CallKeys \cup {Unkeyed}, job : FirstJobs \cup {NoJob}, number : Nat, row : Nat,
     answer : Nat]

ServiceTypeOK ==
    /\ artifactRows \in Seq(ArtifactRecords)
    /\ revisionRows \in Seq(RevisionRecords)
    /\ reservations \subseteq [artifact : Nat, number : Nat]
    /\ calls \in [Callers -> CallRecords]

\* A render worker has verified revisions of the first artifact, which is no copy; a key
\* makes one copy.
ArtifactsFit ==
    /\ 1 \in DOMAIN artifactRows
    /\ artifactRows[1].key = Unkeyed /\ artifactRows[1].head # 0
    /\ \A a \in DOMAIN artifactRows : artifactRows[a].next > 1
    /\ \A a, b \in DOMAIN artifactRows :
          artifactRows[a].key # Unkeyed /\ artifactRows[a].key = artifactRows[b].key => a = b

\* Numbers stay below the next one, and the head, once there, is the latest.
Counted(a) ==
    /\ LatestNumber(a) \in NumbersOf(a) \cup {0}
    /\ \A n \in NumbersOf(a) : n <= LatestNumber(a)
    /\ LatestNumber(a) < artifactRows[a].next
    /\ artifactRows[a].head \in {0, LatestNumber(a)}

\* So do reserved ones, which only their jobs take.
ReservationsFit ==
    \A i \in reservations :
        /\ i.artifact = 1 /\ i.number < artifactRows[1].next
        /\ \A r \in RowsOf(1) : revisionRows[r].number = i.number => revisionRows[r].reserved

\* A row is the only one of its job, of its key and of the copy it was made for.
IsFirst(r) ==
    /\ revisionRows[r].key = Unkeyed /\ revisionRows[r].parent = 0
    /\ artifactRows[revisionRows[r].artifact].key = Unkeyed
    /\ \A s \in DOMAIN revisionRows : revisionRows[s].job = revisionRows[r].job => s = r
IsKeyed(r) ==
    /\ revisionRows[r].artifact = 1
    /\ \A s \in DOMAIN revisionRows : revisionRows[s].key = revisionRows[r].key => s = r
IsOnly(r) == \A s \in RowsOf(revisionRows[r].artifact) : s = r
RowFits(r) ==
    /\ revisionRows[r].artifact \in DOMAIN artifactRows
    /\ revisionRows[r].verified => revisionRows[r].artifact = 1
    /\ revisionRows[r].job # NoJob => IsFirst(r)
    /\ revisionRows[r].key # Unkeyed => IsKeyed(r)
    /\ artifactRows[revisionRows[r].artifact].key # Unkeyed => IsOnly(r)

\* What a call at each stage has asked for and found; rows are only added.
Knows(call) ==
    /\ call.op = "initial" => call.key = Unkeyed /\ call.source = 0 /\ call.job # NoJob
    /\ call.op # "initial" => call.job = NoJob
    /\ call.at \in {"recheck", "create"} => call.op = "initial"
    /\ call.at \in {"key", "lock"} =>
          call.op = "derive" /\ call.source \in DOMAIN revisionRows /\ Freezes(call.source)
    /\ call.at \in {"find", "found", "insert", "fill", "point"} => call.op = "copy"
    /\ call.at \in {"found", "fill", "point"} =>
          /\ call.row \in DOMAIN artifactRows \ {1}
          /\ artifactRows[call.row].key = call.key
    /\ call.at = "found" => call.key # Unkeyed
    /\ call.at \in {"point", "answered"} =>
          /\ call.answer \in DOMAIN revisionRows
          /\ revisionRows[call.answer].parent = call.source
          /\ revisionRows[call.answer].job = call.job
    /\ call.at = "answered" =>
          /\ call.op \in {"initial", "derive", "copy"}
          /\ call.op = "derive" => revisionRows[call.answer].key = call.key
          /\ call.op = "copy" => artifactRows[revisionRows[call.answer].artifact].key = call.key

\* An artifact that is being copied into belongs to the call that does.
Copying(call) == call.at \in {"fill", "point"}
Owns(call) ==
    /\ call.at = "fill" => RowsOf(call.row) = {} /\ artifactRows[call.row].head = 0
    /\ call.at = "point" => /\ RowsOf(call.row) = {call.answer}
                            /\ revisionRows[call.answer].number = 1
CallsFit ==
    /\ \A c \in Callers : Knows(calls[c]) /\ Owns(calls[c])
    /\ \A c, d \in Callers :
          Copying(calls[c]) /\ Copying(calls[d]) /\ calls[c].row = calls[d].row => c = d

RevisionServiceInv ==
    /\ ServiceTypeOK
    /\ ArtifactsFit /\ (\A a \in DOMAIN artifactRows : Counted(a)) /\ ReservationsFit
    /\ \A r \in DOMAIN revisionRows : RowFits(r)
    /\ CallsFit

USE RevisionServiceAssumption

\* The maximum of numbers that have one.
LEMMA MaxIs ==
    ASSUME NEW S \in SUBSET Nat, NEW m \in S, \A n \in S : n <= m
    PROVE  Max(S) = m
<1>1. Max(S) \in S /\ \A n \in S : Max(S) >= n
  BY DEF Max
<1>2. Max(S) \in Nat /\ m \in Nat /\ Max(S) <= m /\ Max(S) >= m
  BY <1>1
<1> QED
  BY <1>2

\* At first there is one artifact with two verified revisions.
LEMMA ServiceStart == RevisionServiceInit => RevisionServiceInv
<1> SUFFICES ASSUME RevisionServiceInit PROVE RevisionServiceInv
  OBVIOUS
<1>1. /\ DOMAIN artifactRows = {1} /\ artifactRows[1] = [key |-> Unkeyed, next |-> 3, head |-> 2]
      /\ artifactRows \in Seq(ArtifactRecords)
  BY DEF RevisionServiceInit, ArtifactRecords
<1>2. /\ DOMAIN revisionRows = {1, 2} /\ revisionRows \in Seq(RevisionRecords)
      /\ \A r \in {1, 2} : /\ revisionRows[r].artifact = 1 /\ revisionRows[r].number = r
                           /\ revisionRows[r].key = Unkeyed /\ revisionRows[r].job = NoJob
  <2>1. Len(revisionRows) = 2 /\ DOMAIN revisionRows = {1, 2}
        /\ revisionRows = [n \in 1..2 |-> revisionRows[n]]
    BY DEF RevisionServiceInit
  <2>2. ASSUME NEW r \in {1, 2}
        PROVE  /\ revisionRows[r] = [Row(1, r, r - 1, Unkeyed, NoJob) EXCEPT !.verified = TRUE]
               /\ revisionRows[r] \in RevisionRecords
    <3>1. revisionRows[r] = [Row(1, r, r - 1, Unkeyed, NoJob) EXCEPT !.verified = TRUE]
      BY DEF RevisionServiceInit
    <3>2. r \in Nat /\ r - 1 \in Nat
      OBVIOUS
    <3>3. revisionRows[r] = [artifact |-> 1, number |-> r, parent |-> r - 1, key |-> Unkeyed,
                             job |-> NoJob, verified |-> TRUE, reserved |-> FALSE]
      BY <3>1 DEF Row
    <3>4. revisionRows[r] \in RevisionRecords
      BY <3>2, <3>3 DEF RevisionRecords
    <3> QED
      BY <3>1, <3>4
  <2>3. revisionRows \in Seq(RevisionRecords)
    BY <2>1, <2>2
  <2> QED
    BY <2>1, <2>2, <2>3 DEF Row
<1>3. RowsOf(1) = {1, 2} /\ NumbersOf(1) = {1, 2}
  BY <1>2 DEF RowsOf, NumbersOf
<1>4. LatestNumber(1) = 2
  BY <1>3, MaxIs DEF LatestNumber
<1>5. /\ reservations = {} /\ calls = [c \in Callers |-> NotCalled]
      /\ NotCalled \in CallRecords /\ NotCalled.at = "idle" /\ NotCalled.op = "none"
      /\ NotCalled.job = NoJob
  BY DEF RevisionServiceInit, CallRecords, CallStages, NotCalled
<1>6. ServiceTypeOK
  BY <1>1, <1>2, <1>5 DEF ServiceTypeOK
<1>7. ArtifactsFit /\ Counted(1) /\ ReservationsFit
  BY <1>1, <1>3, <1>4, <1>5 DEF ArtifactsFit, Counted, ReservationsFit
<1>8. \A r \in DOMAIN revisionRows : RowFits(r)
  BY <1>1, <1>2 DEF RowFits
<1>9. CallsFit
  BY <1>5 DEF CallsFit, Knows, Owns, Copying
<1> QED
  BY <1>1, <1>6, <1>7, <1>8, <1>9 DEF RevisionServiceInv

\* Inserting a revision adds it to its artifact, and changes nothing else.
RowAdded(row) == revisionRows' = Append(revisionRows, row)
NewRow == Len(revisionRows) + 1

\* The rows that were there stay as they are.
LEMMA RowsGrow ==
    ASSUME ServiceTypeOK, NEW row \in RevisionRecords, RowAdded(row)
    PROVE  /\ revisionRows' \in Seq(RevisionRecords)
           /\ NewRow \in Nat \ {0} /\ NewRow \notin DOMAIN revisionRows
           /\ DOMAIN revisionRows' = DOMAIN revisionRows \cup {NewRow}
           /\ \A r \in DOMAIN revisionRows : revisionRows'[r] = revisionRows[r]
           /\ revisionRows'[NewRow] = row
<1>1. Len(revisionRows) \in Nat /\ DOMAIN revisionRows = 1..Len(revisionRows)
  BY LenProperties DEF ServiceTypeOK
<1>2. /\ Append(revisionRows, row) \in Seq(RevisionRecords)
      /\ Len(Append(revisionRows, row)) = Len(revisionRows) + 1
      /\ \A r \in 1..Len(revisionRows) : Append(revisionRows, row)[r] = revisionRows[r]
      /\ Append(revisionRows, row)[Len(revisionRows) + 1] = row
  BY AppendProperties DEF ServiceTypeOK
<1>3. DOMAIN Append(revisionRows, row) = 1..(Len(revisionRows) + 1)
  BY <1>2, LenProperties
<1> QED
  BY <1>1, <1>2, <1>3 DEF RowAdded, NewRow

\* Its artifact gains the row and its number.
LEMMA RowsOfGrow ==
    ASSUME ServiceTypeOK, NEW row \in RevisionRecords, RowAdded(row), NEW a
    PROVE  /\ RowsOf(a)' = RowsOf(a) \cup IF a = row.artifact THEN {NewRow} ELSE {}
           /\ NumbersOf(a)' = NumbersOf(a) \cup IF a = row.artifact THEN {row.number} ELSE {}
<1>1. RowsOf(a)' = RowsOf(a) \cup IF a = row.artifact THEN {NewRow} ELSE {}
  BY RowsGrow DEF RowsOf
<1>2. \A r \in RowsOf(a) : r \in DOMAIN revisionRows
  BY DEF RowsOf
<1>3. NumbersOf(a)' = {revisionRows'[r].number : r \in RowsOf(a)'}
  BY DEF NumbersOf
<1> QED
  BY <1>1, <1>2, <1>3, RowsGrow DEF NumbersOf

\* The other artifacts keep theirs.
LEMMA OtherRowsStay ==
    ASSUME ServiceTypeOK, NEW row \in RevisionRecords, RowAdded(row), NEW a, a # row.artifact
    PROVE  RowsOf(a)' = RowsOf(a) /\ NumbersOf(a)' = NumbersOf(a)
<1>1. /\ RowsOf(a)' = RowsOf(a) \cup IF a = row.artifact THEN {NewRow} ELSE {}
      /\ NumbersOf(a)' = NumbersOf(a) \cup IF a = row.artifact THEN {row.number} ELSE {}
  BY RowsOfGrow
<1>2. /\ (IF a = row.artifact THEN {NewRow} ELSE {}) = {}
      /\ (IF a = row.artifact THEN {row.number} ELSE {}) = {}
  OBVIOUS
<1> QED
  BY <1>1, <1>2

\* So does inserting an artifact.
ArtifactAdded(artifact) == artifactRows' = Append(artifactRows, artifact)
NewArtifact == Len(artifactRows) + 1

\* The artifacts that were there stay as they are.
LEMMA ArtifactsGrow ==
    ASSUME ServiceTypeOK, NEW artifact \in ArtifactRecords, ArtifactAdded(artifact)
    PROVE  /\ artifactRows' \in Seq(ArtifactRecords)
           /\ NewArtifact \in Nat \ {0} /\ NewArtifact \notin DOMAIN artifactRows
           /\ DOMAIN artifactRows' = DOMAIN artifactRows \cup {NewArtifact}
           /\ \A a \in DOMAIN artifactRows : artifactRows'[a] = artifactRows[a]
           /\ artifactRows'[NewArtifact] = artifact
<1>1. Len(artifactRows) \in Nat /\ DOMAIN artifactRows = 1..Len(artifactRows)
  BY LenProperties DEF ServiceTypeOK
<1>2. /\ Append(artifactRows, artifact) \in Seq(ArtifactRecords)
      /\ Len(Append(artifactRows, artifact)) = Len(artifactRows) + 1
      /\ \A a \in 1..Len(artifactRows) : Append(artifactRows, artifact)[a] = artifactRows[a]
      /\ Append(artifactRows, artifact)[Len(artifactRows) + 1] = artifact
  BY AppendProperties DEF ServiceTypeOK
<1>3. DOMAIN Append(artifactRows, artifact) = 1..(Len(artifactRows) + 1)
  BY <1>2, LenProperties
<1> QED
  BY <1>1, <1>2, <1>3 DEF ArtifactAdded, NewArtifact

\* Numbers of rows are naturals.
LEMMA NumbersAreNaturals ==
    ASSUME ServiceTypeOK, NEW a
    PROVE  NumbersOf(a) \subseteq Nat /\ RowsOf(a) \subseteq DOMAIN revisionRows
<1>1. \A r \in DOMAIN revisionRows : revisionRows[r] \in RevisionRecords
  BY LenProperties DEF ServiceTypeOK
<1> QED
  BY <1>1 DEF NumbersOf, RowsOf, RevisionRecords

\* An artifact without a new row keeps its count, if its next number does not fall.
LEMMA CountStays ==
    ASSUME ServiceTypeOK, NEW a, Counted(a), NumbersOf(a)' = NumbersOf(a),
           artifactRows[a] \in ArtifactRecords, artifactRows'[a] \in ArtifactRecords,
           artifactRows'[a].next >= artifactRows[a].next,
           artifactRows'[a].head \in {0, artifactRows[a].head, LatestNumber(a)}
    PROVE  Counted(a)' /\ LatestNumber(a)' = LatestNumber(a)
<1>1. LatestNumber(a)' = LatestNumber(a)
  BY DEF LatestNumber
<1>2. LatestNumber(a) \in Nat
  BY NumbersAreNaturals DEF Counted
<1> QED
  BY <1>1, <1>2 DEF Counted, ArtifactRecords

\* An artifact with a new number below its next one counts it.
LEMMA CountGrows ==
    ASSUME ServiceTypeOK, NEW a, NEW n \in Nat, Counted(a), NumbersOf(a)' = NumbersOf(a) \cup {n},
           artifactRows[a] \in ArtifactRecords, artifactRows'[a] \in ArtifactRecords,
           artifactRows'[a].next >= artifactRows[a].next, n < artifactRows'[a].next,
           artifactRows'[a].head \in
               {0, IF n > LatestNumber(a) THEN n ELSE LatestNumber(a)}
    PROVE  Counted(a)'
<1> DEFINE m == IF n > LatestNumber(a) THEN n ELSE LatestNumber(a)
<1>1. LatestNumber(a) \in Nat /\ NumbersOf(a) \subseteq Nat
  BY NumbersAreNaturals DEF Counted
<1>2. /\ m \in NumbersOf(a)' \cup {0} /\ \A k1 \in NumbersOf(a)' \cup {0} : k1 <= m
      /\ NumbersOf(a)' \cup {0} \subseteq Nat
  BY <1>1 DEF Counted
<1>3. LatestNumber(a)' = m
  BY <1>2, MaxIs DEF LatestNumber
<1> QED
  BY <1>1, <1>2, <1>3 DEF Counted, ArtifactRecords

\* Artifacts and revisions are never removed, and neither their keys nor rows change.
Growing ==
    /\ DOMAIN artifactRows \subseteq DOMAIN artifactRows'
    /\ DOMAIN revisionRows \subseteq DOMAIN revisionRows'
    /\ \A a \in DOMAIN artifactRows : artifactRows'[a].key = artifactRows[a].key
    /\ \A r \in DOMAIN revisionRows : revisionRows'[r] = revisionRows[r]

\* What a call knows stays true.
LEMMA KnowledgeStays ==
    ASSUME Growing, \A r \in DOMAIN revisionRows : revisionRows[r].artifact \in DOMAIN artifactRows,
           NEW call, Knows(call)
    PROVE  Knows(call)'
  BY DEF Growing, Knows, Freezes

\* Calls stay as they should when one of them moves and leaves the copies of the others alone.
LEMMA CallsMove ==
    ASSUME RevisionServiceInv, NEW c \in Callers, NEW call \in CallRecords, Growing,
           Call(c, call), Knows(call)', Owns(call)',
           \A d \in Callers \ {c} : Copying(calls[d]) =>
               \A a : a = calls[d].row =>
                   /\ RowsOf(a)' = RowsOf(a)
                   /\ artifactRows'[a].head = artifactRows[a].head
                   /\ Copying(call) => call.row # a
    PROVE  CallsFit' /\ calls' \in [Callers -> CallRecords]
<1>1. calls' \in [Callers -> CallRecords] /\ calls'[c] = call
      /\ \A d \in Callers \ {c} : calls'[d] = calls[d]
  BY DEF RevisionServiceInv, ServiceTypeOK, Call
<1>2. ASSUME NEW d \in Callers PROVE Knows(calls[d])' /\ Owns(calls[d])'
  <2>1. CASE d = c
    BY <1>1, <2>1 DEF Knows, Owns
  <2>2. CASE d # c
    <3>1. PICK other : other = calls[d]
      OBVIOUS
    <3>2. calls'[d] = other
      BY <1>1, <2>2, <3>1
    <3>3. Knows(other) /\ Owns(other)
      BY <3>1 DEF RevisionServiceInv, CallsFit
    <3>4. Knows(other)'
      BY <3>3, KnowledgeStays DEF RevisionServiceInv, RowFits
    <3>5. Owns(other)'
      BY <2>2, <3>1, <3>3 DEF Owns, Copying, Growing, Knows
    <3> QED
      BY <3>2, <3>4, <3>5 DEF Knows, Owns
  <2> QED
    BY <2>1, <2>2
<1>3. ASSUME NEW d \in Callers, NEW e \in Callers, Copying(calls'[d]), Copying(calls'[e]),
             calls'[d].row = calls'[e].row
      PROVE  d = e
  BY <1>1, <1>3 DEF RevisionServiceInv, CallsFit
<1> QED
  BY <1>1, <1>2, <1>3 DEF CallsFit, Copying

\* A step that changes only a call, which does not begin to copy.
LEMMA OnlyCall ==
    ASSUME RevisionServiceInv, NEW c \in Callers, NEW call \in CallRecords, RowsStay,
           Call(c, call), Knows(call), ~Copying(call)
    PROVE  RevisionServiceInv'
<1>1. /\ artifactRows' = artifactRows /\ revisionRows' = revisionRows
      /\ reservations' = reservations
  BY DEF RowsStay
<1>2. /\ \A a : RowsOf(a)' = RowsOf(a) /\ NumbersOf(a)' = NumbersOf(a)
      /\ \A a : LatestNumber(a)' = LatestNumber(a)
  BY <1>1 DEF RowsOf, NumbersOf, LatestNumber
<1>3. Growing /\ Knows(call)' /\ Owns(call)'
  BY <1>1 DEF Growing, Knows, Freezes, Owns, Copying
<1>4. CallsFit' /\ calls' \in [Callers -> CallRecords]
  BY <1>1, <1>2, <1>3, CallsMove
<1>5. ServiceTypeOK' /\ ArtifactsFit' /\ ReservationsFit'
  BY <1>1, <1>2, <1>4 DEF RevisionServiceInv, ServiceTypeOK, ArtifactsFit, ReservationsFit
<1>6. \A a \in DOMAIN artifactRows' : Counted(a)'
  BY <1>1, <1>2 DEF RevisionServiceInv, Counted
<1>7. \A r \in DOMAIN revisionRows' : RowFits(r)'
  BY <1>1, <1>2 DEF RevisionServiceInv, RowFits, IsFirst, IsKeyed, IsOnly
<1> QED
  BY <1>4, <1>5, <1>6, <1>7 DEF RevisionServiceInv

\* A row that is added has to be the first of its job, of its key and of its copy.
NewRowFits(row) ==
    /\ row.artifact \in DOMAIN artifactRows'
    /\ ~row.verified
    /\ row.job # NoJob =>
          /\ row.key = Unkeyed /\ row.parent = 0 /\ artifactRows'[row.artifact].key = Unkeyed
          /\ \A s \in DOMAIN revisionRows : revisionRows[s].job # row.job
    /\ row.key # Unkeyed =>
          row.artifact = 1 /\ \A s \in DOMAIN revisionRows : revisionRows[s].key # row.key
    /\ artifactRows'[row.artifact].key # Unkeyed => RowsOf(row.artifact) = {}

\* Then every row still is.
LEMMA RowsFitGrown ==
    ASSUME RevisionServiceInv, Growing, NEW row \in RevisionRecords, RowAdded(row),
           NewRowFits(row)
    PROVE  \A r \in DOMAIN revisionRows' : RowFits(r)'
<1>1. ServiceTypeOK
  BY DEF RevisionServiceInv
<1> DEFINE n == NewRow
<1>2. /\ n \notin DOMAIN revisionRows /\ DOMAIN revisionRows' = DOMAIN revisionRows \cup {n}
      /\ \A r \in DOMAIN revisionRows : revisionRows'[r] = revisionRows[r]
      /\ revisionRows'[n] = row
  BY <1>1, RowsGrow
<1>3. \A a : RowsOf(a)' = RowsOf(a) \cup IF a = row.artifact THEN {n} ELSE {}
  BY <1>1, RowsOfGrow
<1>4. \A r \in DOMAIN revisionRows : RowFits(r)
  BY DEF RevisionServiceInv
<1> HIDE DEF n
<1>5. PICK new : new = n
  OBVIOUS
<1>6. RowFits(new)'
  <2>1. \A s \in DOMAIN revisionRows' : s = new \/ s \in DOMAIN revisionRows
    BY <1>2, <1>5
  <2> QED
    BY <1>2, <1>3, <1>5, <2>1 DEF NewRowFits, RowFits, IsFirst, IsKeyed, IsOnly
<1>7. ASSUME NEW r \in DOMAIN revisionRows PROVE RowFits(r)'
  <2>1. /\ revisionRows'[r] = revisionRows[r]
        /\ revisionRows[r].artifact \in DOMAIN artifactRows
        /\ revisionRows[r].artifact \in DOMAIN artifactRows'
        /\ artifactRows'[revisionRows[r].artifact].key = artifactRows[revisionRows[r].artifact].key
    BY <1>4 DEF RowFits, Growing
  <2>2. revisionRows[r].job # NoJob => IsFirst(r)'
    BY <1>2, <1>4, <2>1 DEF RowFits, IsFirst, NewRowFits
  <2>3. revisionRows[r].key # Unkeyed => IsKeyed(r)'
    BY <1>2, <1>4, <2>1 DEF RowFits, IsKeyed, NewRowFits
  <2>4. artifactRows[revisionRows[r].artifact].key # Unkeyed => IsOnly(r)'
    <3>1. r \in RowsOf(revisionRows[r].artifact)
      BY DEF RowsOf
    <3> QED
      BY <1>3, <1>4, <2>1, <3>1 DEF RowFits, IsOnly, NewRowFits
  <2> QED
    BY <1>4, <2>1, <2>2, <2>3, <2>4 DEF RowFits
<1> QED
  BY <1>2, <1>5, <1>6, <1>7

\* What a step finds of its call.
LEMMA CallsNow ==
    ASSUME RevisionServiceInv, NEW c \in Callers
    PROVE  /\ calls[c] \in CallRecords /\ Knows(calls[c]) /\ Owns(calls[c])
           /\ ServiceTypeOK
           /\ \A r \in DOMAIN revisionRows :
                 revisionRows[r] \in RevisionRecords /\ r \in Nat /\ RowFits(r)
           /\ \A a \in DOMAIN artifactRows :
                 artifactRows[a] \in ArtifactRecords /\ a \in Nat /\ Counted(a)
  BY LenProperties DEF RevisionServiceInv, CallsFit, ServiceTypeOK

\* A call that gives up, is refused or lost knows no less than before.
LEMMA CallEnds ==
    ASSUME RevisionServiceInv, NEW c \in Callers, NEW end \in {"refused", "lost"},
           RowsStay, Goes(c, end)
    PROVE  RevisionServiceInv'
<1> DEFINE call == [calls[c] EXCEPT !.at = end]
<1>1. call \in CallRecords /\ Knows(call) /\ ~Copying(call)
  BY CallsNow DEF CallRecords, CallStages, Knows, Copying
<1> QED
  BY <1>1, OnlyCall DEF Goes

\* A call that goes on to look or to write.
LEMMA CallGoes ==
    ASSUME RevisionServiceInv, NEW c \in Callers, RowsStay,
           NEW next \in {"create", "lock", "insert"}, Goes(c, next),
           next = "create" => calls[c].op = "initial",
           next = "lock" => calls[c].at = "key",
           next = "insert" => calls[c].op = "copy"
    PROVE  RevisionServiceInv'
<1> DEFINE call == [calls[c] EXCEPT !.at = next]
<1>1. call \in CallRecords /\ Knows(call) /\ ~Copying(call)
  BY CallsNow DEF CallRecords, CallStages, Knows, Copying
<1> QED
  BY <1>1, OnlyCall DEF Goes

\* A call that is answered with a row there is.
Answers(call, r) ==
    /\ revisionRows[r].parent = call.source /\ revisionRows[r].job = call.job
    /\ call.op \in {"initial", "derive", "copy"}
    /\ call.op = "derive" => revisionRows[r].key = call.key
    /\ call.op = "copy" => artifactRows[revisionRows[r].artifact].key = call.key

\* Such an answer keeps the invariant.
LEMMA CallAnswered ==
    ASSUME RevisionServiceInv, NEW c \in Callers, RowsStay, NEW r \in DOMAIN revisionRows,
           AnswersWith(c, r), Answers(calls[c], r)
    PROVE  RevisionServiceInv'
<1> DEFINE call == [calls[c] EXCEPT !.at = "answered", !.answer = r]
<1>1. calls[c] \in CallRecords /\ Knows(calls[c]) /\ r \in Nat
  BY CallsNow
<1>2. /\ call \in CallRecords /\ call.at = "answered" /\ call.answer = r
      /\ call.op = calls[c].op /\ call.source = calls[c].source
      /\ call.key = calls[c].key /\ call.job = calls[c].job
  BY <1>1 DEF CallRecords, CallStages
<1> HIDE DEF call
<1>3. Knows(call)
  BY <1>1, <1>2 DEF Knows, Answers
<1>4. ~Copying(call)
  BY <1>2 DEF Copying
<1>5. Call(c, call)
  BY DEF AnswersWith, call
<1> QED
  BY <1>2, <1>3, <1>4, <1>5, OnlyCall

\* The row of a job is the first revision of an artifact.
LEMMA FirstAnswers ==
    ASSUME RevisionServiceInv, NEW call, call.op = "initial", call.source = 0, call.job # NoJob,
           NEW r \in OfJob(call.job)
    PROVE  r \in DOMAIN revisionRows /\ Answers(call, r)
  BY DEF RevisionServiceInv, OfJob, Answers, RowFits, IsFirst

\* A first revision is looked for twice before it is made.
LEMMA InitialSteps ==
    ASSUME RevisionServiceInv, NEW c \in Callers, NEW job \in FirstJobs,
           CallInitial(c, job) \/ RecheckJob(c)
    PROVE  RevisionServiceInv'
<1>1. CASE CallInitial(c, job)
  <2> DEFINE call == [NotCalled EXCEPT !.op = "initial", !.job = job]
             query == [call EXCEPT !.at = "recheck"]
  <2>1. /\ call.op = "initial" /\ call.source = 0 /\ call.job = job /\ call.key = Unkeyed
        /\ job # NoJob
    BY DEF NotCalled
  <2>2. CASE OfJob(job) # {} /\ \E r \in OfJob(job) :
               Call(c, [call EXCEPT !.at = "answered", !.answer = r])
    <3>1. PICK r \in OfJob(job) : Call(c, [call EXCEPT !.at = "answered", !.answer = r])
      BY <2>2
    <3>2. r \in DOMAIN revisionRows /\ r \in Nat /\ Answers(call, r)
      BY <2>1, <3>1, FirstAnswers, CallsNow
    <3>3. [call EXCEPT !.at = "answered", !.answer = r] \in CallRecords
      BY <3>2 DEF CallRecords, CallStages, NotCalled
    <3>4. Knows([call EXCEPT !.at = "answered", !.answer = r])
      BY <2>1, <3>2 DEF Knows, Answers, NotCalled
    <3> QED
      BY <1>1, <3>1, <3>3, <3>4, OnlyCall DEF CallInitial, Copying, NotCalled
  <2>3. CASE Call(c, query)
    <3>1. query \in CallRecords /\ Knows(query) /\ ~Copying(query)
      BY <2>1 DEF CallRecords, CallStages, NotCalled, Knows, Copying
    <3> QED
      BY <1>1, <2>3, <3>1, OnlyCall DEF CallInitial
  <2> QED
    BY <1>1, <2>2, <2>3 DEF CallInitial
<1>2. CASE RecheckJob(c)
  <2>1. calls[c].op = "initial" /\ calls[c].source = 0 /\ calls[c].job # NoJob
    BY <1>2, CallsNow DEF RecheckJob, Knows
  <2>2. CASE \E r \in OfJob(calls[c].job) : AnswersWith(c, r)
    BY <1>2, <2>1, <2>2, FirstAnswers, CallAnswered DEF RecheckJob
  <2>3. CASE Goes(c, "create")
    BY <1>2, <2>1, <2>3, CallGoes DEF RecheckJob
  <2> QED
    BY <1>2, <2>2, <2>3 DEF RecheckJob
<1> QED
  BY <1>1, <1>2

\* A call that begins with a revision there is.
LEMMA CallBegins ==
    ASSUME RevisionServiceInv, NEW c \in Callers, RowsStay, NEW call \in CallRecords,
           Call(c, call), call.source \in DOMAIN revisionRows, call.job = NoJob,
           call.op \in {"derive", "copy"}, call.at \in {"key", "find", "refused"},
           call.at = "key" => call.op = "derive" /\ Freezes(call.source),
           call.at = "find" => call.op = "copy"
    PROVE  RevisionServiceInv'
<1>1. Knows(call) /\ ~Copying(call)
  BY DEF Knows, Copying
<1> QED
  BY <1>1, OnlyCall

\* A caller that has not called has asked for nothing.
LEMMA NotCalledIsCall == NotCalled \in CallRecords /\ NotCalled.job = NoJob
  BY DEF NotCalled, CallRecords, CallStages

\* Derivations and copies begin with a revision that a render worker has verified.
LEMMA BeginSteps ==
    ASSUME RevisionServiceInv, NEW c \in Callers, NEW origin, NEW key \in CallKeys \cup {Unkeyed},
           \/ \E n \in {0} \cup {i.number : i \in reservations} : CallDerive(c, origin, key, n)
           \/ CallCopy(c, origin, key)
    PROVE  RevisionServiceInv'
<1> USE NotCalledIsCall
<1>1. ASSUME NEW n \in {0} \cup {i.number : i \in reservations}, CallDerive(c, origin, key, n)
      PROVE  RevisionServiceInv'
  <2>1. n \in Nat
    BY DEF RevisionServiceInv, ServiceTypeOK
  <2>2. PICK at : at = IF Freezes(origin) THEN "key" ELSE "refused"
    OBVIOUS
  <2> DEFINE call == [NotCalled EXCEPT !.op = "derive", !.source = origin, !.key = key,
                                       !.number = n, !.at = at]
  <2>3. origin \in DOMAIN revisionRows /\ RowsStay /\ Call(c, call)
    BY <1>1, <2>2 DEF CallDerive
  <2>4. origin \in Nat /\ at \in {"key", "refused"}
    BY <2>2, <2>3, CallsNow
  <2>5. /\ call \in CallRecords
        /\ call.op = "derive" /\ call.source = origin /\ call.job = NoJob /\ call.at = at
    BY <2>1, <2>4 DEF CallRecords, CallStages
  <2> HIDE DEF call
  <2> QED
    BY <2>2, <2>3, <2>4, <2>5, CallBegins
<1>2. CASE CallCopy(c, origin, key)
  <2>1. PICK at : at = IF Freezes(origin) THEN "find" ELSE "refused"
    OBVIOUS
  <2> DEFINE call == [NotCalled EXCEPT !.op = "copy", !.source = origin, !.key = key, !.at = at]
  <2>2. origin \in DOMAIN revisionRows /\ RowsStay /\ Call(c, call)
    BY <1>2, <2>1 DEF CallCopy
  <2>3. origin \in Nat /\ at \in {"find", "refused"}
    BY <2>1, <2>2, CallsNow
  <2>4. /\ call \in CallRecords
        /\ call.op = "copy" /\ call.source = origin /\ call.job = NoJob /\ call.at = at
    BY <2>3 DEF CallRecords, CallStages
  <2> HIDE DEF call
  <2> QED
    BY <2>2, <2>3, <2>4, CallBegins
<1> QED
  BY <1>1, <1>2

\* A key that was used answers for its source, and conflicts with any other.
LEMMA RepeatSteps ==
    ASSUME RevisionServiceInv, NEW c \in Callers, calls[c].at \in {"key", "lock"}, RowsStay,
           Keyed(c) # {}, Repeats(c)
    PROVE  RevisionServiceInv'
<1>1. calls[c].op = "derive" /\ calls[c].job = NoJob
  BY CallsNow DEF Knows
<1>2. PICK r \in Keyed(c) : IF revisionRows[r].parent = calls[c].source
                            THEN AnswersWith(c, r) ELSE Refused(c)
  BY DEF Repeats
<1>3. /\ r \in DOMAIN revisionRows /\ revisionRows[r].key = calls[c].key
      /\ revisionRows[r].key # Unkeyed
  BY DEF Keyed, WithKey, RowsOf
<1>4. revisionRows[r].job = NoJob
  BY <1>3, CallsNow DEF RowFits, IsFirst
<1>5. CASE revisionRows[r].parent = calls[c].source
  BY <1>1, <1>2, <1>3, <1>4, <1>5, CallAnswered DEF Answers
<1>6. CASE revisionRows[r].parent # calls[c].source
  BY <1>2, <1>6, CallEnds DEF Refused
<1> QED
  BY <1>5, <1>6

\* What has been copied has one row, of no job.
LEMMA FindSteps ==
    ASSUME RevisionServiceInv, NEW c \in Callers, FindKey(c) \/ FindCopy(c) \/ ReadCopied(c)
    PROVE  RevisionServiceInv'
<1>1. CASE FindKey(c)
  <2>1. CASE Keyed(c) # {}
    BY <1>1, <2>1, RepeatSteps DEF FindKey
  <2>2. CASE Goes(c, "lock")
    BY <1>1, <2>2, CallGoes DEF FindKey
  <2> QED
    BY <1>1, <2>1, <2>2 DEF FindKey
<1>2. CASE FindCopy(c)
  <2>1. calls[c].op = "copy" /\ RowsStay /\ calls[c].job = NoJob
    BY <1>2, CallsNow DEF FindCopy, Knows
  <2>2. CASE Goes(c, "insert")
    BY <2>1, <2>2, CallGoes
  <2>3. CASE \E a \in CreatedWith(calls[c].key) : Call(c, [calls[c] EXCEPT !.at = "found", !.row = a])
    <3>1. PICK a \in CreatedWith(calls[c].key) :
             Call(c, [calls[c] EXCEPT !.at = "found", !.row = a])
      BY <2>3
    <3>2. /\ a \in DOMAIN artifactRows /\ a \in Nat /\ artifactRows[a].key = calls[c].key
          /\ calls[c].key # Unkeyed
      BY CallsNow DEF CreatedWith
    <3>3. a # 1
      BY <3>2 DEF RevisionServiceInv, ArtifactsFit
    <3> DEFINE call == [calls[c] EXCEPT !.at = "found", !.row = a]
    <3>6. calls[c] \in CallRecords
      BY CallsNow
    <3>4. /\ call \in CallRecords /\ call.at = "found" /\ call.row = a
          /\ call.op = "copy" /\ call.job = NoJob /\ call.key = calls[c].key
      BY <2>1, <3>2, <3>6 DEF CallRecords, CallStages
    <3> HIDE DEF call
    <3>5. Knows(call) /\ ~Copying(call)
      BY <3>2, <3>3, <3>4 DEF Knows, Copying
    <3>7. Call(c, call)
      BY <3>1 DEF call
    <3> QED
      BY <2>1, <3>4, <3>5, <3>7, OnlyCall
  <2> QED
    BY <1>2, <2>2, <2>3 DEF FindCopy
<1>3. CASE ReadCopied(c)
  <2>1. /\ calls[c].op = "copy" /\ calls[c].key # Unkeyed /\ calls[c].job = NoJob
        /\ artifactRows[calls[c].row].key = calls[c].key /\ RowsStay
    BY <1>3, CallsNow DEF ReadCopied, Knows
  <2>2. CASE \E r \in RowsOf(calls[c].row) :
               revisionRows[r].parent = calls[c].source /\ AnswersWith(c, r)
    <3>1. PICK r \in RowsOf(calls[c].row) :
             revisionRows[r].parent = calls[c].source /\ AnswersWith(c, r)
      BY <2>2
    <3>2. r \in DOMAIN revisionRows /\ revisionRows[r].artifact = calls[c].row
      BY DEF RowsOf
    <3>3. revisionRows[r].job = NoJob
      BY <2>1, <3>2, CallsNow DEF RowFits, IsFirst
    <3> QED
      BY <2>1, <3>1, <3>2, <3>3, CallAnswered DEF Answers
  <2>3. CASE Refused(c)
    BY <2>1, <2>3, CallEnds DEF Refused
  <2> QED
    BY <1>3, <2>2, <2>3 DEF ReadCopied
<1> QED
  BY <1>1, <1>2, <1>3

\* The numbers of an artifact.
LEMMA ArtifactsNow ==
    ASSUME RevisionServiceInv, NEW a \in DOMAIN artifactRows
    PROVE  /\ artifactRows[a] \in ArtifactRecords
           /\ artifactRows[a].next \in Nat /\ artifactRows[a].head \in Nat
           /\ LatestNumber(a) \in Nat /\ LatestNumber(a) < artifactRows[a].next
           /\ \A r \in RowsOf(a) :
                 /\ revisionRows[r].number \in Nat
                 /\ revisionRows[r].number <= LatestNumber(a)
<1>1. artifactRows[a] \in ArtifactRecords
  BY LenProperties DEF RevisionServiceInv, ServiceTypeOK
<1>2. Counted(a) /\ ServiceTypeOK
  BY DEF RevisionServiceInv
<1>3. NumbersOf(a) \subseteq Nat
  BY <1>2, NumbersAreNaturals
<1>4. \A r \in RowsOf(a) : revisionRows[r].number \in NumbersOf(a)
  BY DEF NumbersOf
<1> QED
  BY <1>1, <1>2, <1>3, <1>4 DEF ArtifactRecords, Counted

\* The next number of an artifact is above the numbers of its rows.
LEMMA NextIs ==
    ASSUME RevisionServiceInv, NEW a \in DOMAIN artifactRows
    PROVE  NextNumber(a) = artifactRows[a].next
<1>1. artifactRows[a].next \in Nat /\ LatestNumber(a) \in Nat
      /\ LatestNumber(a) < artifactRows[a].next
  BY ArtifactsNow
<1> QED
  BY <1>1, MaxIs DEF NextNumber

\* Reserving a number keeps those of rows and of jobs apart.
LEMMA ReserveStep ==
    ASSUME RevisionServiceInv, NEW a \in DOMAIN artifactRows, ReserveNumber(a)
    PROVE  RevisionServiceInv'
<1> DEFINE n == artifactRows[a].next
<1>1. /\ ServiceTypeOK /\ artifactRows[a] \in ArtifactRecords /\ n \in Nat
      /\ \A b \in DOMAIN artifactRows :
            artifactRows[b] \in ArtifactRecords /\ artifactRows[b].next \in Nat
  BY ArtifactsNow DEF RevisionServiceInv
<1>2. a = 1
  BY DEF ReserveNumber, RevisionServiceInv, RowsOf, RowFits
<1>3. /\ reservations' = reservations \cup {[artifact |-> 1, number |-> n]}
      /\ artifactRows' = [artifactRows EXCEPT ![1].next = n + 1]
      /\ revisionRows' = revisionRows /\ calls' = calls
  BY <1>2, NextIs DEF ReserveNumber
<1>4. /\ artifactRows' \in Seq(ArtifactRecords) /\ DOMAIN artifactRows' = DOMAIN artifactRows
      /\ artifactRows'[1] = [artifactRows[1] EXCEPT !.next = n + 1]
      /\ \A b \in DOMAIN artifactRows \ {1} : artifactRows'[b] = artifactRows[b]
      /\ \A b \in DOMAIN artifactRows : artifactRows'[b] \in ArtifactRecords
  <2>1. [artifactRows[1] EXCEPT !.next = n + 1] \in ArtifactRecords
    BY <1>1, <1>2 DEF ArtifactRecords
  <2> QED
    <3>1. artifactRows \in Seq(ArtifactRecords) /\ 1 \in DOMAIN artifactRows
      BY <1>1, <1>2 DEF ServiceTypeOK
    <3>2. artifactRows'
          = [artifactRows EXCEPT ![1] = [artifactRows[1] EXCEPT !.next = n + 1]]
      BY <1>3, <3>1
    <3>3. /\ artifactRows' \in Seq(ArtifactRecords)
          /\ DOMAIN artifactRows' = DOMAIN artifactRows
      BY <2>1, <3>1, <3>2, ExceptSeq
    <3> QED
      BY <1>1, <2>1, <3>1, <3>2, <3>3
<1>5. /\ artifactRows'[1].key = artifactRows[1].key
      /\ artifactRows'[1].head = artifactRows[1].head /\ artifactRows'[1].next = n + 1
  BY <1>1, <1>2, <1>4 DEF ArtifactRecords
<1>6. \A b : RowsOf(b)' = RowsOf(b) /\ NumbersOf(b)' = NumbersOf(b)
  BY <1>3 DEF RowsOf, NumbersOf
<1>7. ServiceTypeOK'
  BY <1>1, <1>2, <1>3, <1>4 DEF ServiceTypeOK
<1>8. ArtifactsFit'
  <2>1. \A b \in DOMAIN artifactRows' : artifactRows'[b].next > 1
    <3>1. \A b \in DOMAIN artifactRows : artifactRows[b].next > 1
      BY DEF RevisionServiceInv, ArtifactsFit
    <3>2. artifactRows'[1].next > 1
      BY <1>1, <1>2, <1>5, <3>1
    <3> QED
      BY <1>4, <3>1, <3>2
  <2> QED
    BY <1>4, <1>5, <2>1 DEF RevisionServiceInv, ArtifactsFit
<1>9. \A b \in DOMAIN artifactRows' : Counted(b)'
  <2> SUFFICES ASSUME NEW b \in DOMAIN artifactRows PROVE Counted(b)'
    BY <1>4
  <2>1. Counted(b) /\ NumbersOf(b)' = NumbersOf(b)
    BY <1>6 DEF RevisionServiceInv
  <2>2. artifactRows'[b].next >= artifactRows[b].next /\ artifactRows'[b].head = artifactRows[b].head
    <3>1. CASE b = 1
      BY <1>1, <1>2, <1>5, <3>1
    <3>2. CASE b # 1
      BY <1>1, <1>4, <3>2
    <3> QED
      BY <3>1, <3>2
  <2> QED
    BY <1>1, <1>4, <2>1, <2>2, CountStays
<1>10. ReservationsFit'
  <2>2. \A r \in RowsOf(1) : revisionRows[r].number < n /\ revisionRows[r].number \in Nat
    BY <1>1, <1>2, ArtifactsNow
  <2>3. \A i \in reservations : i.number \in Nat
    BY <1>1 DEF ServiceTypeOK
  <2> QED
    BY <1>1, <1>2, <1>3, <1>5, <1>6, <2>2, <2>3 DEF RevisionServiceInv, ReservationsFit
<1>11. Growing
  BY <1>3, <1>4, <1>5 DEF Growing
<1>12. \A r \in DOMAIN revisionRows' : RowFits(r)'
  <2>1. \A b \in DOMAIN artifactRows : artifactRows'[b].key = artifactRows[b].key
    BY <1>11 DEF Growing
  <2> SUFFICES ASSUME NEW r \in DOMAIN revisionRows PROVE RowFits(r)'
    BY <1>3
  <2>2. /\ RowFits(r) /\ revisionRows[r].artifact \in DOMAIN artifactRows
        /\ revisionRows'[r] = revisionRows[r] /\ DOMAIN artifactRows' = DOMAIN artifactRows
    BY <1>3, <1>4 DEF RevisionServiceInv, RowFits
  <2>3. RowsOf(revisionRows[r].artifact)' = RowsOf(revisionRows[r].artifact)
    BY <1>3, <1>6
  <2> QED
    BY <1>3, <2>1, <2>2, <2>3 DEF RowFits, IsFirst, IsKeyed, IsOnly
<1>13. CallsFit'
  <2>1. ASSUME NEW c \in Callers PROVE Knows(calls[c])' /\ Owns(calls[c])'
    <3>1. PICK call : call = calls[c]
      OBVIOUS
    <3>2. Knows(call) /\ Owns(call)
      BY <3>1 DEF RevisionServiceInv, CallsFit
    <3>3. Knows(call)'
      BY <1>11, <3>2, KnowledgeStays DEF RevisionServiceInv, RowFits
    <3>4. Owns(call)'
      BY <1>3, <1>4, <1>6, <3>2 DEF Owns, Knows
    <3> QED
      BY <1>3, <3>1, <3>3, <3>4
  <2> QED
    BY <1>3, <2>1 DEF RevisionServiceInv, CallsFit, Copying
<1> QED
  BY <1>7, <1>8, <1>9, <1>10, <1>12, <1>13 DEF RevisionServiceInv

\* No row is of an artifact that is not there yet.
LEMMA NewArtifactIsEmpty ==
    ASSUME RevisionServiceInv
    PROVE  RowsOf(NewArtifact) = {} /\ NumbersOf(NewArtifact) = {} /\ NewArtifact \in Nat \ {0}
<1>1. NewArtifact \notin DOMAIN artifactRows /\ NewArtifact \in Nat \ {0}
  BY LenProperties DEF RevisionServiceInv, ServiceTypeOK, NewArtifact
<1> QED
  BY <1>1 DEF RevisionServiceInv, RowsOf, NumbersOf, RowFits

\* Artifacts that are neither new nor given a row keep their count.
LEMMA OthersCount ==
    ASSUME RevisionServiceInv, NEW a \in DOMAIN artifactRows, NumbersOf(a)' = NumbersOf(a),
           artifactRows'[a] = artifactRows[a]
    PROVE  Counted(a)'
  BY ArtifactsNow, CountStays DEF RevisionServiceInv

\* A step that inserts a row, given what it does to the artifacts and to its call.
LEMMA InsertStep ==
    ASSUME RevisionServiceInv, NEW c \in Callers, NEW call \in CallRecords, Call(c, call),
           NEW row \in RevisionRecords, RowAdded(row), NewRowFits(row), Growing,
           reservations' = reservations, artifactRows' \in Seq(ArtifactRecords),
           ArtifactsFit', \A a \in DOMAIN artifactRows' : Counted(a)', ReservationsFit',
           Knows(call)', Owns(call)',
           \A d \in Callers \ {c} : Copying(calls[d]) =>
               /\ calls[d].row # row.artifact
               /\ artifactRows'[calls[d].row].head = artifactRows[calls[d].row].head
               /\ Copying(call) => call.row # calls[d].row
    PROVE  RevisionServiceInv'
<1>1. ServiceTypeOK
  BY DEF RevisionServiceInv
<1>2. \A a : a # row.artifact => RowsOf(a)' = RowsOf(a)
  BY <1>1, OtherRowsStay
<1>3. CallsFit' /\ calls' \in [Callers -> CallRecords]
  BY <1>2, CallsMove
<1>4. revisionRows' \in Seq(RevisionRecords)
  BY <1>1, RowsGrow
<1>5. \A r \in DOMAIN revisionRows' : RowFits(r)'
  BY RowsFitGrown
<1> QED
  BY <1>1, <1>3, <1>4, <1>5 DEF RevisionServiceInv, ServiceTypeOK

\* A call whose statement has taken effect is answered with its row, or its answer is lost.
LEMMA FinishedKnows ==
    ASSUME NEW call \in CallRecords, Knows(call), NEW r \in Nat, r \in DOMAIN revisionRows',
           Answers(call, r)',
           NEW end, end = [call EXCEPT !.at = "answered", !.answer = r]
                    \/ end = [call EXCEPT !.at = "lost"]
    PROVE  end \in CallRecords /\ Knows(end)' /\ Owns(end)' /\ ~Copying(end)
<1>1. CASE end = [call EXCEPT !.at = "answered", !.answer = r]
  <2>1. /\ end \in CallRecords /\ end.at = "answered" /\ end.answer = r
        /\ end.op = call.op /\ end.key = call.key /\ end.job = call.job
        /\ end.source = call.source
    BY <1>1 DEF CallRecords, CallStages
  <2> QED
    BY <2>1 DEF Knows, Owns, Copying, Answers
<1>2. CASE end = [call EXCEPT !.at = "lost"]
  <2>1. /\ end \in CallRecords /\ end.at = "lost"
        /\ end.op = call.op /\ end.key = call.key /\ end.job = call.job
        /\ end.source = call.source
    BY <1>2 DEF CallRecords, CallStages
  <2> QED
    BY <2>1 DEF Knows, Owns, Copying
<1> QED
  BY <1>1, <1>2

\* The first revision of a job, in an artifact of its own.
LEMMA CreateStep ==
    ASSUME RevisionServiceInv, NEW c \in Callers, CreateInitial(c), OfJob(calls[c].job) = {}
    PROVE  RevisionServiceInv'
<1> DEFINE artifact == [key |-> Unkeyed, next |-> 2, head |-> 1]
           n == NewArtifact
           row == [artifact |-> n, number |-> 1, parent |-> 0, key |-> Unkeyed,
                   job |-> calls[c].job, verified |-> FALSE, reserved |-> FALSE]
<1>1. /\ ArtifactAdded(artifact) /\ RowAdded(row) /\ reservations' = reservations
      /\ Finishes(c, NewRow)
  BY DEF CreateInitial, ArtifactAdded, RowAdded, Row, NewArtifact, NewRow
<1>2. /\ calls[c] \in CallRecords /\ Knows(calls[c]) /\ calls[c].op = "initial"
      /\ calls[c].key = Unkeyed /\ calls[c].source = 0
      /\ calls[c].job \in FirstJobs /\ calls[c].job # NoJob
  BY CallsNow DEF CreateInitial, Knows, CallRecords
<1>3. ServiceTypeOK /\ n \in Nat \ {0} /\ RowsOf(n) = {} /\ NumbersOf(n) = {}
  BY NewArtifactIsEmpty DEF RevisionServiceInv
<1>4. artifact \in ArtifactRecords /\ row \in RevisionRecords
  BY <1>2, <1>3 DEF ArtifactRecords, RevisionRecords
<1>5. /\ artifactRows' \in Seq(ArtifactRecords) /\ n \notin DOMAIN artifactRows
      /\ DOMAIN artifactRows' = DOMAIN artifactRows \cup {n}
      /\ \A a \in DOMAIN artifactRows : artifactRows'[a] = artifactRows[a]
      /\ artifactRows'[n] = artifact
  BY <1>1, <1>3, <1>4, ArtifactsGrow
<1>6. /\ DOMAIN revisionRows' = DOMAIN revisionRows \cup {NewRow} /\ NewRow \in Nat
      /\ \A r \in DOMAIN revisionRows : revisionRows'[r] = revisionRows[r]
      /\ revisionRows'[NewRow] = row
  BY <1>1, <1>3, <1>4, RowsGrow
<1>7. /\ row.artifact = n /\ row.number = 1 /\ row.parent = 0 /\ row.key = Unkeyed
      /\ row.job = calls[c].job /\ ~row.verified
      /\ artifact.key = Unkeyed /\ artifact.next = 2 /\ artifact.head = 1
  OBVIOUS
<1> HIDE DEF artifact, row, n
<1>8. \A a : /\ a # n => RowsOf(a)' = RowsOf(a) /\ NumbersOf(a)' = NumbersOf(a)
             /\ a = n => NumbersOf(a)' = {1}
  <2> SUFFICES ASSUME NEW a
               PROVE  /\ a # n => RowsOf(a)' = RowsOf(a) /\ NumbersOf(a)' = NumbersOf(a)
                      /\ a = n => NumbersOf(a)' = {1}
    OBVIOUS
  <2>1. CASE a # n
    BY <1>1, <1>3, <1>4, <1>7, <2>1, OtherRowsStay
  <2>2. CASE a = n
    BY <1>1, <1>3, <1>4, <1>7, <2>2, RowsOfGrow
  <2> QED
    BY <2>1, <2>2
<1>9. Growing
  BY <1>5, <1>6 DEF Growing
<1>10. NewRowFits(row)
  <2>1. \A s \in DOMAIN revisionRows : revisionRows[s].job # calls[c].job
    BY DEF OfJob
  <2> QED
    BY <1>2, <1>3, <1>5, <1>7, <2>1 DEF NewRowFits
<1>11. ArtifactsFit'
  BY <1>5, <1>7 DEF RevisionServiceInv, ArtifactsFit
<1>12. \A a \in DOMAIN artifactRows' : Counted(a)'
  <2>1. ASSUME NEW a \in DOMAIN artifactRows PROVE Counted(a)'
    BY <1>5, <1>8, OthersCount
  <2>2. PICK a : a = n
    OBVIOUS
  <2>3. NumbersOf(a)' = {1} /\ LatestNumber(a)' = 1
    <3>1. NumbersOf(a)' = {1}
      BY <1>8, <2>2
    <3> QED
      BY <3>1, MaxIs DEF LatestNumber
  <2>4. Counted(a)'
    <3>1. /\ artifactRows'[a].head = 1 /\ artifactRows'[a].next = 2
      BY <1>5, <1>7, <2>2
    <3> QED
      BY <2>3, <3>1 DEF Counted
  <2>5. DOMAIN artifactRows' \subseteq DOMAIN artifactRows \cup {a}
    BY <1>5, <2>2
  <2> QED
    BY <2>1, <2>4, <2>5
<1>13. ReservationsFit'
  <2>1. 1 \in DOMAIN artifactRows /\ n # 1
    BY <1>5 DEF RevisionServiceInv, ArtifactsFit
  <2>2. /\ artifactRows'[1] = artifactRows[1] /\ RowsOf(1)' = RowsOf(1)
        /\ \A r \in RowsOf(1) : revisionRows'[r] = revisionRows[r]
    <3>1. artifactRows'[1] = artifactRows[1]
      BY <1>5, <2>1
    <3>2. RowsOf(1)' = RowsOf(1)
      BY <1>8, <2>1
    <3>3. \A r \in RowsOf(1) : revisionRows'[r] = revisionRows[r]
      BY <1>6 DEF RowsOf
    <3> QED
      BY <3>1, <3>2, <3>3
  <2> QED
    BY <1>1, <2>2 DEF RevisionServiceInv, ReservationsFit
<1>14. PICK end : /\ Call(c, end)
                  /\ \/ end = [calls[c] EXCEPT !.at = "answered", !.answer = NewRow]
                     \/ end = [calls[c] EXCEPT !.at = "lost"]
  BY <1>1 DEF Finishes, AnswersWith, Goes
<1>15. end \in CallRecords /\ Knows(end)' /\ Owns(end)' /\ ~Copying(end)
  <2>1. PICK call, r : call = calls[c] /\ r = NewRow
    OBVIOUS
  <2>2. Answers(call, r)'
    BY <1>2, <1>6, <1>7, <2>1 DEF Answers
  <2> QED
    BY <1>2, <1>6, <1>14, <2>1, <2>2, FinishedKnows
<1>16. ASSUME NEW d \in Callers \ {c}, Copying(calls[d])
       PROVE  /\ calls[d].row # row.artifact
              /\ artifactRows'[calls[d].row].head = artifactRows[calls[d].row].head
  <2>1. calls[d].row \in DOMAIN artifactRows
    BY <1>16, CallsNow DEF Knows, Copying
  <2> QED
    BY <1>5, <1>7, <2>1
<1> QED
  BY <1>1, <1>4, <1>5, <1>9, <1>10, <1>11, <1>12, <1>13, <1>14, <1>15, <1>16, InsertStep

\* A derived revision takes its reserved number, or the next one that is free.
DerivesFrom(c, n) ==
    /\ calls[c].at = "lock" /\ calls[c].source \in DOMAIN revisionRows
    /\ revisionRows[calls[c].source].artifact = 1
    /\ calls[c].op = "derive" /\ calls[c].job = NoJob
    /\ Keyed(c) = {} /\ n \notin NumbersOf(1)
    /\ IF calls[c].number # 0
       THEN n = calls[c].number /\ n < artifactRows[1].next
       ELSE n = artifactRows[1].next

\* A row with its mark of reservation.
LEMMA RowMarked ==
    ASSUME NEW base \in RevisionRecords, NEW flag \in BOOLEAN,
           NEW row, row = [base EXCEPT !.reserved = flag]
    PROVE  /\ row \in RevisionRecords /\ row.reserved = flag
           /\ row.artifact = base.artifact /\ row.number = base.number
           /\ row.parent = base.parent /\ row.key = base.key /\ row.job = base.job
           /\ row.verified = base.verified
  BY DEF RevisionRecords

\* A derivation inserts its row under the lock of the artifact.
LEMMA DeriveStep ==
    ASSUME RevisionServiceInv, NEW c \in Callers, NEW n, DerivesFrom(c, n),
           NEW reserved \in BOOLEAN, reserved <=> calls[c].number # 0,
           RowAdded([Row(1, n, calls[c].source, calls[c].key, NoJob)
                        EXCEPT !.reserved = reserved]),
           artifactRows' = [artifactRows EXCEPT
                               ![1].next = IF reserved THEN @ ELSE n + 1,
                               ![1].head = IF @ = 0 \/ n > @ THEN n ELSE @],
           reservations' = reservations, Finishes(c, NewRow)
    PROVE  RevisionServiceInv'
<1> DEFINE old == artifactRows[1]
           latest == LatestNumber(1)
           base == Row(1, n, calls[c].source, calls[c].key, NoJob)
           row == [base EXCEPT !.reserved = reserved]
           artifact == [key |-> old.key, next |-> IF reserved THEN old.next ELSE n + 1,
                        head |-> IF n > old.head THEN n ELSE old.head]
<1>1. /\ calls[c] \in CallRecords /\ Knows(calls[c]) /\ ServiceTypeOK
      /\ calls[c].source \in Nat /\ calls[c].key \in CallKeys \cup {Unkeyed}
  BY CallsNow DEF CallRecords
<1>2. 1 \in DOMAIN artifactRows /\ old.key = Unkeyed /\ old.head # 0
  BY DEF RevisionServiceInv, ArtifactsFit
<1>3. /\ old \in ArtifactRecords /\ old.next \in Nat /\ old.head \in Nat /\ latest \in Nat
      /\ latest < old.next /\ old.head = latest
  BY <1>2, ArtifactsNow DEF RevisionServiceInv, Counted
<1>4. n \in Nat /\ n <= old.next
  BY <1>1, <1>3 DEF DerivesFrom, CallRecords
<1>5. artifact \in ArtifactRecords /\ row \in RevisionRecords
  <2>1. artifact \in ArtifactRecords
    BY <1>3, <1>4 DEF ArtifactRecords
  <2>2. base \in RevisionRecords
    BY <1>1, <1>4 DEF RevisionRecords, Row
  <2> HIDE DEF base
  <2> QED
    BY <2>1, <2>2, RowMarked
<1>6. RowAdded(row)
  OBVIOUS
<1>7. artifactRows' = [artifactRows EXCEPT ![1] = artifact]
  <2>1. \A a \in DOMAIN artifactRows : artifactRows'[a] = IF a = 1 THEN artifact ELSE artifactRows[a]
    <3>1. old = [key |-> old.key, next |-> old.next, head |-> old.head]
      BY <1>3 DEF ArtifactRecords
    <3>2. artifactRows'[1] = [[old EXCEPT !.next = IF reserved THEN @ ELSE n + 1]
                                 EXCEPT !.head = IF @ = 0 \/ n > @ THEN n ELSE @]
      BY <1>2
    <3>3. artifactRows'[1] = artifact
      BY <1>2, <3>1, <3>2
    <3>4. \A a \in DOMAIN artifactRows \ {1} : artifactRows'[a] = artifactRows[a]
      BY <1>2
    <3> HIDE DEF artifact, old
    <3> QED
      BY <3>3, <3>4
  <2>2. artifactRows = [a \in DOMAIN artifactRows |-> artifactRows[a]]
    BY <1>1 DEF ServiceTypeOK
  <2>3. DOMAIN artifactRows' = DOMAIN artifactRows
        /\ artifactRows' = [a \in DOMAIN artifactRows |-> artifactRows'[a]]
    BY <2>2
  <2> HIDE DEF artifact, old
  <2> QED
    BY <1>2, <2>1, <2>2, <2>3, ZenonT(60)
<1>8. /\ artifactRows' \in Seq(ArtifactRecords) /\ DOMAIN artifactRows' = DOMAIN artifactRows
      /\ artifactRows'[1] = artifact
      /\ \A a \in DOMAIN artifactRows \ {1} : artifactRows'[a] = artifactRows[a]
  BY <1>1, <1>2, <1>5, <1>7, ExceptSeq DEF ServiceTypeOK
<1>9. /\ DOMAIN revisionRows' = DOMAIN revisionRows \cup {NewRow} /\ NewRow \in Nat
      /\ NewRow \notin DOMAIN revisionRows
      /\ \A r \in DOMAIN revisionRows : revisionRows'[r] = revisionRows[r]
      /\ revisionRows'[NewRow] = row
  BY <1>1, <1>5, <1>6, RowsGrow
<1>10. /\ row.artifact = 1 /\ row.number = n /\ row.parent = calls[c].source
       /\ row.key = calls[c].key /\ row.job = NoJob /\ ~row.verified
       /\ row.reserved = reserved
       /\ artifact.key = Unkeyed /\ artifact.next >= old.next /\ n < artifact.next
       /\ artifact.head = IF n > latest THEN n ELSE latest
       /\ artifact.head # 0
  <2>1. /\ base \in RevisionRecords /\ base.artifact = 1 /\ base.number = n
        /\ base.parent = calls[c].source /\ base.key = calls[c].key /\ base.job = NoJob
        /\ base.verified = FALSE
    BY <1>1, <1>4 DEF RevisionRecords, Row
  <2>2. /\ artifact.key = Unkeyed /\ artifact.next >= old.next /\ n < artifact.next
        /\ artifact.head = IF n > latest THEN n ELSE latest
        /\ artifact.head # 0
    BY <1>2, <1>3, <1>4 DEF DerivesFrom
  <2> HIDE DEF base, artifact
  <2> QED
    BY <2>1, <2>2, RowMarked
<1> HIDE DEF artifact, row
<1>11. /\ \A a : a # 1 => RowsOf(a)' = RowsOf(a) /\ NumbersOf(a)' = NumbersOf(a)
       /\ RowsOf(1)' = RowsOf(1) \cup {NewRow}
       /\ NumbersOf(1)' = NumbersOf(1) \cup {n}
  <2>1. \A a : a # 1 => RowsOf(a)' = RowsOf(a) /\ NumbersOf(a)' = NumbersOf(a)
    BY <1>1, <1>5, <1>6, <1>10, OtherRowsStay
  <2>2. RowsOf(1)' = RowsOf(1) \cup {NewRow} /\ NumbersOf(1)' = NumbersOf(1) \cup {n}
    BY <1>1, <1>5, <1>6, <1>10, RowsOfGrow
  <2> QED
    BY <2>1, <2>2
<1>12. Growing
  BY <1>2, <1>8, <1>9, <1>10 DEF Growing
<1>13. NewRowFits(row)
  <2>1. \A s \in DOMAIN revisionRows : row.key # Unkeyed => revisionRows[s].key # row.key
    <3> SUFFICES ASSUME NEW s \in DOMAIN revisionRows, row.key # Unkeyed,
                        revisionRows[s].key = row.key
                 PROVE  FALSE
      OBVIOUS
    <3>1. revisionRows[s].artifact = 1
      BY CallsNow DEF RowFits, IsKeyed
    <3>2. s \in Keyed(c)
      BY <1>10, <3>1 DEF Keyed, WithKey, RowsOf, DerivesFrom
    <3> QED
      BY <3>2 DEF DerivesFrom
  <2> QED
    BY <1>2, <1>8, <1>10, <2>1 DEF NewRowFits
<1>14. ArtifactsFit'
  <2>1. \A a \in DOMAIN artifactRows : artifactRows'[a].key = artifactRows[a].key
    BY <1>12 DEF Growing
  <2>2. \A a \in DOMAIN artifactRows' : artifactRows'[a].next > 1
    <3>1. artifactRows'[1].next > 1
      <4>1. artifact.next \in Nat /\ old.next > 1
        BY <1>2, <1>5 DEF ArtifactRecords, RevisionServiceInv, ArtifactsFit
      <4>2. artifact.next >= old.next
        BY <1>10
      <4>3. artifactRows'[1].next = artifact.next
        BY <1>8
      <4> QED
        BY <1>3, <4>1, <4>2, <4>3
    <3> QED
      BY <1>8, <3>1 DEF RevisionServiceInv, ArtifactsFit
  <2> QED
    BY <1>2, <1>8, <1>10, <2>1, <2>2 DEF RevisionServiceInv, ArtifactsFit
<1>15. \A a \in DOMAIN artifactRows' : Counted(a)'
  <2>1. ASSUME NEW a \in DOMAIN artifactRows, a # 1 PROVE Counted(a)'
    BY <1>8, <1>11, <2>1, OthersCount
  <2>2. PICK a : a = 1
    OBVIOUS
  <2>3. /\ Counted(a) /\ NumbersOf(a)' = NumbersOf(a) \cup {n}
        /\ artifactRows[a] \in ArtifactRecords /\ artifactRows'[a] \in ArtifactRecords
        /\ artifactRows'[a].next >= artifactRows[a].next /\ n < artifactRows'[a].next
        /\ artifactRows'[a].head = IF n > LatestNumber(a) THEN n ELSE LatestNumber(a)
    BY <1>2, <1>3, <1>5, <1>8, <1>10, <1>11, <2>2 DEF RevisionServiceInv
  <2>4. Counted(a)'
    BY <1>1, <1>4, <2>3, CountGrows
  <2> QED
    BY <1>8, <2>1, <2>2, <2>4
<1>16. ReservationsFit'
  <2> SUFFICES ASSUME NEW i \in reservations
               PROVE  /\ i.artifact = 1 /\ i.number < artifactRows'[1].next
                      /\ \A r \in RowsOf(1)' : revisionRows'[r].number = i.number =>
                                                   revisionRows'[r].reserved
    BY DEF ReservationsFit
  <2>1. /\ i.artifact = 1 /\ i.number < old.next /\ i.number \in Nat
        /\ \A r \in RowsOf(1) : revisionRows[r].number = i.number => revisionRows[r].reserved
    BY <1>1 DEF RevisionServiceInv, ReservationsFit, ServiceTypeOK
  <2>2. i.number < artifactRows'[1].next
    <3>1. artifact.next \in Nat /\ artifactRows'[1].next = artifact.next
      BY <1>5, <1>8 DEF ArtifactRecords
    <3> QED
      BY <1>3, <1>10, <2>1, <3>1
  <2>3. n = i.number => row.reserved
    <3>1. CASE reserved
      BY <1>10, <3>1
    <3>2. CASE ~reserved
      <4>1. n = old.next
        BY <3>2 DEF DerivesFrom
      <4> QED
        BY <1>3, <2>1, <4>1
    <3> QED
      BY <3>1, <3>2
  <2>4. \A r \in RowsOf(1) : revisionRows'[r] = revisionRows[r]
    BY <1>9 DEF RowsOf
  <2> QED
    BY <1>9, <1>10, <1>11, <2>1, <2>2, <2>3, <2>4
<1>17. PICK end : /\ Call(c, end)
                  /\ \/ end = [calls[c] EXCEPT !.at = "answered", !.answer = NewRow]
                     \/ end = [calls[c] EXCEPT !.at = "lost"]
  BY DEF Finishes, AnswersWith, Goes
<1>18. end \in CallRecords /\ Knows(end)' /\ Owns(end)' /\ ~Copying(end)
  <2>1. PICK call, r : call = calls[c] /\ r = NewRow
    OBVIOUS
  <2>2. Answers(call, r)'
    BY <1>9, <1>10, <2>1 DEF Answers, DerivesFrom
  <2> QED
    BY <1>1, <1>9, <1>17, <2>1, <2>2, FinishedKnows
<1>19. ASSUME NEW d \in Callers \ {c}, Copying(calls[d])
       PROVE  /\ calls[d].row # row.artifact
              /\ artifactRows'[calls[d].row].head = artifactRows[calls[d].row].head
  <2>1. calls[d].row \in DOMAIN artifactRows \ {1}
    BY <1>19, CallsNow DEF Knows, Copying
  <2> QED
    BY <1>8, <1>10, <2>1
<1>20. reservations' = reservations
  OBVIOUS
<1>21. \A d \in Callers \ {c} : Copying(calls[d]) =>
          /\ calls[d].row # row.artifact
          /\ artifactRows'[calls[d].row].head = artifactRows[calls[d].row].head
          /\ Copying(end) => end.row # calls[d].row
  BY <1>18, <1>19
<1>22. row \in RevisionRecords /\ artifactRows' \in Seq(ArtifactRecords) /\ Call(c, end)
  BY <1>5, <1>8, <1>17
<1> HIDE DEF old, latest
<1> QED
  BY <1>20, <1>21, <1>22, <1>5, <1>6, <1>8, <1>12, <1>13, <1>14, <1>15, <1>16, <1>17, <1>18,
     <1>19, InsertStep

\* A step that changes artifacts and a call, and no row.
LEMMA ArtifactStep ==
    ASSUME RevisionServiceInv, NEW c \in Callers, NEW call \in CallRecords, Call(c, call),
           revisionRows' = revisionRows, reservations' = reservations, Growing,
           artifactRows' \in Seq(ArtifactRecords), ArtifactsFit',
           \A a \in DOMAIN artifactRows' : Counted(a)',
           artifactRows'[1] = artifactRows[1], Knows(call)', Owns(call)',
           \A d \in Callers \ {c} : Copying(calls[d]) =>
               /\ artifactRows'[calls[d].row].head = artifactRows[calls[d].row].head
               /\ Copying(call) => call.row # calls[d].row
    PROVE  RevisionServiceInv'
<1>1. \A a : RowsOf(a)' = RowsOf(a)
  BY DEF RowsOf
<1>2. CallsFit' /\ calls' \in [Callers -> CallRecords]
  BY <1>1, CallsMove
<1>3. ServiceTypeOK' /\ ReservationsFit'
  BY <1>1, <1>2 DEF RevisionServiceInv, ServiceTypeOK, ReservationsFit
<1>4. \A r \in DOMAIN revisionRows' : RowFits(r)'
  <2> SUFFICES ASSUME NEW r \in DOMAIN revisionRows PROVE RowFits(r)'
    OBVIOUS
  <2>1. /\ RowFits(r) /\ revisionRows[r].artifact \in DOMAIN artifactRows
        /\ revisionRows[r].artifact \in DOMAIN artifactRows'
        /\ artifactRows'[revisionRows[r].artifact].key = artifactRows[revisionRows[r].artifact].key
    BY DEF RevisionServiceInv, RowFits, Growing
  <2>2. RowsOf(revisionRows[r].artifact)' = RowsOf(revisionRows[r].artifact)
    BY <1>1
  <2> QED
    BY <2>1, <2>2 DEF RowFits, IsFirst, IsKeyed, IsOnly
<1> QED
  BY <1>2, <1>3, <1>4 DEF RevisionServiceInv

\* The artifact of a copy is inserted when its key has made none.
LEMMA InsertCopyStep ==
    ASSUME RevisionServiceInv, NEW c \in Callers, InsertCopy(c), CreatedWith(calls[c].key) = {}
    PROVE  RevisionServiceInv'
<1> DEFINE artifact == [key |-> calls[c].key, next |-> 2, head |-> 0]
           n == NewArtifact
           call == [calls[c] EXCEPT !.at = "fill", !.row = n]
<1>1. /\ ArtifactAdded(artifact) /\ Call(c, call)
      /\ revisionRows' = revisionRows /\ reservations' = reservations
  BY DEF InsertCopy, ArtifactAdded, NewArtifact
<1>2. /\ calls[c] \in CallRecords /\ calls[c].op = "copy" /\ calls[c].job = NoJob
      /\ calls[c].key \in CallKeys \cup {Unkeyed} /\ ServiceTypeOK
  BY CallsNow DEF InsertCopy, Knows, CallRecords
<1>3. n \in Nat \ {0} /\ RowsOf(n) = {} /\ NumbersOf(n) = {}
  BY NewArtifactIsEmpty
<1>4. artifact \in ArtifactRecords
  BY <1>2 DEF ArtifactRecords
<1>5. /\ artifactRows' \in Seq(ArtifactRecords) /\ n \notin DOMAIN artifactRows
      /\ DOMAIN artifactRows' = DOMAIN artifactRows \cup {n}
      /\ \A a \in DOMAIN artifactRows : artifactRows'[a] = artifactRows[a]
      /\ artifactRows'[n] = artifact
  BY <1>1, <1>2, <1>4, ArtifactsGrow
<1>6. artifact.key = calls[c].key /\ artifact.next = 2 /\ artifact.head = 0
  OBVIOUS
<1>7. /\ call \in CallRecords /\ call.at = "fill" /\ call.op = "copy" /\ call.row = n
      /\ call.job = NoJob /\ call.key = calls[c].key
  BY <1>2, <1>3 DEF CallRecords, CallStages
<1> HIDE DEF artifact, n, call
<1>8. 1 \in DOMAIN artifactRows /\ n # 1 /\ artifactRows'[1] = artifactRows[1]
  BY <1>5 DEF RevisionServiceInv, ArtifactsFit
<1>9. ArtifactsFit'
  <2>1. \A a \in DOMAIN artifactRows : calls[c].key # Unkeyed => artifactRows[a].key # calls[c].key
    BY DEF CreatedWith
  <2> QED
    BY <1>5, <1>6, <1>8, <2>1 DEF RevisionServiceInv, ArtifactsFit
<1>10. \A a : RowsOf(a)' = RowsOf(a) /\ NumbersOf(a)' = NumbersOf(a)
  BY <1>1 DEF RowsOf, NumbersOf
<1>11. \A a \in DOMAIN artifactRows' : Counted(a)'
  <2>1. ASSUME NEW a \in DOMAIN artifactRows PROVE Counted(a)'
    BY <1>5, <1>10, OthersCount
  <2>2. PICK a : a = n
    OBVIOUS
  <2>3. NumbersOf(a)' = {}
    BY <1>3, <1>10, <2>2
  <2>4. LatestNumber(a)' = 0
    BY <2>3, MaxIs DEF LatestNumber
  <2>5. Counted(a)'
    BY <1>5, <1>6, <2>2, <2>3, <2>4 DEF Counted
  <2> QED
    BY <1>5, <2>1, <2>2, <2>5
<1>12. Growing
  BY <1>1, <1>5 DEF Growing
<1>13. PICK to : to = call
  OBVIOUS
<1>14. Knows(to)'
  BY <1>5, <1>6, <1>7, <1>8, <1>13 DEF Knows
<1>15. Owns(to)'
  BY <1>3, <1>5, <1>6, <1>7, <1>10, <1>13 DEF Owns
<1>16. ASSUME NEW d \in Callers \ {c}, Copying(calls[d])
       PROVE  /\ artifactRows'[calls[d].row].head = artifactRows[calls[d].row].head
              /\ to.row # calls[d].row
  <2>1. calls[d].row \in DOMAIN artifactRows
    BY <1>16, CallsNow DEF Knows, Copying
  <2> QED
    BY <1>5, <1>7, <1>13, <2>1
<1> QED
  BY <1>1, <1>5, <1>7, <1>8, <1>9, <1>11, <1>12, <1>13, <1>14, <1>15, <1>16, ArtifactStep

\* A call that copies is alone with its artifact, which is not the first.
LEMMA CopyingNow ==
    ASSUME RevisionServiceInv, NEW c \in Callers, Copying(calls[c])
    PROVE  /\ calls[c] \in CallRecords /\ Owns(calls[c]) /\ Knows(calls[c])
           /\ calls[c].op = "copy" /\ calls[c].job = NoJob
           /\ calls[c].row \in DOMAIN artifactRows \ {1} /\ calls[c].row \in Nat
           /\ artifactRows[calls[c].row].key = calls[c].key
           /\ \A d \in Callers \ {c} : Copying(calls[d]) => calls[d].row # calls[c].row
<1>1. CallsFit
  BY DEF RevisionServiceInv
<1> QED
  BY <1>1, CallsNow DEF CallsFit, Knows, Copying

\* Its only revision has the number 1.
LEMMA FillCopyStep ==
    ASSUME RevisionServiceInv, NEW c \in Callers, FillCopy(c)
    PROVE  RevisionServiceInv'
<1> DEFINE row == [artifact |-> calls[c].row, number |-> 1, parent |-> calls[c].source,
                   key |-> Unkeyed, job |-> NoJob, verified |-> FALSE, reserved |-> FALSE]
           call == [calls[c] EXCEPT !.at = "point", !.answer = NewRow]
<1>1. /\ RowAdded(row) /\ Call(c, call)
      /\ artifactRows' = artifactRows /\ reservations' = reservations
  BY DEF FillCopy, RowAdded, Row, NewRow
<1>2. Copying(calls[c]) /\ calls[c].at = "fill"
  BY DEF FillCopy, Copying
<1>3. PICK a : a = calls[c].row
  OBVIOUS
<1>4. /\ calls[c] \in CallRecords /\ calls[c].op = "copy" /\ calls[c].job = NoJob
      /\ a \in DOMAIN artifactRows \ {1} /\ a \in Nat /\ calls[c].source \in Nat
      /\ artifactRows[a].key = calls[c].key
      /\ RowsOf(a) = {} /\ artifactRows[a].head = 0
      /\ \A d \in Callers \ {c} : Copying(calls[d]) => calls[d].row # a
  BY <1>2, <1>3, CopyingNow DEF CallRecords, Owns
<1>5. row \in RevisionRecords
  BY <1>3, <1>4 DEF RevisionRecords
<1>6. ServiceTypeOK
  BY DEF RevisionServiceInv
<1>7. /\ DOMAIN revisionRows' = DOMAIN revisionRows \cup {NewRow} /\ NewRow \in Nat
      /\ \A r \in DOMAIN revisionRows : revisionRows'[r] = revisionRows[r]
      /\ revisionRows'[NewRow] = row
  BY <1>1, <1>5, <1>6, RowsGrow
<1>8. /\ row.artifact = a /\ row.number = 1 /\ row.parent = calls[c].source
      /\ row.key = Unkeyed /\ row.job = NoJob /\ ~row.verified
  BY <1>3
<1>9. /\ call \in CallRecords /\ call.at = "point" /\ call.op = "copy" /\ call.row = a
      /\ call.job = NoJob /\ call.key = calls[c].key /\ call.answer = NewRow
      /\ call.source = calls[c].source
  BY <1>3, <1>4, <1>7 DEF CallRecords, CallStages
<1> HIDE DEF row, call
<1>10. /\ \A b : b # a => RowsOf(b)' = RowsOf(b) /\ NumbersOf(b)' = NumbersOf(b)
       /\ RowsOf(a)' = {NewRow} /\ NumbersOf(a)' = NumbersOf(a) \cup {1}
  <2>1. \A b : b # a => RowsOf(b)' = RowsOf(b) /\ NumbersOf(b)' = NumbersOf(b)
    BY <1>1, <1>5, <1>6, <1>8, OtherRowsStay
  <2>2. RowsOf(a)' = {NewRow} /\ NumbersOf(a)' = NumbersOf(a) \cup {1}
    BY <1>1, <1>4, <1>5, <1>6, <1>8, RowsOfGrow
  <2> QED
    BY <2>1, <2>2
<1>11. Growing /\ ArtifactsFit' /\ artifactRows' \in Seq(ArtifactRecords)
  BY <1>1, <1>6, <1>7 DEF Growing, RevisionServiceInv, ArtifactsFit, ServiceTypeOK
<1>12. NewRowFits(row)
  BY <1>1, <1>4, <1>8 DEF NewRowFits
<1>13. \A b \in DOMAIN artifactRows' : Counted(b)'
  <2>1. ASSUME NEW b \in DOMAIN artifactRows, b # a PROVE Counted(b)'
    BY <1>1, <1>10, <2>1, OthersCount
  <2>2. /\ Counted(a) /\ artifactRows[a] \in ArtifactRecords
        /\ artifactRows[a].next \in Nat /\ artifactRows[a].next > 1
    BY <1>4, ArtifactsNow DEF RevisionServiceInv, ArtifactsFit
  <2>3. Counted(a)'
    BY <1>1, <1>4, <1>6, <1>10, <2>2, CountGrows
  <2> QED
    BY <1>1, <2>1, <2>3
<1>14. ReservationsFit'
  <2>1. /\ artifactRows'[1] = artifactRows[1] /\ RowsOf(1)' = RowsOf(1)
        /\ \A r \in RowsOf(1) : revisionRows'[r] = revisionRows[r]
    BY <1>1, <1>4, <1>7, <1>10 DEF RowsOf
  <2> QED
    BY <1>1, <2>1 DEF RevisionServiceInv, ReservationsFit
<1>15. PICK to : to = call
  OBVIOUS
<1>16. Knows(to)'
  BY <1>1, <1>4, <1>7, <1>8, <1>9, <1>15 DEF Knows
<1>17. Owns(to)'
  BY <1>7, <1>8, <1>9, <1>10, <1>15 DEF Owns
<1> QED
  BY <1>1, <1>4, <1>5, <1>8, <1>9, <1>11, <1>12, <1>13, <1>14, <1>15, <1>16, <1>17, InsertStep

\* The head of a copy is its only revision.
LEMMA PointCopyStep ==
    ASSUME RevisionServiceInv, NEW c \in Callers, PointCopy(c)
    PROVE  RevisionServiceInv'
<1>1. Copying(calls[c]) /\ calls[c].at = "point"
  BY DEF PointCopy, Copying
<1>2. PICK a, r : a = calls[c].row /\ r = calls[c].answer
  OBVIOUS
<1>3. /\ calls[c] \in CallRecords /\ calls[c].op = "copy" /\ calls[c].job = NoJob
      /\ a \in DOMAIN artifactRows \ {1} /\ a \in Nat /\ artifactRows[a].key = calls[c].key
      /\ r \in DOMAIN revisionRows /\ r \in Nat /\ revisionRows[r].parent = calls[c].source
      /\ revisionRows[r].job = NoJob /\ revisionRows[r].number = 1 /\ RowsOf(a) = {r}
      /\ \A d \in Callers \ {c} : Copying(calls[d]) => calls[d].row # a
  BY <1>1, <1>2, CopyingNow DEF CallRecords, Owns, Knows
<1>4. revisionRows[r].artifact = a
  BY <1>3 DEF RowsOf
<1>5. artifactRows[a] \in ArtifactRecords /\ Counted(a) /\ ServiceTypeOK
  BY <1>3, ArtifactsNow DEF RevisionServiceInv
<1> DEFINE artifact == [artifactRows[a] EXCEPT !.head = 1]
<1>6. /\ artifact \in ArtifactRecords /\ artifact.key = artifactRows[a].key
      /\ artifact.next = artifactRows[a].next /\ artifact.head = 1
  BY <1>5 DEF ArtifactRecords
<1>7. /\ artifactRows' = [artifactRows EXCEPT ![a] = artifact] /\ Finishes(c, r)
      /\ revisionRows' = revisionRows /\ reservations' = reservations
  BY <1>2 DEF PointCopy
<1> HIDE DEF artifact
<1>8. /\ artifactRows' \in Seq(ArtifactRecords) /\ DOMAIN artifactRows' = DOMAIN artifactRows
      /\ artifactRows'[a] = artifact
      /\ \A b \in DOMAIN artifactRows \ {a} : artifactRows'[b] = artifactRows[b]
  BY <1>3, <1>5, <1>6, <1>7, ExceptSeq DEF ServiceTypeOK
<1>9. 1 \in DOMAIN artifactRows /\ artifactRows'[1] = artifactRows[1]
  BY <1>3, <1>8 DEF RevisionServiceInv, ArtifactsFit
<1>10. \A b : RowsOf(b)' = RowsOf(b) /\ NumbersOf(b)' = NumbersOf(b)
  BY <1>7 DEF RowsOf, NumbersOf
<1>11. \A b \in DOMAIN artifactRows : artifactRows'[b].key = artifactRows[b].key
  BY <1>6, <1>8
<1>12. ArtifactsFit'
  <2>1. \A b \in DOMAIN artifactRows : artifactRows'[b].next = artifactRows[b].next
    BY <1>6, <1>8
  <2> QED
    BY <1>8, <1>9, <1>11, <2>1 DEF RevisionServiceInv, ArtifactsFit
<1>13. \A b \in DOMAIN artifactRows' : Counted(b)'
  <2>1. ASSUME NEW b \in DOMAIN artifactRows, b # a PROVE Counted(b)'
    BY <1>8, <1>10, <2>1, OthersCount
  <2>2. LatestNumber(a) = 1
    <3>1. NumbersOf(a) = {1}
      BY <1>3 DEF NumbersOf
    <3> QED
      BY <3>1, MaxIs DEF LatestNumber
  <2>3. artifactRows[a].next \in Nat
    BY <1>5 DEF ArtifactRecords
  <2>4. Counted(a)'
    BY <1>5, <1>6, <1>8, <1>10, <2>2, <2>3, CountStays
  <2> QED
    BY <1>8, <2>1, <2>4
<1>14. Growing
  BY <1>7, <1>8, <1>11 DEF Growing
<1>15. PICK end : /\ Call(c, end)
                  /\ \/ end = [calls[c] EXCEPT !.at = "answered", !.answer = r]
                     \/ end = [calls[c] EXCEPT !.at = "lost"]
  BY <1>7 DEF Finishes, AnswersWith, Goes
<1>16. end \in CallRecords /\ Knows(end)' /\ Owns(end)' /\ ~Copying(end)
  <2>1. PICK call : call = calls[c]
    OBVIOUS
  <2>2. Answers(call, r)'
    BY <1>3, <1>4, <1>7, <1>11, <2>1 DEF Answers
  <2>3. Knows(call)
    BY <2>1, CallsNow
  <2> QED
    BY <1>3, <1>7, <1>15, <2>1, <2>2, <2>3, FinishedKnows
<1>17. ASSUME NEW d \in Callers \ {c}, Copying(calls[d])
       PROVE  artifactRows'[calls[d].row].head = artifactRows[calls[d].row].head
  <2>1. calls[d].row \in DOMAIN artifactRows
    BY <1>17, CallsNow DEF Knows, Copying
  <2> QED
    BY <1>3, <1>8, <1>17, <2>1
<1> QED
  BY <1>7, <1>8, <1>9, <1>12, <1>13, <1>14, <1>15, <1>16, <1>17, ArtifactStep

\* A derivation repeats its key, is refused, or inserts its row.
LEMMA DeriveCase ==
    ASSUME RevisionServiceInv, NEW c \in Callers, Derive(c)
    PROVE  RevisionServiceInv'
<1>1. /\ calls[c].at = "lock" /\ calls[c].op = "derive" /\ calls[c].job = NoJob
      /\ calls[c].source \in DOMAIN revisionRows
      /\ revisionRows[calls[c].source].artifact = 1
  BY CallsNow DEF Derive, Knows, Freezes, RowFits
<1>2. 1 \in DOMAIN artifactRows
  BY DEF RevisionServiceInv, ArtifactsFit
<1>3. PICK reserved \in BOOLEAN : reserved <=> calls[c].number # 0
  <2>1. CASE calls[c].number # 0
    BY <2>1
  <2>2. CASE calls[c].number = 0
    BY <2>2
  <2> QED
    BY <2>1, <2>2
<1>4. PICK n : n = IF reserved THEN calls[c].number ELSE NextNumber(1)
  OBVIOUS
<1>5. n = IF reserved THEN calls[c].number ELSE artifactRows[1].next
  BY <1>2, <1>4, NextIs
<1> DEFINE refused == \/ reserved /\ [artifact |-> 1, number |-> n] \notin reservations
                      \/ reserved /\ n >= artifactRows[1].next
                      \/ n \in NumbersOf(1)
<1>6. CASE Keyed(c) # {}
  <2>1. Repeats(c) /\ RowsStay
    BY <1>6 DEF Derive
  <2> QED
    BY <1>1, <1>6, <2>1, RepeatSteps
<1>7. CASE Keyed(c) = {} /\ refused
  <2>1. Refused(c) /\ RowsStay
    BY <1>1, <1>3, <1>4, <1>7 DEF Derive
  <2> QED
    BY <2>1, CallEnds DEF Refused
<1>8. CASE Keyed(c) = {} /\ ~refused
  <2>1. /\ artifactRows' = [artifactRows EXCEPT
                               ![1].next = IF reserved THEN @ ELSE n + 1,
                               ![1].head = IF @ = 0 \/ n > @ THEN n ELSE @]
        /\ RowAdded([Row(1, n, calls[c].source, calls[c].key, NoJob)
                        EXCEPT !.reserved = reserved])
        /\ Finishes(c, NewRow) /\ reservations' = reservations
    BY <1>1, <1>3, <1>4, <1>8 DEF Derive, RowAdded, NewRow
  <2>2. reserved => n = calls[c].number /\ n < artifactRows[1].next
    <3>1. artifactRows[1].next \in Nat
      BY <1>2, ArtifactsNow
    <3>2. calls[c].number \in Nat
      BY CallsNow DEF CallRecords
    <3> QED
      BY <1>5, <1>8, <3>1, <3>2
  <2>3. DerivesFrom(c, n)
    BY <1>1, <1>3, <1>4, <1>5, <1>8, <2>2 DEF DerivesFrom
  <2> HIDE DEF refused
  <2> QED
    BY <1>3, <1>4, <2>1, <2>3, DeriveStep
<1> QED
  BY <1>6, <1>7, <1>8

\* Each step keeps the invariant.
LEMMA ServiceStep ==
    RevisionServiceInv /\ [RevisionServiceNext]_revisionServiceVars => RevisionServiceInv'
<1> SUFFICES ASSUME RevisionServiceInv, [RevisionServiceNext]_revisionServiceVars
             PROVE  RevisionServiceInv'
  OBVIOUS
<1>1. CASE UNCHANGED revisionServiceVars
  <2>1. /\ artifactRows' = artifactRows /\ revisionRows' = revisionRows
        /\ reservations' = reservations /\ calls' = calls
    BY <1>1 DEF revisionServiceVars
  <2>2. /\ \A a : RowsOf(a)' = RowsOf(a) /\ NumbersOf(a)' = NumbersOf(a)
        /\ \A a : LatestNumber(a)' = LatestNumber(a)
    BY <2>1 DEF RowsOf, NumbersOf, LatestNumber
  <2>3. ServiceTypeOK' /\ ArtifactsFit' /\ ReservationsFit'
    BY <2>1, <2>2 DEF RevisionServiceInv, ServiceTypeOK, ArtifactsFit, ReservationsFit
  <2>4. \A a \in DOMAIN artifactRows' : Counted(a)'
    BY <2>1, <2>2 DEF RevisionServiceInv, Counted
  <2>5. \A r \in DOMAIN revisionRows' : RowFits(r)'
    BY <2>1, <2>2 DEF RevisionServiceInv, RowFits, IsFirst, IsKeyed, IsOnly
  <2>6. CallsFit'
    <3>1. ASSUME NEW c \in Callers PROVE Knows(calls[c])' /\ Owns(calls[c])'
      BY <2>1, <2>2 DEF RevisionServiceInv, CallsFit, Knows, Owns, Freezes
    <3> QED
      BY <2>1, <3>1 DEF RevisionServiceInv, CallsFit, Copying
  <2> QED
    BY <2>3, <2>4, <2>5, <2>6 DEF RevisionServiceInv
<1>2. CASE \E a \in DOMAIN artifactRows : ReserveNumber(a)
  BY <1>2, ReserveStep
<1>3. ASSUME NEW c \in Callers, GivesUp(c) PROVE RevisionServiceInv'
  BY <1>3, CallEnds DEF GivesUp
<1>4. ASSUME NEW c \in Callers, (\E job \in FirstJobs : CallInitial(c, job))
      PROVE RevisionServiceInv'
  BY <1>4, InitialSteps
<1>5. ASSUME NEW c \in Callers, RecheckJob(c) PROVE RevisionServiceInv'
  <2>1. calls[c].job \in FirstJobs
    BY <1>5, CallsNow DEF RecheckJob, Knows, CallRecords
  <2> QED
    BY <1>5, <2>1, InitialSteps
<1>6. ASSUME NEW c \in Callers, CreateInitial(c) PROVE RevisionServiceInv'
  <2>1. CASE OfJob(calls[c].job) = {}
    BY <1>6, <2>1, CreateStep
  <2>2. CASE OfJob(calls[c].job) # {}
    <3>1. Refused(c) /\ RowsStay
      BY <1>6, <2>2 DEF CreateInitial
    <3> QED
      BY <3>1, CallEnds DEF Refused
  <2> QED
    BY <2>1, <2>2
<1>7. ASSUME NEW c \in Callers,
             \/ \E origin \in DOMAIN revisionRows, key \in CallKeys \cup {Unkeyed},
                   n \in {0} \cup {i.number : i \in reservations} : CallDerive(c, origin, key, n)
             \/ \E origin \in DOMAIN revisionRows, key \in CallKeys \cup {Unkeyed} :
                   CallCopy(c, origin, key)
      PROVE  RevisionServiceInv'
  BY <1>7, BeginSteps
<1>8. ASSUME NEW c \in Callers, FindKey(c) \/ FindCopy(c) \/ ReadCopied(c)
      PROVE  RevisionServiceInv'
  BY <1>8, FindSteps
<1>9. ASSUME NEW c \in Callers, InsertCopy(c) PROVE RevisionServiceInv'
  <2>1. CASE CreatedWith(calls[c].key) = {}
    BY <1>9, <2>1, InsertCopyStep
  <2>2. CASE CreatedWith(calls[c].key) # {}
    <3>1. Refused(c) /\ RowsStay
      BY <1>9, <2>2 DEF InsertCopy
    <3> QED
      BY <3>1, CallEnds DEF Refused
  <2> QED
    BY <2>1, <2>2
<1> QED
  BY <1>1, <1>2, <1>3, <1>4, <1>5, <1>6, <1>7, <1>8, <1>9, DeriveCase, FillCopyStep, PointCopyStep
  DEF RevisionServiceNext

\* The invariant holds in every state.
THEOREM RevisionServiceInvariance == RevisionServiceSpec => []RevisionServiceInv
  BY ServiceStart, ServiceStep, PTL DEF RevisionServiceSpec

\* What two answered calls have of the same request is the same row.
LEMMA SameRow ==
    ASSUME RevisionServiceInv, NEW c \in Callers, NEW d \in Callers,
           calls[c].at = "answered", calls[d].at = "answered", calls[d].op = calls[c].op,
           calls[c].key # Unkeyed \/ calls[c].op = "initial",
           calls[d].key = calls[c].key, calls[d].job = calls[c].job
    PROVE  calls[d].answer = calls[c].answer
<1>1. PICK x, y, r, s : x = calls[c] /\ y = calls[d] /\ r = x.answer /\ s = y.answer
  OBVIOUS
<1>2. /\ r \in DOMAIN revisionRows /\ s \in DOMAIN revisionRows /\ RowFits(r) /\ RowFits(s)
      /\ revisionRows[r].job = x.job /\ revisionRows[s].job = x.job
      /\ Knows(x) /\ Knows(y) /\ x.op \in {"initial", "derive", "copy"}
  BY <1>1, CallsNow DEF Knows
<1>3. CASE x.op = "initial"
  BY <1>1, <1>2, <1>3 DEF Knows, RowFits, IsFirst
<1>4. CASE x.op = "derive"
  <2>1. revisionRows[r].key = x.key /\ revisionRows[s].key = x.key /\ x.key # Unkeyed
    BY <1>1, <1>2, <1>4 DEF Knows
  <2> QED
    BY <1>1, <1>2, <2>1 DEF RowFits, IsKeyed
<1>5. CASE x.op = "copy"
  <2> DEFINE a == revisionRows[r].artifact
             b == revisionRows[s].artifact
  <2>1. artifactRows[a].key = x.key /\ artifactRows[b].key = x.key /\ x.key # Unkeyed
    BY <1>1, <1>2, <1>5 DEF Knows
  <2>2. a \in DOMAIN artifactRows /\ b \in DOMAIN artifactRows
    BY <1>2 DEF RowFits
  <2>3. a = b
    BY <2>1, <2>2 DEF RevisionServiceInv, ArtifactsFit
  <2>4. s \in RowsOf(a)
    BY <1>2, <2>3 DEF RowsOf
  <2> QED
    BY <1>1, <1>2, <2>1, <2>4 DEF RowFits, IsOnly
<1> QED
  BY <1>2, <1>3, <1>4, <1>5

\* Artifacts keep their numbers and their head, and a call that is answered gets a revision
\* of what it asked for, the same as every call it repeats (RevisionsAreCounted).
THEOREM RevisionsCounted == RevisionServiceSpec => []RevisionsAreCounted
<1>1. RevisionServiceInv => NumbersAreKept
  <2> SUFFICES ASSUME RevisionServiceInv, NEW a \in DOMAIN artifactRows
               PROVE  /\ artifactRows[a].head \in {0, LatestNumber(a)}
                      /\ LatestNumber(a) < artifactRows[a].next
                      /\ \A i \in reservations : i.artifact = a =>
                            \A r \in RowsOf(a) : revisionRows[r].number = i.number =>
                                                     revisionRows[r].reserved
    BY DEF NumbersAreKept
  <2> QED
    BY DEF RevisionServiceInv, Counted, ReservationsFit
<1>2. RevisionServiceInv => RepeatsAgree
  <2> SUFFICES ASSUME RevisionServiceInv, NEW c \in Callers, calls[c].at = "answered"
               PROVE  /\ revisionRows[calls[c].answer].parent = calls[c].source
                      /\ revisionRows[calls[c].answer].job = calls[c].job
    BY SameRow DEF RepeatsAgree
  <2> QED
    BY CallsNow DEF Knows
<1> QED
  BY <1>1, <1>2, RevisionServiceInvariance, PTL DEF RevisionsAreCounted

\* Requests that repeat one another are answered alike, whether they make jobs, with their
\* conversations, or revisions, with their artifacts (RepeatedCallsAgree).
THEOREM RepeatedCalls == JobEnqueueSpec /\ RevisionServiceSpec => []RepeatedCallsAgree
  BY RepeatedRequestsAgree, RevisionsCounted, PTL DEF RepeatedCallsAgree
-----------------------------------------------------------------------------
(* RevisionReview: its invariants hold, nothing changes while the lifecycle is    *)
(* read-only, and it implements ReviewPolicy.                                     *)

Statuses == {"none", "draft", "in_review", "approved", "changes_requested", "archived"}
ReviewRow == [revision : Revisions, cycle : 1 .. MaxReviews, action : {"submitted", "approved", "changes_requested"}]

Holds(c) == At(c, "locked") \/ At(c, "written")

\* The artifact lock: two transactions of one artifact are one.
Exclusive == \A c, d \in Requests :
                 /\ Holds(c) /\ Holds(d)
                 /\ ArtifactOf[asked[c].revision] = ArtifactOf[asked[d].revision]
                 => c = d

\* A request asks for an edge of the table.
Judged == \A c \in Requests :
              ~At(c, "idle") => asked[c].next \in Policy!Transitions[asked[c].from]

\* A transaction that has written still finds what it judged, in a writable lifecycle.
Current(c) == /\ StillCurrent(asked[c])
              /\ mode = "writable"
              /\ cycle[c] = Cardinality(Policy!ReviewsOf(asked[c].revision)) + 1
              /\ cycle[c] \in 1 .. MaxReviews

WrittenIsCurrent == \A c \in Requests : At(c, "written") => Current(c)

\* A revision that is not published yet has not been reviewed.
NoEarlyReview == \A r \in Revisions : status[r] = "none" => Policy!ReviewsOf(r) = {}

Inv == /\ TypeOK
       /\ IsFiniteSet(reviews)
       /\ Exclusive
       /\ Judged
       /\ WrittenIsCurrent
       /\ NoEarlyReview
       /\ PublishedIsApproved
       /\ EvidenceFollowsReview
       /\ ReviewLogExplainsStatus

USE ReviewBounds, NoneIsNoRevision

-----------------------------------------------------------------------------
(* The table and the review log *)

\* What the table of transitions says, edge by edge.
LEMMA Table ==
    ASSUME NEW from \in Statuses, NEW next, next \in Policy!Transitions[from]
    PROVE  /\ next \in Statuses \ {"none"}
           /\ next = "in_review" => from = "draft"
           /\ next \in {"approved", "changes_requested"} => from = "in_review"
           /\ next = "draft" => from = "changes_requested"
           /\ from \notin {"none", "archived"}
           /\ from = "approved" => next = "archived"
  BY DEF Policy!Transitions, Statuses

\* The moves that are logged.
LEMMA LoggedMoves ==
    /\ \A next : Policy!Logged(next) <=> next \in {"in_review", "approved", "changes_requested"}
    /\ Policy!LoggedAs["in_review"] = "submitted"
    /\ Policy!LoggedAs["approved"] = "approved"
    /\ Policy!LoggedAs["changes_requested"] = "changes_requested"
  BY DEF Policy!Logged, Policy!LoggedAs

\* The table has a column for each status.
LEMMA Columns == DOMAIN Policy!Transitions = Statuses
  BY DEF Policy!Transitions, Statuses

LastOf(log) == {x.action : x \in {y \in log : y.cycle = Cardinality(log)}}
Numbered(log) == {x.cycle : x \in log} = 1 .. Cardinality(log)
Alternates(log) == \A x \in log : x.action = "submitted" <=> x.cycle % 2 = 1

\* A row under the next cycle number extends a numbered log and becomes its last row.
LEMMA AppendRow ==
    ASSUME NEW log, IsFiniteSet(log), Numbered(log),
           NEW x, x.cycle = Cardinality(log) + 1
    PROVE  /\ Cardinality(log \cup {x}) = Cardinality(log) + 1
           /\ Numbered(log \cup {x})
           /\ LastOf(log \cup {x}) = {x.action}
<1> DEFINE n == Cardinality(log)
<1>1. n \in Nat
  BY FS_CardinalityType
<1>2. \A y \in log : y.cycle \in 1 .. n
  BY DEF Numbered
<1>3. x \notin log
  BY <1>1, <1>2
<1>4. Cardinality(log \cup {x}) = n + 1
  BY <1>3, FS_AddElement
<1>5. {y.cycle : y \in log \cup {x}} = 1 .. n + 1
  <2>1. {y.cycle : y \in log \cup {x}} = {y.cycle : y \in log} \cup {n + 1}
    OBVIOUS
  <2>2. {y.cycle : y \in log} = 1 .. n
    BY DEF Numbered
  <2> QED BY <1>1, <2>1, <2>2
<1>6. {y \in log \cup {x} : y.cycle = n + 1} = {x}
  BY <1>1, <1>2
<1>7. LastOf(log \cup {x}) = {x.action}
  BY <1>4, <1>6 DEF LastOf
<1> QED BY <1>4, <1>5, <1>7 DEF Numbered

\* The next review cycle follows the number of rows.
LEMMA NextCycle ==
    ASSUME NEW r, IsFiniteSet(Policy!ReviewsOf(r)), Numbered(Policy!ReviewsOf(r))
    PROVE  NextReviewCycle(r) = Cardinality(Policy!ReviewsOf(r)) + 1
<1> DEFINE n == Cardinality(Policy!ReviewsOf(r))
<1>1. n \in Nat
  BY FS_CardinalityType
<1>2. {x.cycle : x \in Policy!ReviewsOf(r)} \cup {0} = 0 .. n
  BY <1>1 DEF Numbered
<1>3. Max(0 .. n) = n
  BY <1>1 DEF Max
<1> QED BY <1>2, <1>3 DEF NextReviewCycle

-----------------------------------------------------------------------------
(* The inductive invariant *)

\* The initial tables are empty and no request is served.
LEMMA InitInv == Init => Inv
<1> SUFFICES ASSUME Init PROVE Inv
  OBVIOUS
<1> USE DEF Init, Policy!Init, Policy!ReviewsOf
<1>1. TypeOK /\ IsFiniteSet(reviews)
  BY FS_EmptySet, Columns DEF TypeOK, Artifacts, Policy!Artifacts, Statuses, Stage, At
<1>2. Exclusive /\ Judged /\ WrittenIsCurrent /\ NoEarlyReview
  BY DEF Exclusive, Judged, WrittenIsCurrent, NoEarlyReview, Holds, At
<1>3. PublishedIsApproved /\ EvidenceFollowsReview
  BY DEF PublishedIsApproved, EvidenceFollowsReview, Artifacts, Policy!Artifacts
<1>4. ReviewLogExplainsStatus
  <2>1. Cardinality({}) = 0
    BY FS_EmptySet
  <2>2. ~Policy!Logged("none")
    BY LoggedMoves
  <2> QED BY <2>1, <2>2 DEF ReviewLogExplainsStatus
<1> QED BY <1>1, <1>2, <1>3, <1>4 DEF Inv

\* A statement that only changes requests keeps what is said of the tables.
LEMMA TablesKept ==
    ASSUME Inv, UNCHANGED tables
    PROVE  /\ IsFiniteSet(reviews)' /\ NoEarlyReview' /\ PublishedIsApproved'
           /\ EvidenceFollowsReview' /\ ReviewLogExplainsStatus'
<1>1. IsFiniteSet(reviews)'
  BY DEF Inv, tables
<1>2. NoEarlyReview'
  BY DEF Inv, tables, NoEarlyReview, Policy!ReviewsOf
<1>3. PublishedIsApproved' /\ EvidenceFollowsReview'
  BY DEF Inv, tables, PublishedIsApproved, EvidenceFollowsReview
<1>4. ReviewLogExplainsStatus'
  BY DEF Inv, tables, ReviewLogExplainsStatus, Policy!ReviewsOf
<1> QED
  BY <1>1, <1>2, <1>3, <1>4

\* A request is no concern of the steps of others that leave the tables alone.
LEMMA CurrentKept ==
    ASSUME UNCHANGED tables, UNCHANGED mode, NEW c,
           asked'[c] = asked[c], cycle'[c] = cycle[c], Current(c)
    PROVE  Current(c)'
<1>1. Policy!ReviewsOf(asked[c].revision)' = Policy!ReviewsOf(asked[c].revision)
  BY DEF tables, Policy!ReviewsOf
<1> QED BY <1>1 DEF tables, Current, StillCurrent

\* Reading, locking, writing and giving up of a request preserve the invariant: the lock
\* keeps transactions of one artifact apart.
LEMMA RequestStep ==
    ASSUME Inv, NEW c \in Requests, Read(c) \/ Lock(c) \/ Write(c) \/ Refuse(c)
    PROVE  Inv'
<1> USE DEF Inv, Goto, Answer, At
<1>0. UNCHANGED tables /\ UNCHANGED <<mode, switches>>
  BY DEF Read, Lock, Write, Refuse
<1>1. CASE Read(c)
  <2>1. TypeOK'
    BY <1>0, <1>1, Columns DEF Read, TypeOK, tables, Stage, Question
  <2>2. Exclusive' /\ WrittenIsCurrent'
    BY <1>0, <1>1, CurrentKept DEF Read, TypeOK, Exclusive, WrittenIsCurrent, Holds
  <2>3. Judged'
    BY <1>1 DEF Read, TypeOK, Judged, Policy!Allowed
  <2> QED BY <1>0, <2>1, <2>2, <2>3, TablesKept
<1>2. CASE Lock(c)
  <2>1. TypeOK'
    BY <1>0, <1>2 DEF Lock, TypeOK, tables, Stage
  <2>2. Exclusive'
    BY <1>2 DEF Lock, TypeOK, Exclusive, Holds, Free
  <2>3. Judged' /\ WrittenIsCurrent'
    BY <1>0, <1>2, CurrentKept DEF Lock, TypeOK, Judged, WrittenIsCurrent
  <2> QED BY <1>0, <2>1, <2>2, <2>3, TablesKept
<1>3. CASE Write(c)
  <2>1. asked[c] \in Question
    BY <1>3 DEF Write, TypeOK
  <2>2. PICK r \in Revisions : r = asked[c].revision
    BY <2>1 DEF Question
  <2>3. IsFiniteSet(Policy!ReviewsOf(r)) /\ Numbered(Policy!ReviewsOf(r))
    BY FS_Subset DEF Policy!ReviewsOf, ReviewLogExplainsStatus, Numbered
  <2>4. NextReviewCycle(r) = Cardinality(Policy!ReviewsOf(r)) + 1 /\ Cardinality(Policy!ReviewsOf(r)) \in Nat
    BY <2>3, NextCycle, FS_CardinalityType
  <2>5. NextReviewCycle(r) \in 1 .. MaxReviews
    BY <1>3, <2>2, <2>4 DEF Write
  <2>6. TypeOK'
    BY <1>0, <1>3, <2>2, <2>5 DEF Write, TypeOK, tables, Stage
  <2>7. Exclusive' /\ Judged'
    BY <1>3 DEF Write, TypeOK, Exclusive, Judged, Holds
  <2>8. WrittenIsCurrent'
    <3>1. Current(c)'
      <4>1. asked'[c] = asked[c] /\ asked[c].revision = r /\ cycle'[c] = NextReviewCycle(r)
        BY <1>3, <2>2 DEF Write, TypeOK
      <4>2. Policy!ReviewsOf(asked[c].revision)' = Policy!ReviewsOf(r)
        BY <1>0, <4>1 DEF tables, Policy!ReviewsOf
      <4>3. StillCurrent(asked[c])'
        BY <1>0, <1>3, <4>1 DEF Write, tables, StillCurrent
      <4> QED BY <1>0, <1>3, <2>4, <2>5, <4>1, <4>2, <4>3 DEF Write, Current
    <3>2. ASSUME NEW d \in Requests \ {c}, At(d, "written")' PROVE Current(d)'
      BY <1>0, <1>3, <3>2, CurrentKept DEF Write, TypeOK, WrittenIsCurrent
    <3> QED BY <3>1, <3>2 DEF WrittenIsCurrent
  <2> QED BY <1>0, <2>6, <2>7, <2>8, TablesKept
<1>4. CASE Refuse(c)
  <2>1. TypeOK'
    BY <1>0, <1>4 DEF Refuse, TypeOK, tables, Stage
  <2>2. Exclusive' /\ Judged' /\ WrittenIsCurrent'
    BY <1>0, <1>4, CurrentKept DEF Refuse, TypeOK, Exclusive, Judged, WrittenIsCurrent, Holds
  <2> QED BY <1>0, <2>1, <2>2, TablesKept
<1> QED BY <1>1, <1>2, <1>3, <1>4

\* A commit writes one review row at most, under the number after the last: the log stays a
\* history, because the artifact lock kept it as the transaction found it.
LEMMA CommitLog ==
    ASSUME Inv, NEW c \in Requests, Commit(c)
    PROVE  /\ ReviewLogExplainsStatus'
           /\ IsFiniteSet(reviews)'
           /\ NoEarlyReview'
<1> USE DEF Inv
<1>1. PICK r \in Revisions, from \in Statuses, next \in Statuses, n \in 1 .. MaxReviews :
          /\ next \in Policy!Transitions[from]
          /\ asked[c] = [revision |-> r, from |-> from, next |-> next]
          /\ status[r] = from
          /\ cycle[c] = n
          /\ n = Cardinality(Policy!ReviewsOf(r)) + 1
          /\ status' = [status EXCEPT ![r] = next]
          /\ IF Policy!Logged(next)
             THEN reviews' = reviews \cup {[revision |-> r, action |-> Policy!LoggedAs[next], cycle |-> n]}
             ELSE reviews' = reviews
  BY Columns DEF Commit, At, TypeOK, Question, Judged, WrittenIsCurrent, Current, StillCurrent
<1> DEFINE log == Policy!ReviewsOf(r)
           x == [revision |-> r, action |-> Policy!LoggedAs[next], cycle |-> n]
<1>2. IsFiniteSet(log) /\ Cardinality(log) \in Nat
  BY FS_Subset, FS_CardinalityType DEF Policy!ReviewsOf
<1>3. /\ Numbered(log) /\ Alternates(log)
      /\ Policy!Logged(from) => LastOf(log) = {Policy!LoggedAs[from]}
      /\ from = "draft" => LastOf(log) \subseteq {"changes_requested"}
  BY <1>1 DEF ReviewLogExplainsStatus, Numbered, Alternates, LastOf
<1>4. status \in [Revisions -> Statuses]
  BY Columns DEF TypeOK
<1>5. status'[r] = next /\ \A s \in Revisions \ {r} : status'[s] = status[s]
  BY <1>1, <1>4
<1>6. \A s \in Revisions \ {r} : Policy!ReviewsOf(s)' = Policy!ReviewsOf(s)
  BY <1>1 DEF Policy!ReviewsOf
<1>7. IsFiniteSet(reviews)'
  <2>1. IsFiniteSet(reviews \cup {x})
    BY FS_AddElement
  <2> QED BY <1>1, <2>1
<1>8. NoEarlyReview'
  BY <1>5, <1>6, <1>1, Table DEF NoEarlyReview
<1>9. /\ Numbered(log') /\ Alternates(log')
      /\ Policy!Logged(next) => LastOf(log') = {Policy!LoggedAs[next]}
      /\ next = "draft" => LastOf(log') \subseteq {"changes_requested"}
  <2>1. CASE Policy!Logged(next)
    <3>1. log' = log \cup {x}
      BY <1>1, <2>1 DEF Policy!ReviewsOf
    <3>2. Numbered(log \cup {x}) /\ LastOf(log \cup {x}) = {Policy!LoggedAs[next]}
      BY <1>1, <1>2, <1>3, AppendRow
    <3>3. Policy!LoggedAs[next] = "submitted" <=> n % 2 = 1
      <4>1. CASE next = "in_review"
        <5>1. from = "draft"
          BY <1>1, <4>1, Table
        <5>2. CASE n = 1
          BY <4>1, <5>2, LoggedMoves
        <5>3. CASE n # 1
          <6>1. PICK y \in log : y.cycle = n - 1
            BY <1>1, <1>2, <1>3, <5>3 DEF Numbered
          <6>2. y.action \in LastOf(log)
            BY <1>1, <1>2, <6>1 DEF LastOf
          <6>3. (n - 1) % 2 # 1
            BY <1>3, <5>1, <6>1, <6>2 DEF Alternates
          <6> QED BY <4>1, <6>3, LoggedMoves
        <5> QED BY <5>2, <5>3
      <4>2. CASE next \in {"approved", "changes_requested"}
        <5>1. from = "in_review" /\ LastOf(log) = {"submitted"}
          BY <1>1, <1>3, <4>2, Table, LoggedMoves
        <5>2. PICK y \in log : y.cycle = n - 1 /\ y.action = "submitted"
          BY <1>1, <1>2, <5>1 DEF LastOf
        <5>3. (n - 1) % 2 = 1
          BY <1>3, <5>2 DEF Alternates
        <5> QED BY <4>2, <5>3, LoggedMoves
      <4> QED BY <2>1, <4>1, <4>2, LoggedMoves
    <3>4. Alternates(log \cup {x})
      BY <1>3, <3>3 DEF Alternates
    <3>5. next # "draft"
      BY <2>1, LoggedMoves
    <3> QED BY <3>1, <3>2, <3>4, <3>5
  <2>2. CASE ~Policy!Logged(next)
    <3>1. log' = log
      BY <1>1, <2>2 DEF Policy!ReviewsOf
    <3>2. next = "draft" => from = "changes_requested"
      BY <1>1, Table
    <3> QED BY <1>3, <2>2, <3>1, <3>2, LoggedMoves
  <2> QED BY <2>1, <2>2
<1>10. ReviewLogExplainsStatus'
  <2> SUFFICES ASSUME NEW s \in Revisions
               PROVE  LET seen == Policy!ReviewsOf(s)'
                      IN  /\ Numbered(seen) /\ Alternates(seen)
                          /\ Policy!Logged(status'[s]) => LastOf(seen) = {Policy!LoggedAs[status'[s]]}
                          /\ status'[s] = "draft" => LastOf(seen) \subseteq {"changes_requested"}
    BY DEF ReviewLogExplainsStatus, Numbered, Alternates, LastOf, Policy!Logged, Policy!LoggedAs
  <2>1. CASE s = r
    BY <1>5, <1>9, <2>1
  <2>2. CASE s # r
    BY <1>5, <1>6, <2>2 DEF ReviewLogExplainsStatus, Numbered, Alternates, LastOf
  <2> QED BY <2>1, <2>2
<1> QED BY <1>7, <1>8, <1>10

\* A commit keeps the pointer and the evidence in step with the statuses.
LEMMA CommitTables ==
    ASSUME Inv, NEW c \in Requests, Commit(c)
    PROVE  TypeOK' /\ PublishedIsApproved' /\ EvidenceFollowsReview'
<1> USE DEF Inv
<1>1. PICK r \in Revisions, from \in Statuses, next \in Statuses :
          /\ next \in Policy!Transitions[from]
          /\ asked[c] = [revision |-> r, from |-> from, next |-> next]
          /\ status[r] = from
          /\ next = "archived" => published[ArtifactOf[r]] # r
          /\ cycle[c] \in 1 .. MaxReviews
          /\ status' = [status EXCEPT ![r] = next]
          /\ published' = IF next = "approved" THEN [published EXCEPT ![ArtifactOf[r]] = r] ELSE published
          /\ evidence' = [s \in Revisions |-> IF s = r THEN (IF next = "archived" THEN evidence[s] ELSE next)
                                              ELSE evidence[s]]
          /\ IF Policy!Logged(next)
             THEN reviews' = reviews \cup {[revision |-> r, action |-> Policy!LoggedAs[next], cycle |-> cycle[c]]}
             ELSE reviews' = reviews
  <2>1. asked[c] \in Question /\ DOMAIN Policy!Transitions = Statuses /\ At(c, "written") /\ Current(c)
    BY Columns DEF Commit, At, TypeOK, WrittenIsCurrent
  <2>2. PICK r \in Revisions, from \in Statuses, next \in Statuses :
           asked[c] = [revision |-> r, from |-> from, next |-> next]
    BY <2>1 DEF Question
  <2>3. next \in Policy!Transitions[from]
    BY <2>1, <2>2 DEF At, Judged
  <2>4. /\ status[r] = from
        /\ next = "archived" => published[ArtifactOf[r]] # r
        /\ cycle[c] \in 1 .. MaxReviews
    BY <2>1, <2>2 DEF Current, StillCurrent
  <2>5. evidence' = [s \in Revisions |-> IF s = r THEN (IF next = "archived" THEN evidence[s] ELSE next)
                                         ELSE evidence[s]]
    BY <2>2 DEF Commit, EvidenceOf, EvidenceAfter
  <2>6. /\ status' = [status EXCEPT ![r] = next]
        /\ published' = IF next = "approved" THEN [published EXCEPT ![ArtifactOf[r]] = r] ELSE published
    BY <2>2 DEF Commit
  <2>7. IF Policy!Logged(next)
        THEN reviews' = reviews \cup {[revision |-> r, action |-> Policy!LoggedAs[next], cycle |-> cycle[c]]}
        ELSE reviews' = reviews
    BY <2>2 DEF Commit
  <2> HIDE DEF Inv
  <2> QED
    BY <2>2, <2>3, <2>4, <2>5, <2>6, <2>7, Zenon
<1>2. /\ status \in [Revisions -> Statuses]
      /\ published \in [Artifacts -> Revisions \cup {None}]
      /\ evidence \in [Revisions -> Statuses \ {"archived"}]
  BY Columns DEF TypeOK, Statuses
<1>3. ArtifactOf[r] \in Artifacts
  BY DEF Artifacts, Policy!Artifacts
<1>4. TypeOK'
  <2>1. status' \in [Revisions -> Statuses] /\ evidence' \in [Revisions -> Statuses \ {"archived"}]
    BY <1>1, <1>2
  <2>2. published' \in [Artifacts -> Revisions \cup {None}]
    BY <1>1, <1>2, <1>3
  <2>3. reviews' \subseteq ReviewRow
    <3>1. reviews \subseteq ReviewRow
      BY DEF TypeOK, ReviewRow
    <3>2. CASE Policy!Logged(next)
      <4>1. Policy!LoggedAs[next] \in {"submitted", "approved", "changes_requested"}
        BY <3>2, LoggedMoves
      <4> QED BY <1>1, <3>1, <3>2, <4>1 DEF ReviewRow
    <3> QED BY <1>1, <3>1, <3>2
  <2>4. /\ stage' = [stage EXCEPT ![c] = "idle"]
        /\ asked' = [asked EXCEPT ![c] = None]
        /\ cycle' = [cycle EXCEPT ![c] = 0]
        /\ UNCHANGED <<mode, switches>>
    BY DEF Commit, Answer, Goto
  <2>5. /\ stage' \in [Requests -> Stage]
        /\ asked' \in [Requests -> Question \cup {None}]
        /\ \A d \in Requests : stage'[d] # "idle" => asked'[d] \in Question
        /\ cycle' \in [Requests -> 0 .. MaxReviews]
        /\ mode' \in {"writable", "read_only"} /\ switches' \in 0 .. MaxSwitches
    BY <2>4 DEF TypeOK, Stage, At
  <2> QED BY <2>1, <2>2, <2>3, <2>5, Columns DEF TypeOK, ReviewRow, Statuses, At
<1>5. PublishedIsApproved'
  <2> SUFFICES ASSUME NEW a \in Artifacts, published'[a] # None
               PROVE  ArtifactOf[published'[a]] = a /\ status'[published'[a]] = "approved"
    BY DEF PublishedIsApproved, Artifacts, Policy!Artifacts
  <2>1. CASE next = "approved" /\ a = ArtifactOf[r]
    BY <1>1, <1>2, <1>3, <2>1
  <2>2. CASE ~(next = "approved" /\ a = ArtifactOf[r])
    <3>1. published'[a] = published[a]
      BY <1>1, <1>2, <1>3, <2>2
    <3>2. published[a] \in Revisions /\ ArtifactOf[published[a]] = a /\ status[published[a]] = "approved"
      BY <1>2, <3>1 DEF PublishedIsApproved
    <3>3. published[a] # r
      BY <1>1, <3>2, Table
    <3> QED BY <1>1, <1>2, <3>1, <3>2, <3>3
  <2> QED BY <2>1, <2>2
<1>6. EvidenceFollowsReview'
  BY <1>1, <1>2 DEF EvidenceFollowsReview
<1> QED BY <1>4, <1>5, <1>6

\* While a transaction commits, no other holds the artifact: what the others have found
\* stays as it was.
LEMMA CommitRequests ==
    ASSUME Inv, NEW c \in Requests, Commit(c)
    PROVE  Exclusive' /\ Judged' /\ WrittenIsCurrent'
<1> USE DEF Inv
<1>1. /\ stage[c] = "written" /\ stage' = [stage EXCEPT ![c] = "idle"]
      /\ asked' = [asked EXCEPT ![c] = None]
      /\ cycle' = [cycle EXCEPT ![c] = 0]
      /\ mode' = mode
  BY DEF Commit, Answer, Goto, At
<1>2. \A d \in Requests \ {c} : stage'[d] = stage[d] /\ asked'[d] = asked[d] /\ cycle'[d] = cycle[d]
  BY <1>1 DEF TypeOK
<1>3. stage'[c] = "idle"
  BY <1>1 DEF TypeOK
<1>4. Exclusive' /\ Judged'
  BY <1>2, <1>3 DEF Exclusive, Judged, Holds, At
<1>5. WrittenIsCurrent'
  <2> SUFFICES ASSUME NEW d \in Requests \ {c}, stage[d] = "written"
               PROVE  Current(d)'
    BY <1>2, <1>3 DEF WrittenIsCurrent, At
  <2>1. asked[c] \in Question /\ asked[d] \in Question
    BY <1>1 DEF TypeOK, At
  <2>2. PICK r \in Revisions, s \in Revisions : r = asked[c].revision /\ s = asked[d].revision
    BY <2>1 DEF Question
  <2>3. ArtifactOf[r] # ArtifactOf[s]
    BY <1>1, <2>2 DEF Exclusive, Holds, At
  <2>4. status'[s] = status[s]
    BY <2>2, <2>3 DEF Commit, TypeOK
  <2>5. published'[ArtifactOf[s]] = published[ArtifactOf[s]]
    BY <2>2, <2>3 DEF Commit, TypeOK, Artifacts, Policy!Artifacts
  <2>6. Policy!ReviewsOf(s)' = Policy!ReviewsOf(s)
    BY <2>2, <2>3 DEF Commit, Policy!ReviewsOf
  <2>7. Current(d)
    BY DEF WrittenIsCurrent, At
  <2>8. asked'[d] = asked[d] /\ cycle'[d] = cycle[d]
    BY <1>2
  <2>9. Policy!ReviewsOf(asked[d].revision)' = Policy!ReviewsOf(asked[d].revision)
    BY <2>2, <2>6, <2>8 DEF Policy!ReviewsOf
  <2> QED BY <1>1, <2>2, <2>4, <2>5, <2>7, <2>8, <2>9 DEF Current, StillCurrent
<1> QED BY <1>4, <1>5

\* A publication appears as an unreviewed draft beside what requests hold.
LEMMA PublishStep ==
    ASSUME Inv, NEW r \in Revisions, Publish(r)
    PROVE  Inv'
<1> USE DEF Inv
<1>1. /\ status[r] = "none" /\ mode = "writable"
      /\ status' = [status EXCEPT ![r] = "draft"] /\ evidence' = [evidence EXCEPT ![r] = "draft"]
      /\ UNCHANGED <<published, reviews, mode, stage, asked, cycle, switches>>
  BY DEF Publish, request
<1>2. status \in [Revisions -> Statuses]
  BY Columns DEF TypeOK
<1>3. TypeOK'
  BY <1>1, Columns DEF TypeOK, Statuses, At
<1>4. Exclusive' /\ Judged' /\ IsFiniteSet(reviews)'
  BY <1>1 DEF Exclusive, Judged, Holds, At
<1>5. \A s : Policy!ReviewsOf(s)' = Policy!ReviewsOf(s)
  BY <1>1 DEF Policy!ReviewsOf
<1>6. WrittenIsCurrent'
  <2> SUFFICES ASSUME NEW d \in Requests, At(d, "written")
               PROVE  Current(d)'
    BY <1>1 DEF WrittenIsCurrent, At
  <2>1. asked[d] \in Question /\ Current(d)
    BY DEF TypeOK, WrittenIsCurrent, At
  <2>2. asked[d].revision # r
    BY DEF Publish, Free
  <2>3. Policy!ReviewsOf(asked[d].revision)' = Policy!ReviewsOf(asked[d].revision)
    BY <1>1 DEF Policy!ReviewsOf
  <2> QED BY <1>1, <1>2, <2>1, <2>2, <2>3 DEF Current, StillCurrent, Question
<1>7. NoEarlyReview' /\ EvidenceFollowsReview'
  BY <1>1, <1>2, <1>5 DEF TypeOK, NoEarlyReview, EvidenceFollowsReview
<1>8. PublishedIsApproved'
  BY <1>1, <1>2 DEF TypeOK, PublishedIsApproved
<1>9. ReviewLogExplainsStatus'
  <2>1. Policy!ReviewsOf(r) = {} /\ ~Policy!Logged("draft")
    BY <1>1, LoggedMoves DEF NoEarlyReview
  <2> SUFFICES ASSUME NEW s \in Revisions
               PROVE  LET seen == Policy!ReviewsOf(s)'
                      IN  /\ Numbered(seen) /\ Alternates(seen)
                          /\ Policy!Logged(status'[s]) => LastOf(seen) = {Policy!LoggedAs[status'[s]]}
                          /\ status'[s] = "draft" => LastOf(seen) \subseteq {"changes_requested"}
    BY DEF ReviewLogExplainsStatus, Numbered, Alternates, LastOf, Policy!Logged, Policy!LoggedAs
  <2>2. CASE s = r
    <3>1. Policy!ReviewsOf(s)' = {} /\ status'[s] = "draft"
      BY <1>1, <1>2, <1>5, <2>1, <2>2
    <3>2. Cardinality({}) = 0
      BY FS_EmptySet
    <3>3. Numbered({}) /\ Alternates({}) /\ LastOf({}) = {}
      BY <3>2 DEF Numbered, Alternates, LastOf
    <3> QED BY <2>1, <3>1, <3>3
  <2>3. CASE s # r
    BY <1>1, <1>2, <1>5, <2>3 DEF ReviewLogExplainsStatus, Numbered, Alternates, LastOf
  <2> QED BY <2>2, <2>3
<1> QED BY <1>3, <1>4, <1>6, <1>7, <1>8, <1>9

\* The maintenance switch waits for transactions that have written.
LEMMA SwitchStep ==
    ASSUME Inv, SwitchMode
    PROVE  Inv'
<1>1. UNCHANGED tables /\ UNCHANGED <<stage, asked, cycle>>
  BY DEF SwitchMode, request
<1>2. TypeOK'
  BY <1>1 DEF Inv, SwitchMode, TypeOK, tables, At
<1>3. Exclusive' /\ Judged' /\ WrittenIsCurrent'
  BY <1>1 DEF Inv, SwitchMode, ModeUnshared, Exclusive, Judged, WrittenIsCurrent, Holds, At
<1> QED BY <1>1, <1>2, <1>3, TablesKept DEF Inv

\* Every step preserves the invariant.
LEMMA StepInv == Inv /\ [Next]_vars => Inv'
<1> SUFFICES ASSUME Inv, [Next]_vars PROVE Inv'
  OBVIOUS
<1>1. ASSUME NEW c \in Requests, Read(c) \/ Lock(c) \/ Write(c) \/ Refuse(c) PROVE Inv'
  BY <1>1, RequestStep
<1>2. ASSUME NEW c \in Requests, Commit(c) PROVE Inv'
  BY <1>2, CommitLog, CommitTables, CommitRequests DEF Inv
<1>3. ASSUME NEW r \in Revisions, Publish(r) PROVE Inv'
  BY <1>3, PublishStep
<1>4. CASE SwitchMode
  BY <1>4, SwitchStep
<1>5. CASE UNCHANGED vars
  <2>1. UNCHANGED tables /\ UNCHANGED <<mode, stage, asked, cycle, switches>>
    BY <1>5 DEF vars, request
  <2>2. TypeOK'
    BY <2>1 DEF Inv, TypeOK, tables, At
  <2>3. Exclusive' /\ Judged' /\ WrittenIsCurrent'
    BY <2>1, CurrentKept DEF Inv, Exclusive, Judged, WrittenIsCurrent, Holds, At
  <2> QED BY <2>1, <2>2, <2>3, TablesKept DEF Inv
<1> QED BY <1>1, <1>2, <1>3, <1>4, <1>5 DEF Next

-----------------------------------------------------------------------------
(* Theorems *)

\* The inductive invariant holds in every reachable state.
THEOREM Invariance == Spec => []Inv
<1> QED BY InitInv, StepInv, PTL DEF Spec

\* Rows, evidence and requests keep their types; evidence never gets the status "archived".
THEOREM TypeCorrect == Spec => []TypeOK
<1>1. Inv => TypeOK
  BY DEF Inv
<1> QED BY <1>1, Invariance, PTL

\* What an artifact shows as published is approved, whichever requests race.
THEOREM PublishedStaysApproved == Spec => []PublishedIsApproved
<1>1. Inv => PublishedIsApproved
  BY DEF Inv
<1> QED BY <1>1, Invariance, PTL

\* The redundant status of evidence is that of its revision until it is archived.
THEOREM EvidenceInStep == Spec => []EvidenceFollowsReview
<1>1. Inv => EvidenceFollowsReview
  BY DEF Inv
<1> QED BY <1>1, Invariance, PTL

\* The review log of a revision alternates, is numbered without gap or double, and explains
\* the status.
THEOREM LogIsHistory == Spec => []ReviewLogExplainsStatus
<1>1. Inv => ReviewLogExplainsStatus
  BY DEF Inv
<1> QED BY <1>1, Invariance, PTL

\* No step changes a lifecycle table while the mode is read-only.
THEOREM ReadOnlyHolds == Spec => FrozenWhileReadOnly
<1>1. Inv /\ [Next]_vars => [mode = "read_only" => UNCHANGED tables]_vars
  <2> SUFFICES ASSUME Inv, Next, mode = "read_only" PROVE UNCHANGED tables
    OBVIOUS
  <2>1. ASSUME NEW c \in Requests PROVE ~Commit(c)
    BY DEF Inv, WrittenIsCurrent, Current, Commit
  <2>2. ASSUME NEW r \in Revisions PROVE ~Publish(r)
    BY DEF Publish
  <2> QED BY <2>1, <2>2 DEF Next, Read, Lock, Write, Refuse, SwitchMode
<1> QED BY <1>1, Invariance, PTL DEF Spec, FrozenWhileReadOnly

\* Review implements the atomic policy: the commit of a request is the move it judged, all
\* other steps of a request are invisible.
THEOREM Refinement == Spec => PolicySpec
<1>1. Init => Policy!Init
  BY DEF Init
<1>2. Inv /\ [Next]_vars => [Policy!Next]_(Policy!vars)
  <2> SUFFICES ASSUME Inv, [Next]_vars PROVE [Policy!Next]_(Policy!vars)
    OBVIOUS
  <2>1. ASSUME NEW c \in Requests, Commit(c) PROVE Policy!Next
    <3>1. PICK r \in Revisions, next \in DOMAIN Policy!Transitions :
              r = asked[c].revision /\ next = asked[c].next
      BY <2>1 DEF Inv, Commit, At, TypeOK, Question
    <3>2. /\ Policy!Allowed(r, next)
          /\ cycle[c] = Cardinality(Policy!ReviewsOf(r)) + 1
      BY <2>1, <3>1 DEF Inv, Commit, At, TypeOK, Judged, WrittenIsCurrent, Current, StillCurrent, Policy!Allowed
    <3>3. /\ status' = [status EXCEPT ![r] = next]
          /\ published' = IF next = "approved" THEN [published EXCEPT ![ArtifactOf[r]] = r] ELSE published
          /\ reviews' = IF Policy!Logged(next)
                        THEN reviews \cup {[revision |-> r, action |-> Policy!LoggedAs[next], cycle |-> cycle[c]]}
                        ELSE reviews
      BY <2>1, <3>1 DEF Commit
    <3>4. Policy!Move(r, next)
      <4>1. \A S : Policy!Cardinality(S) = Cardinality(S)
        BY DEF Policy!Cardinality, Cardinality
      <4> QED BY <3>2, <3>3, <4>1 DEF Policy!Move
    <3> QED BY <3>4 DEF Policy!Next
  <2>2. ASSUME NEW r \in Revisions, Publish(r) PROVE Policy!Next
    BY <2>2 DEF Publish, Policy!Publication, Policy!Next
  <2>3. CASE UNCHANGED tables
    BY <2>3 DEF tables, Policy!vars
  <2>4. CASE UNCHANGED vars
    BY <2>4 DEF vars, tables, Policy!vars
  <2> QED BY <2>1, <2>2, <2>3, <2>4 DEF Next, Read, Lock, Write, Refuse, SwitchMode
<1> QED BY <1>1, <1>2, Invariance, PTL DEF Spec, PolicySpec, Policy!Spec
=============================================================================
