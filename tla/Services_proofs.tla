--------------------------- MODULE Services_proofs ---------------------------
(***************************************************************************)
(* Proofs about the parts around the services: the workspace page, the     *)
(* model's route, the plugins of a project, the generation cycle and the   *)
(* data assets.                                                            *)
(*                                                                         *)
(* WorkspacePage: what is under way and not aborted was started in the     *)
(* context the page is in.  The effects that abort it run with every       *)
(* change of context, so this is an invariant of the page and of all its   *)
(* requests; that a late answer changes nothing follows for each step.     *)
(*                                                                         *)
(* ModelRoute: a job is never bound with a key older than the one it was   *)
(* known to find.  ProjectPlugins: the enabled plugins are apart, and so   *)
(* is the one whose conflicts have been checked and that is about to be    *)
(* written, because the project stays locked in between.                   *)
(*                                                                         *)
(* GenerationCycle: no two cycles of a job ever have the same invocation.  *)
(* The number is read after the claim without the lease, but a cycle goes  *)
(* on with it only while it holds the lease, and then it is the greatest.  *)
(* So each cycle writes only its own rows, and what its step says of them  *)
(* and of its audit is what becomes the record when it settles the job.    *)
(*                                                                         *)
(* DataAssetIntake and AssetReads: what has been published, or may yet be  *)
(* by a COMMIT that is not decided, is out of reach of whatever its upload *)
(* and its worker still do and of the deletions still in flight; but for a *)
(* result that the worker has stopped waiting for, which is remembered.    *)
(* Nobody but its own upload can publish an asset that is not ready yet.   *)
(*                                                                         *)
(* TableNormalization: a table that is stored loads.  The names given to   *)
(* its columns are all different, by induction on the column: each is the  *)
(* first that is free, and there is a free one within as many attempts as  *)
(* there are names.                                                        *)
(*                                                                         *)
(* PluginManifest: the themes of an accepted manifest resolve to what      *)
(* their line says, by induction on how deep a theme may still go.         *)
(***************************************************************************)
EXTENDS MCServices, FiniteSetTheorems, SequenceTheorems, TLAPS

-----------------------------------------------------------------------------
(* Tables: induction on an index *)

\* Every set of natural numbers that is not empty has a least: induction on data rests on it.
LEMMA LeastOf ==
    ASSUME NEW S \in SUBSET Nat, S # {}
    PROVE  \E n \in S : \A m \in S : n <= m
<1> DEFINE Below == {1..n : n \in S}
           R == StrictSubsetOrdering(Nat)
<1>1. Below \subseteq FiniteSubsetsOf(Nat) /\ Below # {}
  <2>1. \A n \in S : IsFiniteSet(1..n) /\ 1..n \subseteq Nat
    BY FS_Interval
  <2> QED
    BY <2>1 DEF FiniteSubsetsOf
<1> HIDE DEF Below, R
<1>2. IsWellFoundedOn(R, FiniteSubsetsOf(Nat))
  BY FS_StrictSubsetOrderingWellFounded DEF R
<1>3. PICK x \in Below : \A y \in Below : ~(<<y, x>> \in R)
  BY <1>1, <1>2, WFMin
<1>4. PICK n \in S : x = 1..n
  BY DEF Below
<1>5. SUFFICES ASSUME NEW m \in S, m < n PROVE FALSE
  BY <1>4
<1>6. 1..m \in Below
  BY DEF Below
<1>7. <<1..m, x>> \in R
  <2>1. 1..m \subseteq 1..n /\ n \in 1..n /\ n \notin 1..m
    BY <1>5
  <2> QED
    BY <1>4, <2>1 DEF R, StrictSubsetOrdering
<1> QED
  BY <1>3, <1>6, <1>7

\* Induction on the natural numbers, said of a set: 0 is in it, and with every number the next.
LEMMA Upwards ==
    ASSUME NEW S, 0 \in S, \A n \in Nat : n \in S => n + 1 \in S
    PROVE  Nat \subseteq S
<1> SUFFICES ASSUME Nat \ S # {} PROVE FALSE
  OBVIOUS
<1>1. PICK n \in Nat \ S : \A m \in Nat \ S : n <= m
  <2> DEFINE rest == Nat \ S
  <2>1. rest \in SUBSET Nat /\ rest # {}
    OBVIOUS
  <2> HIDE DEF rest
  <2>2. \E n \in rest : \A m \in rest : n <= m
    BY <2>1, LeastOf
  <2> QED
    BY <2>2 DEF rest
<1>2. n # 0 /\ n - 1 \in Nat /\ ~(n <= n - 1)
  BY <1>1
<1>3. n - 1 \in S
  BY <1>1, <1>2
<1> QED
  BY <1>1, <1>2, <1>3

\* What the steps of an index keep, all of its range has.
LEMMA StepByStep ==
    ASSUME NEW n \in Nat, NEW T, NEW g, g[0] \in T[0],
           \A i \in 1..n : g[i-1] \in T[i-1] => g[i] \in T[i]
    PROVE  \A i \in 0..n : g[i] \in T[i]
<1> DEFINE S == {i \in Nat : i \in 0..n => g[i] \in T[i]}
<1>1. 0 \in S
  OBVIOUS
<1>2. ASSUME NEW i \in Nat, i \in S PROVE i + 1 \in S
  <2>1. CASE i + 1 \in 0..n
    <3>1. i + 1 \in 1..n /\ i \in 0..n /\ (i + 1) - 1 = i
      BY <2>1
    <3>2. g[i] \in T[i]
      BY <1>2, <3>1
    <3> QED
      BY <3>1, <3>2
  <2>2. CASE i + 1 \notin 0..n
    BY <2>2
  <2> QED
    BY <2>1, <2>2
<1> HIDE DEF S
<1>3. Nat \subseteq S
  BY <1>1, <1>2, Upwards
<1> QED
  BY <1>3 DEF S

IsRecursion(g, n, b, F) == g = [i \in 0..n |-> IF i = 0 THEN b ELSE F[<<g[i-1], i>>]]

\* A function by recursion on an index exists if its steps lead from one set to the next.
LEMMA Recursion ==
    ASSUME NEW n \in Nat, NEW T, NEW b, NEW F, b \in T[0],
           \A i \in 1..n : \A x \in T[i-1] : F[<<x, i>>] \in T[i]
    PROVE  \E g : IsRecursion(g, n, b, F) /\ \A i \in 0..n : g[i] \in T[i]
<1> DEFINE Fits(m, g) == /\ g = [i \in 0..m |-> IF i = 0 THEN b ELSE F[<<g[i-1], i>>]]
                         /\ \A i \in 0..m : g[i] \in T[i]
           S == {m \in Nat : m <= n => \E g : Fits(m, g)}
<1>1. 0 \in S
  <2> DEFINE g == [i \in 0..0 |-> b]
  <2>1. Fits(0, g)
    OBVIOUS
  <2> QED
    BY <2>1
<1>2. ASSUME NEW m \in Nat, m \in S PROVE m + 1 \in S
  <2>1. CASE m + 1 <= n
    <3>1. PICK g : Fits(m, g)
      BY <1>2, <2>1
    <3> DEFINE h == [i \in 0..(m+1) |-> IF i = m + 1 THEN F[<<g[m], m + 1>>] ELSE g[i]]
    <3>2. \A i \in 0..m : h[i] = g[i] /\ i # m + 1
      OBVIOUS
    <3>3. h[m + 1] = F[<<g[m], m + 1>>]
      OBVIOUS
    <3>4. g[m] \in T[m] /\ m + 1 \in 1..n /\ (m + 1) - 1 = m
      BY <2>1, <3>1
    <3>5. h[m + 1] \in T[m + 1]
      BY <3>3, <3>4
    <3>6. \A i \in 0..(m+1) : h[i] \in T[i]
      <4> SUFFICES ASSUME NEW i \in 0..(m+1) PROVE h[i] \in T[i]
        OBVIOUS
      <4>1. i \in 0..m \/ i = m + 1
        OBVIOUS
      <4> QED
        BY <3>1, <3>2, <3>5, <4>1
    <3>7. \A i \in 0..(m+1) : h[i] = IF i = 0 THEN b ELSE F[<<h[i-1], i>>]
      <4> SUFFICES ASSUME NEW i \in 0..(m+1)
                   PROVE  h[i] = IF i = 0 THEN b ELSE F[<<h[i-1], i>>]
        OBVIOUS
      <4>1. CASE i = m + 1
        <5>1. h[i - 1] = g[m] /\ i # 0
          BY <3>2, <4>1
        <5> HIDE DEF h
        <5> QED
          BY <3>3, <4>1, <5>1
      <4>2. CASE i # m + 1
        <5>1. i \in 0..m /\ (i # 0 => i - 1 \in 0..m)
          BY <4>2
        <5>2. g[i] = IF i = 0 THEN b ELSE F[<<g[i-1], i>>]
          BY <3>1, <5>1
        <5>3. h[i] = g[i] /\ (i # 0 => h[i-1] = g[i-1])
          BY <3>2, <5>1
        <5> HIDE DEF h
        <5> QED
          BY <5>2, <5>3
      <4> QED
        BY <4>1, <4>2
    <3>8. Fits(m + 1, h)
      <4>1. h = [i \in 0..(m+1) |-> h[i]]
        OBVIOUS
      <4> HIDE DEF h
      <4> QED
        BY <3>6, <3>7, <4>1
    <3>9. \E other : Fits(m + 1, other)
      <4> HIDE DEF Fits, h
      <4> QED
        BY <3>8
    <3> HIDE DEF Fits
    <3> QED
      BY <3>9
  <2>2. CASE ~(m + 1 <= n)
    BY <2>2
  <2> QED
    BY <2>1, <2>2
<1> HIDE DEF S
<1>3. Nat \subseteq S
  BY <1>1, <1>2, Upwards
<1> QED
  BY <1>3 DEF S, IsRecursion

-----------------------------------------------------------------------------
(* The first number that is free *)

LEMMA LeastIsMin ==
    ASSUME NEW S \in SUBSET Nat, S # {}
    PROVE  Min(S) \in S /\ \A m \in S : Min(S) <= m
  BY LeastOf DEF Min

FirstFree(a, b, f, taken) == Min({n \in a..b : f[n] \notin taken})

\* Of more candidates than are taken, one is free.
LEMMA SomeAreFree ==
    ASSUME NEW a \in Nat, NEW b \in Nat, NEW f, NEW taken, IsFiniteSet(taken),
           Cardinality(taken) <= b - a,
           \A n, m \in a..b : f[n] = f[m] => n = m
    PROVE  /\ FirstFree(a, b, f, taken) \in a..b
           /\ f[FirstFree(a, b, f, taken)] \notin taken
<1> DEFINE free == {n \in a..b : f[n] \notin taken}
<1>1. free \in SUBSET Nat
  OBVIOUS
<1>2. free # {}
  <2> SUFFICES ASSUME \A n \in a..b : f[n] \in taken PROVE FALSE
    OBVIOUS
  <2> DEFINE g == [n \in a..b |-> f[n]]
  <2>1. g \in Injection(a..b, taken)
    BY DEF Injection, IsInjective
  <2> HIDE DEF g
  <2>2. Cardinality(taken) \in Nat
    BY FS_CardinalityType
  <2>3. IsFiniteSet(a..b) /\ Cardinality(a..b) = b - a + 1
    <3>1. a \in Int /\ b \in Int /\ ~(a > b)
      BY <2>2
    <3>2. IsFiniteSet(a..b) /\ Cardinality(a..b) = IF a > b THEN 0 ELSE b-a+1
      BY <3>1, FS_Interval
    <3> QED
      BY <3>1, <3>2
  <2>4. Cardinality(a..b) <= Cardinality(taken)
    BY <2>1, <2>3, FS_Injection DEF ExistsInjection
  <2> QED
    BY <2>2, <2>3, <2>4
<1> HIDE DEF free
<1>3. Min(free) \in free
  BY <1>1, <1>2, LeastIsMin
<1> QED
  BY <1>3 DEF free, FirstFree

-----------------------------------------------------------------------------
(* Names *)

IsName(name) == name = [text |-> name.text, behind |-> name.behind] /\ name.behind \in Seq(Nat)
IsHeader(header) == header \in Seq(ToSet(header)) /\ \A h \in ToSet(header) : IsName(h.name)
NamesOver(header) == [text : {ColumnName(h).text : h \in ToSet(header)}, behind : Seq(Nat)]

\* A header names every column, and no name is blank.
LEMMA HeaderFacts ==
    ASSUME NEW header, IsHeader(header)
    PROVE  /\ Len(header) \in Nat /\ DOMAIN header = 1..Len(header)
           /\ \A i \in 1..Len(header) :
                 /\ header[i] \in ToSet(header) /\ IsName(header[i].name)
                 /\ ColumnName(header[i]) \in NamesOver(header)
                 /\ ColumnName(header[i]) \in Mentioned(header)
           /\ \A name \in NamesOver(header) : IsName(name) /\ ~IsBlank(name)
           /\ IsFiniteSet(Mentioned(header))
<1>1. Len(header) \in Nat /\ DOMAIN header = 1..Len(header)
  BY LenProperties DEF IsHeader
<1>2. \A i \in 1..Len(header) : header[i] \in ToSet(header) /\ IsName(header[i].name)
  BY <1>1 DEF IsHeader, ToSet
<1>3. \A h \in ToSet(header) : IsName(ColumnName(h)) /\ ~IsBlank(ColumnName(h))
  <2>1. IsName(Unnamed) /\ ~IsBlank(Unnamed)
    BY DEF IsName, Unnamed, Name, IsBlank
  <2> QED
    BY <2>1 DEF IsHeader, ColumnName
<1>4. \A h \in ToSet(header) : ColumnName(h) \in NamesOver(header)
  <2> SUFFICES ASSUME NEW h \in ToSet(header) PROVE ColumnName(h) \in NamesOver(header)
    OBVIOUS
  <2> DEFINE name == ColumnName(h)
  <2>1. name = [text |-> name.text, behind |-> name.behind] /\ name.behind \in Seq(Nat)
    BY <1>3 DEF IsName
  <2>2. name.text \in {ColumnName(g).text : g \in ToSet(header)}
    OBVIOUS
  <2> HIDE DEF name
  <2>3. name \in NamesOver(header)
    BY <2>1, <2>2 DEF NamesOver
  <2> QED
    BY <2>3 DEF name
<1>5. \A name \in NamesOver(header) : IsName(name) /\ ~IsBlank(name)
  <2> SUFFICES ASSUME NEW name \in NamesOver(header) PROVE IsName(name) /\ ~IsBlank(name)
    OBVIOUS
  <2>1. /\ name = [text |-> name.text, behind |-> name.behind] /\ name.behind \in Seq(Nat)
        /\ name.text \in {ColumnName(g).text : g \in ToSet(header)}
    BY DEF NamesOver
  <2>2. \A h \in ToSet(header) : ColumnName(h).text # ""
    BY <1>3 DEF IsBlank
  <2> QED
    BY <2>1, <2>2 DEF IsName, IsBlank
<1>6. IsFiniteSet(Mentioned(header))
  <2> DEFINE f == [i \in 1..Len(header) |-> ColumnName(header[i])]
  <2>1. f \in Surjection(1..Len(header), Mentioned(header))
    BY <1>1, <1>2 DEF Surjection, Mentioned, ToSet
  <2> HIDE DEF f
  <2> QED
    <3>1. IsFiniteSet(1..Len(header))
      BY <1>1, FS_Interval
    <3> QED
      BY <2>1, <3>1, FS_Surjection
<1> QED
  BY <1>1, <1>2, <1>4, <1>5, <1>6 DEF Mentioned

\* Different numbers behind a name make different names.
LEMMA BehindFacts ==
    ASSUME NEW name, IsName(name), NEW n \in Nat
    PROVE  /\ Behind(name, n) = [text |-> name.text, behind |-> Append(name.behind, n)]
           /\ Append(name.behind, n) \in Seq(Nat) /\ Append(name.behind, n) # <<>>
           /\ \A m \in Nat : Behind(name, m) = Behind(name, n) => m = n
<1> DEFINE text == name.text
           behind == name.behind
<1>1. name = [text |-> text, behind |-> behind] /\ behind \in Seq(Nat)
  BY DEF IsName
<1>2. \A m \in Nat : /\ Append(behind, m) \in Seq(Nat) /\ Append(behind, m) # <<>>
                     /\ Append(behind, m)[Len(behind) + 1] = m
  BY <1>1
<1> HIDE DEF text, behind
<1>3. \A m \in Nat : Behind(name, m) = [text |-> text, behind |-> Append(behind, m)]
  BY <1>1 DEF Behind
<1>4. \A m \in Nat : Behind(name, m).behind = Append(behind, m)
  BY <1>3
<1>5. \A m \in Nat : Behind(name, m) = Behind(name, n) => m = n
  BY <1>2, <1>4
<1> QED
  BY <1>2, <1>3, <1>5 DEF text, behind

\* A name that is counted is new.
LEMMA CountedIsNew ==
    ASSUME NEW name, IsName(name), NEW taken, IsFiniteSet(taken)
    PROVE  \E n \in Nat : Counted(name, taken) = Behind(name, n) /\ Behind(name, n) \notin taken
<1> DEFINE top == Cardinality(taken) + 2
           f == [n \in 2..top |-> Behind(name, n)]
<1>1. Cardinality(taken) \in Nat
  BY FS_CardinalityType
<1>2. top \in Nat /\ Cardinality(taken) <= top - 2
  BY <1>1
<1>3. \A n, m \in 2..top : f[n] = f[m] => n = m
  BY <1>1, BehindFacts
<1>4. {n \in 2..top : f[n] \notin taken} = {n \in 2..top : Behind(name, n) \notin taken}
  OBVIOUS
<1>5. \A n \in 2..top : f[n] = Behind(name, n)
  OBVIOUS
<1> DEFINE first == FirstFree(2, top, f, taken)
<1>6. first \in 2..top /\ f[first] \notin taken
  <2> HIDE DEF f, top
  <2> QED
    BY <1>2, <1>3, SomeAreFree
<1>7. Counted(name, taken) = Behind(name, first)
  BY <1>4 DEF Counted, FirstFree
<1> HIDE DEF f, first
<1>8. first \in Nat /\ Behind(name, first) \notin taken
  BY <1>1, <1>5, <1>6
<1> QED
  BY <1>7, <1>8

\* A sequence has as many entries as it is long, if they differ.
LEMMA RangeFacts ==
    ASSUME NEW names, Len(names) \in Nat, DOMAIN names = 1..Len(names)
    PROVE  /\ IsFiniteSet(ToSet(names)) /\ Cardinality(ToSet(names)) <= Len(names)
           /\ IsInjective(names) => Cardinality(ToSet(names)) = Len(names)
<1> DEFINE f == [j \in 1..Len(names) |-> names[j]]
<1>1. f \in Surjection(1..Len(names), ToSet(names))
  BY DEF Surjection, ToSet
<1>2. IsInjective(names) => f \in Injection(1..Len(names), ToSet(names))
  BY DEF Injection, IsInjective, ToSet
<1> HIDE DEF f
<1>3. IsFiniteSet(1..Len(names)) /\ Cardinality(1..Len(names)) = Len(names)
  <2>1. Len(names) \in Int /\ 1 \in Int
    OBVIOUS
  <2>2. /\ IsFiniteSet(1..Len(names))
        /\ Cardinality(1..Len(names)) = IF 1 > Len(names) THEN 0 ELSE Len(names) - 1 + 1
    BY <2>1, FS_Interval
  <2> QED
    BY <2>2
<1> QED
  BY <1>1, <1>2, <1>3, FS_Surjection

\* A name of its own for every column, the same as in the header where it was free: the
\* first i names.
GivenSoFar(header, i) ==
    {names \in Seq(NamesOver(header)) :
        /\ Len(names) = i
        /\ \A j, m \in 1..i : names[j] = names[m] => j = m
        /\ \A j \in 1..i :
              \/ names[j] = ColumnName(header[j])
              \/ /\ names[j] \notin Mentioned(header) /\ names[j].behind # <<>>
                 /\ \E m \in 1..i : m # j /\ names[m] = ColumnName(header[j])}

\* The next name is new, and is the one of the header unless that is taken.
LEMMA GivenStep ==
    ASSUME NEW header, IsHeader(header), NEW i \in 1..Len(header),
           NEW names \in GivenSoFar(header, i - 1)
    PROVE  Append(names, GivenName(names, header[i], Mentioned(header)))
              \in GivenSoFar(header, i)
<1> DEFINE new == GivenName(names, header[i], Mentioned(header))
           longer == Append(names, new)
           U == NamesOver(header)
<1>1. /\ names \in Seq(U) /\ Len(names) = i - 1 /\ DOMAIN names = 1..(i-1) /\ i - 1 \in Nat
      /\ \A j, m \in 1..(i-1) : names[j] = names[m] => j = m
      /\ \A j \in 1..(i-1) :
            \/ names[j] = ColumnName(header[j])
            \/ /\ names[j] \notin Mentioned(header) /\ names[j].behind # <<>>
               /\ \E m \in 1..(i-1) : m # j /\ names[m] = ColumnName(header[j])
  BY HeaderFacts DEF GivenSoFar
<1>2. /\ new \in U /\ new \notin ToSet(names)
      /\ \/ new = ColumnName(header[i])
         \/ /\ new \notin Mentioned(header) /\ new.behind # <<>>
            /\ \E m \in 1..(i-1) : names[m] = ColumnName(header[i])
  <2> DEFINE base == ColumnName(header[i])
  <2>1. base \in U /\ IsName(base)
    BY HeaderFacts
  <2>2. CASE base \notin ToSet(names)
    BY <2>1, <2>2 DEF GivenName
  <2>3. CASE base \in ToSet(names)
    <3> DEFINE taken == ToSet(names) \cup Mentioned(header)
    <3>1. IsFiniteSet(taken)
      <4>1. IsFiniteSet(ToSet(names))
        BY <1>1, RangeFacts
      <4> QED
        BY <4>1, HeaderFacts, FS_Union
    <3>2. new = Counted(base, taken)
      BY <2>3 DEF GivenName
    <3> HIDE DEF taken, base
    <3>3. PICK n \in Nat : Counted(base, taken) = Behind(base, n) /\ Behind(base, n) \notin taken
      BY <2>1, <3>1, CountedIsNew
    <3>4. /\ Behind(base, n) = [text |-> base.text, behind |-> Append(base.behind, n)]
          /\ Append(base.behind, n) \in Seq(Nat) /\ Append(base.behind, n) # <<>>
      BY <2>1, BehindFacts
    <3>5. new \in U /\ new.behind # <<>>
      <4>1. base.text \in {ColumnName(h).text : h \in ToSet(header)}
        BY <2>1 DEF NamesOver
      <4> HIDE DEF new
      <4> QED
        BY <3>2, <3>3, <3>4, <4>1 DEF NamesOver
    <3>6. \E m \in 1..(i-1) : names[m] = base
      BY <1>1, <2>3 DEF ToSet
    <3> QED
      BY <3>2, <3>3, <3>5, <3>6 DEF taken, base
  <2> QED
    BY <2>2, <2>3
<1> HIDE DEF new, U
<1>3. /\ longer \in Seq(U) /\ Len(longer) = i /\ longer[i] = new
      /\ \A j \in 1..(i-1) : longer[j] = names[j]
  BY <1>1, <1>2
<1> HIDE DEF longer
<1>4. \A j \in 1..i : j \in 1..(i-1) \/ j = i
  OBVIOUS
<1>5. \A j \in 1..(i-1) : names[j] # new
  BY <1>1, <1>2 DEF ToSet
<1>6. \A j, m \in 1..i : longer[j] = longer[m] => j = m
  BY <1>1, <1>3, <1>4, <1>5
<1>7. ASSUME NEW j \in 1..i
      PROVE  \/ longer[j] = ColumnName(header[j])
             \/ /\ longer[j] \notin Mentioned(header) /\ longer[j].behind # <<>>
                /\ \E m \in 1..i : m # j /\ longer[m] = ColumnName(header[j])
  <2>1. CASE j = i
    <3>1. \A m \in 1..(i-1) : m \in 1..i /\ m # j
      BY <2>1
    <3> QED
      BY <1>2, <1>3, <2>1, <3>1
  <2>2. CASE j # i
    <3>1. j \in 1..(i-1) /\ \A m \in 1..(i-1) : m \in 1..i
      BY <2>2
    <3> QED
      BY <1>1, <1>3, <3>1
  <2> QED
    BY <2>1, <2>2
<1>8. longer \in GivenSoFar(header, i)
  BY <1>3, <1>6, <1>7 DEF GivenSoFar, U
<1> QED
  BY <1>8 DEF longer, new

\* So all names are: the recursion exists, and each of its steps is such a one.
LEMMA GivenNamesFit ==
    ASSUME NEW header, IsHeader(header)
    PROVE  GivenNames(header) \in GivenSoFar(header, Len(header))
<1> DEFINE n == Len(header)
           T == [i \in 0..n |-> GivenSoFar(header, i)]
           Next(names, i) == Append(names, GivenName(names, header[i], Mentioned(header)))
           F == [w \in Seq(NamesOver(header)) \X (1..n) |-> Next(w[1], w[2])]
           Fits(g) == g = [i \in 0..n |-> IF i = 0 THEN <<>> ELSE Next(g[i-1], i)]
<1>1. n \in Nat
  BY HeaderFacts
<1>2. <<>> \in T[0]
  <2>1. <<>> \in GivenSoFar(header, 0)
    BY DEF GivenSoFar
  <2> QED
    BY <1>1, <2>1
<1>3. \A i \in 1..n : T[i-1] = GivenSoFar(header, i-1) /\ T[i] = GivenSoFar(header, i)
  BY <1>1
<1>4. \A i \in 1..n : \A names \in T[i-1] : Next(names, i) \in T[i]
  BY <1>3, GivenStep
<1>5. \A i \in 1..n : \A names \in T[i-1] : F[<<names, i>>] = Next(names, i)
  <2>1. \A i \in 1..n : \A names \in T[i-1] : names \in Seq(NamesOver(header))
    BY <1>3 DEF GivenSoFar
  <2> HIDE DEF T, Next
  <2> QED
    BY <2>1
<1> HIDE DEF T, F, Next, n
<1>6. PICK g : IsRecursion(g, n, <<>>, F) /\ \A i \in 0..n : g[i] \in T[i]
  <2>1. \A i \in 1..n : \A names \in T[i-1] : F[<<names, i>>] \in T[i]
    BY <1>4, <1>5
  <2> HIDE DEF Fits
  <2> QED
    BY <1>1, <1>2, <2>1, Recursion
<1>7. Fits(g)
  <2>1. \A i \in 0..n : i # 0 => F[<<g[i-1], i>>] = Next(g[i-1], i)
    <3> SUFFICES ASSUME NEW i \in 0..n, i # 0 PROVE F[<<g[i-1], i>>] = Next(g[i-1], i)
      OBVIOUS
    <3>1. i \in 1..n /\ i - 1 \in 0..n
      BY <1>1
    <3> QED
      BY <1>5, <1>6, <3>1
  <2> QED
    BY <1>6, <2>1 DEF IsRecursion
<1>8. GivenNames(header) = (CHOOSE h : Fits(h))[n]
  BY DEF GivenNames, Next, n
<1>9. PICK h : h = (CHOOSE f : Fits(f)) /\ Fits(h)
  <2> HIDE DEF Fits
  <2> QED
    BY <1>7
<1>10. h[n] \in T[n]
  <2>1. h = [i \in 0..n |-> IF i = 0 THEN <<>> ELSE Next(h[i-1], i)]
    BY <1>9
  <2>2. h[0] = <<>> /\ \A i \in 1..n : h[i] = Next(h[i-1], i)
    <3>1. \A i \in 0..n : h[i] = IF i = 0 THEN <<>> ELSE Next(h[i-1], i)
      BY ONLY <2>1
    <3> QED
      BY ONLY <1>1, <3>1
  <2>3. \A i \in 0..n : h[i] \in T[i]
    BY <1>1, <1>2, <1>4, <2>2, StepByStep
  <2> QED
    BY <1>1, <2>3
<1> QED
  BY <1>1, <1>8, <1>9, <1>10 DEF T, n

\* The same of tables from Lark, whose names are labels with their column behind them.
LEMMA LabelFacts ==
    ASSUME NEW header, IsHeader(header), NEW i \in 1..Len(header)
    PROVE  Label(header, i) \in NamesOver(header)
<1> DEFINE h == header[i]
           base == ColumnName(h)
<1>1. /\ base \in NamesOver(header) /\ IsName(base) /\ i \in Nat
      /\ base = IF IsBlank(h.name) THEN Unnamed ELSE h.name
  BY HeaderFacts DEF ColumnName
<1>2. Label(header, i) = base \/ Label(header, i) = Behind(base, i)
  BY <1>1 DEF Label
<1>3. /\ Behind(base, i) = [text |-> base.text, behind |-> Append(base.behind, i)]
      /\ Append(base.behind, i) \in Seq(Nat)
  BY <1>1, BehindFacts
<1>4. base.text \in {ColumnName(g).text : g \in ToSet(header)}
  BY <1>1 DEF NamesOver
<1> HIDE DEF base
<1>5. Behind(base, i) \in NamesOver(header)
  BY <1>3, <1>4 DEF NamesOver
<1> QED
  BY <1>1, <1>2, <1>5

Often(name, i, n) == name.behind \o [j \in 1..n |-> i]

LEMMA OftenFacts ==
    ASSUME NEW name, IsName(name), NEW i \in Nat, NEW n \in Nat
    PROVE  /\ BehindOften(name, i, n) = [text |-> name.text, behind |-> Often(name, i, n)]
           /\ Often(name, i, n) \in Seq(Nat)
           /\ Len(Often(name, i, n)) = Len(name.behind) + n
<1> DEFINE text == name.text
           behind == name.behind
           more == [j \in 1..n |-> i]
<1>1. name = [text |-> text, behind |-> behind] /\ behind \in Seq(Nat)
  BY DEF IsName
<1>2. more \in Seq(Nat) /\ Len(more) = n
  <2>1. more \in [1..n -> Nat]
    OBVIOUS
  <2> HIDE DEF more
  <2>2. more \in Seq(Nat) /\ DOMAIN more = 1..n
    BY <2>1
  <2> QED
    BY <2>2, LenProperties
<1>3. BehindOften(name, i, n) = [name EXCEPT !.behind = behind \o more]
  BY DEF BehindOften
<1> HIDE DEF text, behind, more
<1>4. behind \o more \in Seq(Nat) /\ Len(behind \o more) = Len(behind) + n
  BY <1>1, <1>2
<1>5. BehindOften(name, i, n) = [text |-> text, behind |-> behind \o more]
  BY <1>1, <1>3
<1> QED
  BY <1>4, <1>5 DEF Often, text, behind, more

LarkSoFar(header, i) ==
    {names \in Seq(NamesOver(header)) :
        /\ Len(names) = i
        /\ \A j, m \in 1..i : names[j] = names[m] => j = m
        /\ \A j \in 1..i : names[j] # Prototype}

\* Of more names than there are columns so far, one is new and is no key of objects.
LEMMA LarkStep ==
    ASSUME NEW header, IsHeader(header), NEW i \in 1..Len(header),
           NEW names \in LarkSoFar(header, i - 1)
    PROVE  Append(names, LarkName(names, header, i)) \in LarkSoFar(header, i)
<1> DEFINE label == Label(header, i)
           taken == ToSet(names) \cup {Prototype}
           f == [n \in 0..(i + 1) |-> BehindOften(label, i, n)]
           first == FirstFree(0, i + 1, f, taken)
           new == LarkName(names, header, i)
           longer == Append(names, new)
           U == NamesOver(header)
<1>1. /\ names \in Seq(U) /\ Len(names) = i - 1 /\ DOMAIN names = 1..(i-1) /\ i - 1 \in Nat
      /\ i \in Nat
      /\ \A j, m \in 1..(i-1) : names[j] = names[m] => j = m
      /\ \A j \in 1..(i-1) : names[j] # Prototype
  BY HeaderFacts DEF LarkSoFar
<1>2. label \in U /\ IsName(label)
  BY LabelFacts, HeaderFacts
<1>3. \A n \in 0..(i + 1) :
         /\ f[n] = [text |-> label.text, behind |-> Often(label, i, n)]
         /\ Often(label, i, n) \in Seq(Nat)
         /\ Len(Often(label, i, n)) = Len(label.behind) + n
  <2> SUFFICES ASSUME NEW n \in 0..(i + 1)
               PROVE  /\ f[n] = [text |-> label.text, behind |-> Often(label, i, n)]
                      /\ Often(label, i, n) \in Seq(Nat)
                      /\ Len(Often(label, i, n)) = Len(label.behind) + n
    OBVIOUS
  <2>1. f[n] = BehindOften(label, i, n) /\ n \in Nat
    OBVIOUS
  <2> HIDE DEF f, label
  <2> QED
    BY <1>1, <1>2, <2>1, OftenFacts
<1>4. \A n, m \in 0..(i + 1) : f[n] = f[m] => n = m
  <2> SUFFICES ASSUME NEW n \in 0..(i + 1), NEW m \in 0..(i + 1), f[n] = f[m] PROVE n = m
    OBVIOUS
  <2> HIDE DEF f, label
  <2>3. f[n].behind = Often(label, i, n) /\ f[m].behind = Often(label, i, m)
    <3>1. /\ f[n] = [text |-> label.text, behind |-> Often(label, i, n)]
          /\ f[m] = [text |-> label.text, behind |-> Often(label, i, m)]
      BY <1>3
    <3> QED
      BY ONLY <3>1
  <2>1. Len(f[n].behind) = Len(label.behind) + n /\ Len(f[m].behind) = Len(label.behind) + m
    BY ONLY <1>3, <2>3, n \in 0..(i + 1), m \in 0..(i + 1)
  <2>2. Len(label.behind) \in Nat
    BY <1>2 DEF IsName
  <2> QED
    BY <2>1, <2>2
<1>5. \A n \in 0..(i + 1) : f[n] \in U
  <2> HIDE DEF f, label
  <2>1. label.text \in {ColumnName(h).text : h \in ToSet(header)}
    BY <1>2 DEF NamesOver, U
  <2>2. ASSUME NEW n \in 0..(i + 1) PROVE f[n] \in U
    <3>1. /\ f[n] = [text |-> label.text, behind |-> Often(label, i, n)]
          /\ Often(label, i, n) \in Seq(Nat)
      BY <1>3
    <3> QED
      BY <2>1, <3>1 DEF NamesOver
  <2> QED
    BY <2>2
<1>6. IsFiniteSet(taken) /\ Cardinality(taken) <= (i + 1) - 0
  <2>1. IsFiniteSet(ToSet(names)) /\ Cardinality(ToSet(names)) <= i - 1
    BY <1>1, RangeFacts
  <2>2. IsFiniteSet({Prototype}) /\ Cardinality({Prototype}) = 1
    BY FS_Singleton
  <2>3. /\ IsFiniteSet(taken)
        /\ Cardinality(taken) = Cardinality(ToSet(names)) + Cardinality({Prototype})
                                - Cardinality(ToSet(names) \cap {Prototype})
    BY <2>1, <2>2, FS_Union
  <2>4. Cardinality(ToSet(names)) \in Nat /\ Cardinality(ToSet(names) \cap {Prototype}) \in Nat
    BY <2>1, FS_Intersection, FS_CardinalityType
  <2> QED
    BY <1>1, <2>1, <2>2, <2>3, <2>4
<1>7. first \in 0..(i + 1) /\ f[first] \notin taken
  <2> HIDE DEF f, taken
  <2> QED
    BY <1>1, <1>4, <1>6, SomeAreFree
<1>8. new = f[first]
  <2>1. {n \in 0..(i + 1) : BehindOften(label, i, n) \notin taken}
           = {n \in 0..(i + 1) : f[n] \notin taken}
    OBVIOUS
  <2>2. new = BehindOften(label, i, first)
    BY <2>1 DEF LarkName, FirstFree
  <2> HIDE DEF first
  <2> QED
    BY <1>7, <2>2
<1>9. new \in U /\ new \notin ToSet(names) /\ new # Prototype
  <2> HIDE DEF f, first, new
  <2> QED
    BY <1>5, <1>7, <1>8
<1> HIDE DEF new, U, label, f, first, taken
<1>10. /\ longer \in Seq(U) /\ Len(longer) = i /\ longer[i] = new
       /\ \A j \in 1..(i-1) : longer[j] = names[j]
  BY <1>1, <1>9
<1> HIDE DEF longer
<1>11. \A j \in 1..i : j \in 1..(i-1) \/ j = i
  OBVIOUS
<1>12. \A j \in 1..(i-1) : names[j] # new
  BY <1>1, <1>9 DEF ToSet
<1>13. \A j, m \in 1..i : longer[j] = longer[m] => j = m
  BY <1>1, <1>10, <1>11, <1>12
<1>14. \A j \in 1..i : longer[j] # Prototype
  BY <1>1, <1>9, <1>10, <1>11
<1>15. longer \in LarkSoFar(header, i)
  BY <1>10, <1>13, <1>14 DEF LarkSoFar, U
<1> QED
  BY <1>15 DEF longer, new

LEMMA LarkNamesFit ==
    ASSUME NEW header, IsHeader(header)
    PROVE  LarkNames(header) \in LarkSoFar(header, Len(header))
<1> DEFINE n == Len(header)
           T == [i \in 0..n |-> LarkSoFar(header, i)]
           Next(names, i) == Append(names, LarkName(names, header, i))
           F == [w \in Seq(NamesOver(header)) \X (1..n) |-> Next(w[1], w[2])]
           Fits(g) == g = [i \in 0..n |-> IF i = 0 THEN <<>> ELSE Next(g[i-1], i)]
<1>1. n \in Nat
  BY HeaderFacts
<1>2. <<>> \in T[0]
  <2>1. <<>> \in LarkSoFar(header, 0)
    BY DEF LarkSoFar
  <2> QED
    BY <1>1, <2>1
<1>3. \A i \in 1..n : T[i-1] = LarkSoFar(header, i-1) /\ T[i] = LarkSoFar(header, i)
  BY <1>1
<1>4. \A i \in 1..n : \A names \in T[i-1] : Next(names, i) \in T[i]
  BY <1>3, LarkStep
<1>5. \A i \in 1..n : \A names \in T[i-1] : F[<<names, i>>] = Next(names, i)
  <2>1. \A i \in 1..n : \A names \in T[i-1] : names \in Seq(NamesOver(header))
    BY <1>3 DEF LarkSoFar
  <2> HIDE DEF T, Next
  <2> QED
    BY <2>1
<1> HIDE DEF T, F, Next, n
<1>6. PICK g : IsRecursion(g, n, <<>>, F) /\ \A i \in 0..n : g[i] \in T[i]
  <2>1. \A i \in 1..n : \A names \in T[i-1] : F[<<names, i>>] \in T[i]
    BY <1>4, <1>5
  <2> HIDE DEF Fits
  <2> QED
    BY <1>1, <1>2, <2>1, Recursion
<1>7. Fits(g)
  <2>1. \A i \in 0..n : i # 0 => F[<<g[i-1], i>>] = Next(g[i-1], i)
    <3> SUFFICES ASSUME NEW i \in 0..n, i # 0 PROVE F[<<g[i-1], i>>] = Next(g[i-1], i)
      OBVIOUS
    <3>1. i \in 1..n /\ i - 1 \in 0..n
      BY <1>1
    <3> QED
      BY <1>5, <1>6, <3>1
  <2> QED
    BY <1>6, <2>1 DEF IsRecursion
<1>8. LarkNames(header) = (CHOOSE h : Fits(h))[n]
  BY DEF LarkNames, Next, n
<1>9. PICK h : h = (CHOOSE f : Fits(f)) /\ Fits(h)
  <2> HIDE DEF Fits
  <2> QED
    BY <1>7
<1>10. h[n] \in T[n]
  <2>1. h = [i \in 0..n |-> IF i = 0 THEN <<>> ELSE Next(h[i-1], i)]
    BY <1>9
  <2>2. h[0] = <<>> /\ \A i \in 1..n : h[i] = Next(h[i-1], i)
    <3>1. \A i \in 0..n : h[i] = IF i = 0 THEN <<>> ELSE Next(h[i-1], i)
      BY ONLY <2>1
    <3> QED
      BY ONLY <1>1, <3>1
  <2>3. \A i \in 0..n : h[i] \in T[i]
    BY <1>1, <1>2, <1>4, <2>2, StepByStep
  <2> QED
    BY <1>1, <2>3
<1> QED
  BY <1>1, <1>8, <1>9, <1>10 DEF T, n

-----------------------------------------------------------------------------
(* Tables: the inductive invariant *)

Header == uploaded.header
CellsOf(name) == {RowOf(Names, uploaded.rows[r])[name] : r \in DOMAIN uploaded.rows}
SaysDate(name) == \E d \in uploaded.dates : Names[d] = name
StoredRow(r) ==
    [name \in ToSet(Names) |-> Written(RowOf(Names, uploaded.rows[r])[name])]
StoredProfile(name) == [name |-> name, type |-> InferredType(CellsOf(name), SaysDate(name))]
StoredAs(columns) ==
    [columns |-> columns,
     rows |-> [r \in DOMAIN uploaded.rows |-> StoredRow(r)],
     profiles |-> [i \in DOMAIN columns |-> StoredProfile(columns[i])]]
LoadedRow(r) == Restrict(StoredRow(r), DOMAIN StoredRow(r) \ {Prototype})

\* The columns are the names, each of them once.
ColumnsFit(columns) ==
    /\ columns \in Seq(NamesOver(Header)) /\ Len(columns) = Len(Header)
    /\ IsInjective(columns) /\ ToSet(columns) = ToSet(Names)

IsStored == \E columns : ColumnsFit(columns) /\ parsedAs = StoredAs(columns)
IsLoaded ==
    \E columns :
       /\ ColumnsFit(columns)
       /\ loadedAs = [columns |-> columns,
                      rows |-> [r \in DOMAIN uploaded.rows |-> LoadedRow(r)],
                      profiles |-> [i \in DOMAIN columns |-> StoredProfile(columns[i])]]

TableInv ==
    /\ uploaded \in Tables
    /\ tableStage \in {"uploaded", "refused", "stored", "loaded"}
    /\ tableStage = "stored" => Accepts /\ IsStored
    /\ tableStage = "loaded" => IsLoaded

LEMMA TableFacts ==
    ASSUME uploaded \in Tables
    PROVE  /\ IsHeader(Header)
           /\ Len(uploaded.rows) \in Nat /\ DOMAIN uploaded.rows = 1..Len(uploaded.rows)
<1>1. /\ uploaded.header \in Seq(ToSet(uploaded.header))
      /\ uploaded.rows \in Seq(ToSet(uploaded.rows))
      /\ \A h \in ToSet(uploaded.header) :
            /\ h.name = [text |-> h.name.text, behind |-> h.name.behind]
            /\ h.name.behind \in Seq(Nat)
  BY TableNormalizationAssumption
<1> QED
  BY <1>1, LenProperties DEF IsHeader, IsName, Header

\* Names of their own, in every source.
LEMMA NamesFacts ==
    ASSUME uploaded \in Tables
    PROVE  /\ Names \in Seq(NamesOver(Header)) /\ Len(Names) = Len(Header)
           /\ DOMAIN Names = 1..Len(Header) /\ IsInjective(Names)
           /\ \A i \in 1..Len(Header) :
                 \/ uploaded.source = "lark" /\ Names[i] # Prototype
                 \/ /\ uploaded.source # "lark"
                    /\ \/ Names[i] = ColumnName(Header[i])
                       \/ /\ Names[i] # Prototype
                          /\ \E j \in 1..Len(Header) :
                                j # i /\ ColumnName(Header[j]) = ColumnName(Header[i])
<1>1. IsHeader(Header) /\ Len(Header) \in Nat
  BY TableFacts, HeaderFacts
<1>2. CASE uploaded.source = "lark"
  <2>1. Names = LarkNames(Header)
    BY <1>2 DEF Names, Header
  <2>2. LarkNames(Header) \in LarkSoFar(Header, Len(Header))
    BY <1>1, LarkNamesFit
  <2>3. /\ Names \in Seq(NamesOver(Header)) /\ Len(Names) = Len(Header)
        /\ \A j, m \in 1..Len(Header) : Names[j] = Names[m] => j = m
        /\ \A j \in 1..Len(Header) : Names[j] # Prototype
    BY <2>1, <2>2 DEF LarkSoFar
  <2>4. DOMAIN Names = 1..Len(Header)
    BY <2>3, LenProperties
  <2> QED
    BY <1>2, <2>3, <2>4 DEF IsInjective
<1>3. CASE uploaded.source # "lark"
  <2>1. Names = GivenNames(Header)
    BY <1>3 DEF Names, Header
  <2>2. GivenNames(Header) \in GivenSoFar(Header, Len(Header))
    BY <1>1, GivenNamesFit
  <2>3. /\ Names \in Seq(NamesOver(Header)) /\ Len(Names) = Len(Header)
        /\ \A j, m \in 1..Len(Header) : Names[j] = Names[m] => j = m
        /\ \A j \in 1..Len(Header) :
              \/ Names[j] = ColumnName(Header[j])
              \/ /\ Names[j] \notin Mentioned(Header) /\ Names[j].behind # <<>>
                 /\ \E m \in 1..Len(Header) : m # j /\ Names[m] = ColumnName(Header[j])
    BY <2>1, <2>2 DEF GivenSoFar
  <2>4. DOMAIN Names = 1..Len(Header)
    BY <2>3, LenProperties
  <2>5. \A i \in 1..Len(Header) : ColumnName(Header[i]) \in Mentioned(Header)
    BY <1>1, HeaderFacts
  <2>6. ASSUME NEW i \in 1..Len(Header), Names[i] # ColumnName(Header[i])
        PROVE  /\ Names[i] # Prototype
               /\ \E j \in 1..Len(Header) :
                     j # i /\ ColumnName(Header[j]) = ColumnName(Header[i])
    <3>1. Prototype.behind = <<>>
      BY DEF Prototype, Name
    <3>2. PICK m \in 1..Len(Header) : m # i /\ Names[m] = ColumnName(Header[i])
      BY <2>3, <2>6
    <3>3. Names[m] \in Mentioned(Header)
      BY <2>5, <3>2
    <3>4. Names[m] = ColumnName(Header[m])
      BY <2>3, <3>3
    <3> QED
      BY <2>3, <2>6, <3>1, <3>2, <3>4
  <2> QED
    BY <1>3, <2>3, <2>4, <2>6 DEF IsInjective
<1> QED
  BY <1>2, <1>3

\* The keys of a row, in whatever order, are the names, each of them once.
LEMMA OrdersFit ==
    ASSUME uploaded \in Tables, NEW columns \in ColumnOrders
    PROVE  ColumnsFit(columns)
<1>1. /\ Names \in Seq(NamesOver(Header)) /\ Len(Names) = Len(Header)
      /\ DOMAIN Names = 1..Len(Header) /\ IsInjective(Names)
  BY NamesFacts
<1>2. CASE uploaded.source = "lark"
  BY <1>1, <1>2 DEF ColumnOrders, ColumnsFit
<1>3. CASE uploaded.source # "lark"
  <2> DEFINE n == Cardinality(ToSet(Names))
  <2>1. Len(Header) \in Nat
    BY TableFacts, HeaderFacts
  <2>2. n = Len(Header)
    BY <1>1, <2>1, RangeFacts
  <2>3. columns \in Bijection(1..n, ToSet(Names))
    BY <1>3 DEF ColumnOrders, KeyOrders
  <2> HIDE DEF n
  <2>4. /\ columns \in [1..n -> ToSet(Names)]
        /\ \A i, j \in 1..n : columns[i] = columns[j] => i = j
        /\ \A name \in ToSet(Names) : \E i \in 1..n : columns[i] = name
    BY <2>3 DEF Bijection, Injection, Surjection, IsInjective
  <2>5. ToSet(Names) \subseteq NamesOver(Header)
    BY <1>1 DEF ToSet
  <2>6. columns \in Seq(NamesOver(Header)) /\ DOMAIN columns = 1..n
    BY <2>1, <2>2, <2>4, <2>5
  <2>7. Len(columns) = n
    BY <2>1, <2>2, <2>6, LenProperties
  <2>8. ToSet(columns) = ToSet(Names)
    BY <2>4, <2>6 DEF ToSet
  <2> QED
    BY <2>2, <2>4, <2>6, <2>7, <2>8 DEF ColumnsFit, IsInjective
<1> QED
  BY <1>2, <1>3

LEMMA TableIsStored ==
    ASSUME uploaded \in Tables, StoreTable
    PROVE  \E columns : ColumnsFit(columns) /\ parsedAs' = StoredAs(columns)
<1> DEFINE rows == [r \in DOMAIN uploaded.rows |-> RowOf(Names, uploaded.rows[r])]
           Profile(columns, i) ==
              [name |-> columns[i],
               type |-> InferredType({rows[r][columns[i]] : r \in DOMAIN rows},
                                     \E d \in uploaded.dates : Names[d] = columns[i])]
<1>1. PICK columns \in ColumnOrders :
         parsedAs' = [columns |-> columns,
                      rows |-> [r \in DOMAIN rows |->
                                   [n \in DOMAIN rows[r] |-> Written(rows[r][n])]],
                      profiles |-> [i \in DOMAIN columns |-> Profile(columns, i)]]
  BY DEF StoreTable
<1>2. ColumnsFit(columns)
  BY OrdersFit
<1>3. [r \in DOMAIN rows |-> [n \in DOMAIN rows[r] |-> Written(rows[r][n])]]
         = [r \in DOMAIN uploaded.rows |-> StoredRow(r)]
  BY DEF StoredRow, RowOf
<1>4. \A i : Profile(columns, i) = StoredProfile(columns[i])
  <2> SUFFICES ASSUME NEW i PROVE Profile(columns, i) = StoredProfile(columns[i])
    OBVIOUS
  <2>1. {rows[r][columns[i]] : r \in DOMAIN rows} = CellsOf(columns[i])
    BY DEF CellsOf
  <2>2. (\E d \in uploaded.dates : Names[d] = columns[i]) = SaysDate(columns[i])
    BY DEF SaysDate
  <2> QED
    BY <2>1, <2>2 DEF StoredProfile
<1>5. parsedAs' = StoredAs(columns)
  <2> HIDE DEF Profile
  <2>1. [i \in DOMAIN columns |-> Profile(columns, i)]
           = [i \in DOMAIN columns |-> StoredProfile(columns[i])]
    BY <1>4
  <2> QED
    BY <1>1, <1>3, <2>1 DEF StoredAs
<1> QED
  BY <1>2, <1>5

LEMMA ColumnsFacts ==
    ASSUME uploaded \in Tables, NEW columns, ColumnsFit(columns)
    PROVE  /\ Len(Header) \in Nat /\ Len(columns) = Len(Header)
           /\ DOMAIN columns = 1..Len(Header)
           /\ columns = [i \in 1..Len(Header) |-> columns[i]]
           /\ \A i \in 1..Len(Header) : columns[i] \in ToSet(Names) /\ ~IsBlank(columns[i])
           /\ \A name \in ToSet(Names) : \E i \in 1..Len(Header) : columns[i] = name
           /\ \A i, j \in 1..Len(Header) : columns[i] = columns[j] => i = j
<1>1. IsHeader(Header) /\ Len(Header) \in Nat
  BY TableFacts, HeaderFacts
<1>2. DOMAIN columns = 1..Len(Header) /\ columns \in [1..Len(Header) -> NamesOver(Header)]
  BY <1>1, LenProperties DEF ColumnsFit
<1>3. \A i \in 1..Len(Header) : columns[i] \in ToSet(columns)
  BY <1>2 DEF ToSet
<1>4. \A name \in NamesOver(Header) : ~IsBlank(name)
  BY <1>1, HeaderFacts
<1>5. \A name \in ToSet(columns) : \E i \in 1..Len(Header) : columns[i] = name
  BY <1>2 DEF ToSet
<1> QED
  BY <1>1, <1>2, <1>3, <1>4, <1>5 DEF ColumnsFit, IsInjective

\* What was stored of a table that was accepted is valid.
LEMMA StoredIsValid ==
    ASSUME uploaded \in Tables, Accepts, NEW columns, ColumnsFit(columns)
    PROVE  PayloadValid(StoredAs(columns))
<1> DEFINE n == Len(Header)
           rows == [r \in DOMAIN uploaded.rows |-> StoredRow(r)]
           profiles == [i \in 1..n |-> StoredProfile(columns[i])]
<1>1. /\ n \in Nat /\ Len(columns) = n /\ DOMAIN columns = 1..n
      /\ columns = [i \in 1..n |-> columns[i]]
      /\ \A i \in 1..n : columns[i] \in ToSet(Names) /\ ~IsBlank(columns[i])
  BY ColumnsFacts
<1>2. n > 0 /\ n <= MaxDataColumns /\ Len(uploaded.rows) <= MaxDataRows
  <2>1. Header # <<>>
    BY DEF Accepts, AcceptsDelimited, AcceptsWorkbook, AcceptsRecords, AcceptsGrid, NotEmpty,
           Header
  <2>2. Header \in Seq(ToSet(Header))
    BY TableFacts DEF IsHeader
  <2>3. n # 0
    BY <2>1, <2>2
  <2> QED
    BY <1>1, <2>3 DEF Accepts, WithinLimits, Header
<1>3. /\ StoredAs(columns).columns = columns /\ StoredAs(columns).rows = rows
      /\ StoredAs(columns).profiles = profiles
  BY <1>1 DEF StoredAs
<1>4. \A i \in 1..n : profiles[i].name = columns[i]
                      /\ profiles[i].type \in {"string", "number", "boolean", "date", "null"}
  BY DEF StoredProfile, InferredType
<1>5. Len(rows) = Len(uploaded.rows)
  <2>1. Len(uploaded.rows) \in Nat /\ DOMAIN uploaded.rows = 1..Len(uploaded.rows)
    BY TableFacts
  <2>2. rows \in [1..Len(uploaded.rows) -> {StoredRow(r) : r \in 1..Len(uploaded.rows)}]
    BY <2>1
  <2> HIDE DEF rows
  <2>3. rows \in Seq({StoredRow(r) : r \in 1..Len(uploaded.rows)})
        /\ DOMAIN rows = 1..Len(uploaded.rows)
    BY <2>1, <2>2
  <2> QED
    BY <2>1, <2>3, LenProperties
<1>6. Len(profiles) = n /\ DOMAIN profiles = 1..n
  <2>1. profiles \in [1..n -> {StoredProfile(columns[i]) : i \in 1..n}]
    OBVIOUS
  <2> HIDE DEF profiles, n
  <2>2. profiles \in Seq({StoredProfile(columns[i]) : i \in 1..n}) /\ DOMAIN profiles = 1..n
    BY <1>1, <2>1
  <2> QED
    BY <1>1, <2>2, LenProperties
<1>7. \A row \in ToSet(rows) : DOMAIN row = ToSet(columns)
  BY DEF ToSet, StoredRow, ColumnsFit
<1> HIDE DEF rows, profiles, n
<1>8. ProfilesValid(profiles)
  <2>1. ASSUME NEW p \in ToSet(profiles)
        PROVE  /\ ~IsBlank(p.name)
               /\ p.type \in {"string", "number", "boolean", "date", "null"}
    <3>1. PICK i \in 1..n : p = profiles[i]
      BY <1>6 DEF ToSet
    <3> QED
      BY <1>1, <1>4, <3>1
  <2> QED
    BY <1>2, <1>6, <2>1 DEF ProfilesValid
<1>9. [i \in DOMAIN profiles |-> profiles[i].name] = columns
  BY <1>1, <1>4, <1>6
<1>10. \A c \in ToSet(columns) : ~IsBlank(c)
  BY <1>1 DEF ToSet
<1>11. columns # <<>>
  BY <1>1, <1>2
<1>12. IsInjective(columns)
  BY DEF ColumnsFit
<1> QED
  BY <1>1, <1>2, <1>3, <1>5, <1>7, <1>8, <1>9, <1>10, <1>11, <1>12 DEF PayloadValid

\* What is said of a table stays true while it is the same.
LEMMA SameTable ==
    ASSUME uploaded' = uploaded
    PROVE  /\ Accepts' <=> Accepts
           /\ \A columns : /\ ColumnsFit(columns)' <=> ColumnsFit(columns)
                           /\ StoredAs(columns)' = StoredAs(columns)
           /\ \A r : LoadedRow(r)' = LoadedRow(r)
           /\ \A name : StoredProfile(name)' = StoredProfile(name)
<1>1. Names' = Names /\ Header' = Header
  BY DEF Names, Header
<1>2. \A i : Column(i)' = Column(i)
  BY DEF Column
<1>3. \A i, value : CellAt(i, value)' = CellAt(i, value)
  BY <1>2 DEF CellAt, Delimited, Typed
<1>4. \A names, row : RowOf(names, row)' = RowOf(names, row)
  BY <1>3 DEF RowOf
<1>5. \A name : CellsOf(name)' = CellsOf(name) /\ SaysDate(name)' = SaysDate(name)
  BY <1>1, <1>4 DEF CellsOf, SaysDate
<1>6. \A cells, says : InferredType(cells, says)' = InferredType(cells, says)
  BY DEF InferredType
<1>7. \A name : StoredProfile(name)' = StoredProfile(name)
  BY <1>5, <1>6 DEF StoredProfile
<1>8. \A r : StoredRow(r)' = StoredRow(r)
  BY <1>1, <1>4 DEF StoredRow
<1>9. \A r : LoadedRow(r)' = LoadedRow(r)
  BY <1>8 DEF LoadedRow
<1>10. \A columns : StoredAs(columns)' = StoredAs(columns)
  BY <1>7, <1>8 DEF StoredAs
<1>11. \A columns : ColumnsFit(columns)' <=> ColumnsFit(columns)
  BY <1>1 DEF ColumnsFit
<1>12. Accepts' <=> Accepts
  BY DEF Accepts, WithinLimits, AcceptsDelimited, AcceptsWorkbook, AcceptsRecords, AcceptsGrid,
         NotEmpty
<1> QED
  BY <1>7, <1>9, <1>10, <1>11, <1>12

\* So the worker takes what was stored.
LEMMA TableIsLoaded ==
    ASSUME TableInv, LoadTable
    PROVE  tableStage' = "loaded" /\ IsLoaded'
<1>1. tableStage = "stored" /\ uploaded \in Tables /\ Accepts
  BY DEF LoadTable, TableInv
<1>2. PICK columns : ColumnsFit(columns) /\ parsedAs = StoredAs(columns)
  BY <1>1 DEF TableInv, IsStored
<1>3. PayloadValid(parsedAs)
  BY <1>1, <1>2, StoredIsValid
<1>4. /\ loadedAs' = [parsedAs EXCEPT !.rows =
                         [r \in DOMAIN @ |-> Restrict(@[r], DOMAIN @[r] \ {Prototype})]]
      /\ tableStage' = "loaded" /\ uploaded' = uploaded
  BY <1>3 DEF LoadTable
<1> DEFINE rows == [r \in DOMAIN uploaded.rows |-> StoredRow(r)]
           profiles == [i \in DOMAIN columns |-> StoredProfile(columns[i])]
           kept == [r \in DOMAIN uploaded.rows |-> LoadedRow(r)]
<1>5. parsedAs = [columns |-> columns, rows |-> rows, profiles |-> profiles]
  BY <1>2 DEF StoredAs
<1>6. [r \in DOMAIN parsedAs.rows |->
          Restrict(parsedAs.rows[r], DOMAIN parsedAs.rows[r] \ {Prototype})] = kept
  <2>1. parsedAs.rows = rows
    BY <1>5
  <2>2. DOMAIN rows = DOMAIN uploaded.rows
        /\ \A r \in DOMAIN uploaded.rows : rows[r] = StoredRow(r)
    OBVIOUS
  <2> HIDE DEF rows
  <2> QED
    BY <2>1, <2>2 DEF LoadedRow
<1>7. loadedAs' = [parsedAs EXCEPT !.rows = kept]
  BY <1>4, <1>6
<1>8. loadedAs' = [columns |-> columns, rows |-> kept, profiles |-> profiles]
  <2> HIDE DEF rows, profiles, kept
  <2> QED
    BY <1>5, <1>7
<1>9. ColumnsFit(columns)' /\ loadedAs' = [columns |-> columns,
                      rows |-> [r \in DOMAIN uploaded.rows |-> LoadedRow(r)],
                      profiles |-> [i \in DOMAIN columns |-> StoredProfile(columns[i])]]'
  <2>1. ColumnsFit(columns)'
    BY <1>2, <1>4, SameTable
  <2>2. [r \in DOMAIN uploaded.rows |-> LoadedRow(r)]' = kept
    BY <1>4, SameTable
  <2>3. [i \in DOMAIN columns |-> StoredProfile(columns[i])]' = profiles
    BY <1>4, SameTable
  <2> HIDE DEF rows, profiles, kept
  <2> QED
    BY <1>8, <2>1, <2>2, <2>3
<1> HIDE DEF rows, profiles, kept
<1> QED
  BY <1>4, <1>9 DEF IsLoaded

LEMMA TableStep ==
    ASSUME TableInv, [TableNormalizationNext]_tableVars
    PROVE  TableInv'
<1>1. CASE StoreTable
  <2>1. uploaded \in Tables /\ uploaded' = uploaded /\ tableStage' = "stored" /\ Accepts
    BY <1>1 DEF StoreTable, TableInv
  <2>2. PICK columns : ColumnsFit(columns) /\ parsedAs' = StoredAs(columns)
    BY <1>1, <2>1, TableIsStored
  <2>3. ColumnsFit(columns)' /\ parsedAs' = StoredAs(columns)'
    BY <2>1, <2>2, SameTable
  <2>4. IsStored' /\ Accepts'
    BY <2>1, <2>3, SameTable DEF IsStored
  <2> QED
    BY <2>1, <2>4 DEF TableInv
<1>2. CASE RefuseTable
  BY <1>2 DEF RefuseTable, TableInv
<1>3. CASE LoadTable
  <2>1. tableStage' = "loaded" /\ IsLoaded'
    BY <1>3, TableIsLoaded
  <2>2. uploaded' = uploaded
    BY <1>3 DEF LoadTable
  <2> QED
    BY <2>1, <2>2 DEF TableInv
<1>4. CASE UNCHANGED tableVars
  <2>1. /\ uploaded' = uploaded /\ parsedAs' = parsedAs /\ loadedAs' = loadedAs
        /\ tableStage' = tableStage
    BY <1>4 DEF tableVars
  <2>2. IsStored => IsStored'
    <3> SUFFICES ASSUME NEW columns, ColumnsFit(columns), parsedAs = StoredAs(columns)
                 PROVE  ColumnsFit(columns)' /\ parsedAs' = StoredAs(columns)'
      BY DEF IsStored
    <3> QED
      BY <2>1, SameTable
  <2>3. IsLoaded => IsLoaded'
    <3> DEFINE LoadedWith(columns) ==
           loadedAs = [columns |-> columns,
                       rows |-> [r \in DOMAIN uploaded.rows |-> LoadedRow(r)],
                       profiles |-> [i \in DOMAIN columns |-> StoredProfile(columns[i])]]
    <3> SUFFICES ASSUME NEW columns, ColumnsFit(columns), LoadedWith(columns)
                 PROVE  ColumnsFit(columns)' /\ LoadedWith(columns)'
      BY DEF IsLoaded
    <3> QED
      BY <2>1, SameTable
  <2> QED
    BY <2>1, <2>2, <2>3, SameTable DEF TableInv
<1> QED
  BY <1>1, <1>2, <1>3, <1>4 DEF TableNormalizationNext

\* The inductive invariant: what is stored is valid, and so it is what was loaded.
THEOREM TableNormalizationInvariance == TableNormalizationSpec => []TableInv
<1>1. TableNormalizationInit => TableInv
  BY DEF TableNormalizationInit, TableInv
<1> QED
  BY <1>1, TableStep, PTL DEF TableNormalizationSpec

LEMMA OnlyOne == ASSUME NEW i \in Nat, NEW S, S = {i} PROVE Max(S) = i
  BY DEF Max

\* A cell with something in it is of its column's type.
LEMMA TypeIsRight ==
    ASSUME NEW cells, NEW says, NEW c \in cells, c # Null
    PROVE  /\ InferredType(cells, says) # "null"
           /\ InferredType(cells, says) \in {"number", "boolean"} =>
                 c.as = InferredType(cells, says)
           /\ InferredType(cells, says) = "date" /\ uploaded.source # "lark" => IsDate(c)
<1> DEFINE present == cells \ {Null}
           numbers == \A x \in present : x.as = "number"
           truths == \A x \in present : x.as = "boolean"
           dates == IF uploaded.source = "lark" THEN says
                    ELSE \A x \in present : x.as = "string" /\ IsDate(x)
<1>1. present # {} /\ c \in present
  OBVIOUS
<1>2. InferredType(cells, says) = IF numbers THEN "number" ELSE IF truths THEN "boolean"
                                  ELSE IF dates THEN "date" ELSE "string"
  BY <1>1 DEF InferredType
<1>3. /\ numbers => c.as = "number"
      /\ truths => c.as = "boolean"
      /\ dates /\ uploaded.source # "lark" => IsDate(c)
  BY <1>1
<1> HIDE DEF numbers, truths, dates, present
<1> QED
  BY <1>2, <1>3

\* Each column has come through.
LEMMA LoadedIsKept ==
    ASSUME uploaded \in Tables, IsLoaded, NEW i \in 1..Len(Header)
    PROVE  Kept(i) \/ (uploaded.source # "lark" /\ ColumnName(Header[i]) = Prototype)
<1>1. PICK columns :
         /\ ColumnsFit(columns)
         /\ loadedAs = [columns |-> columns,
                        rows |-> [r \in DOMAIN uploaded.rows |-> LoadedRow(r)],
                        profiles |-> [j \in DOMAIN columns |-> StoredProfile(columns[j])]]
  BY DEF IsLoaded
<1>2. /\ loadedAs.columns = columns
      /\ \A r \in DOMAIN uploaded.rows : loadedAs.rows[r] = LoadedRow(r)
      /\ loadedAs.profiles = [j \in DOMAIN columns |-> StoredProfile(columns[j])]
  BY <1>1
<1> DEFINE name == Names[i]
<1>3. /\ DOMAIN Names = 1..Len(Header) /\ IsInjective(Names) /\ Len(Header) \in Nat
      /\ \/ uploaded.source = "lark" /\ name # Prototype
         \/ /\ uploaded.source # "lark"
            /\ \/ name = ColumnName(Header[i])
               \/ /\ name # Prototype
                  /\ \E j \in 1..Len(Header) :
                        j # i /\ ColumnName(Header[j]) = ColumnName(Header[i])
  BY NamesFacts, TableFacts, HeaderFacts
<1>4. name \in ToSet(Names) /\ ToSet(columns) = ToSet(Names)
  BY <1>1, <1>3 DEF ToSet, ColumnsFit
<1>5. \A row : RowOf(Names, row)[name] = CellAt(i, At(row, i))
  <2>1. i \in Nat /\ {j \in DOMAIN Names : Names[j] = name} = {i}
    BY <1>3 DEF IsInjective
  <2>2. Max({j \in DOMAIN Names : Names[j] = name}) = i
    BY <2>1, OnlyOne
  <2> HIDE DEF name
  <2> QED
    BY <1>4, <2>2 DEF RowOf
<1>6. SUFFICES ASSUME ~(uploaded.source # "lark" /\ ColumnName(Header[i]) = Prototype)
               PROVE  Kept(i)
  OBVIOUS
<1>7. name # Prototype
  BY <1>3, <1>6
<1> DEFINE cell(r) == CellAt(i, At(uploaded.rows[r], i))
<1>8. \A r \in DOMAIN uploaded.rows : loadedAs.rows[r][name] = Written(cell(r))
  <2> SUFFICES ASSUME NEW r \in DOMAIN uploaded.rows
               PROVE  loadedAs.rows[r][name] = Written(cell(r))
    OBVIOUS
  <2> HIDE DEF name
  <2>1. StoredRow(r)[name] = Written(cell(r)) /\ name \in DOMAIN StoredRow(r)
    BY <1>4, <1>5 DEF StoredRow
  <2>2. LoadedRow(r)[name] = StoredRow(r)[name]
    BY <1>7, <2>1 DEF LoadedRow, Restrict
  <2> QED
    BY <1>2, <2>1, <2>2
<1>9. CellsOf(name) = {cell(r) : r \in DOMAIN uploaded.rows}
  BY <1>5 DEF CellsOf
<1>10. \A c : Written(c) # Null => Written(c) = c
  BY DEF Written
<1> HIDE DEF name, cell
<1>11. ASSUME NEW p \in ToSet(loadedAs.profiles), NEW r \in DOMAIN uploaded.rows,
              p.name = name, loadedAs.rows[r][name] # Null
       PROVE  /\ p.type # "null"
              /\ p.type \in {"number", "boolean"} => loadedAs.rows[r][name].as = p.type
              /\ p.type = "date" /\ uploaded.source # "lark" => IsDate(loadedAs.rows[r][name])
  <2>1. p = StoredProfile(name)
    <3>1. PICK j \in DOMAIN columns : p = StoredProfile(columns[j])
      BY <1>2 DEF ToSet
    <3>2. p.name = columns[j]
      BY <3>1 DEF StoredProfile
    <3> QED
      BY <1>11, <3>1, <3>2
  <2>2. p.type = InferredType(CellsOf(name), SaysDate(name))
    BY <2>1 DEF StoredProfile
  <2>3. loadedAs.rows[r][name] = cell(r) /\ cell(r) # Null /\ cell(r) \in CellsOf(name)
    BY <1>8, <1>9, <1>10, <1>11
  <2> QED
    BY <2>2, <2>3, TypeIsRight
<1>12. \/ uploaded.source = "lark"
       \/ name = ColumnName(uploaded.header[i])
       \/ \E j \in DOMAIN uploaded.header \ {i} :
             ColumnName(uploaded.header[j]) = ColumnName(uploaded.header[i])
  <2>1. DOMAIN Header = 1..Len(Header)
    BY TableFacts, HeaderFacts
  <2> QED
    BY <1>3, <2>1 DEF Header, name
<1>13. name \in ToSet(loadedAs.columns) \ {Prototype}
  BY <1>2, <1>4, <1>7
<1> QED
  BY <1>8, <1>11, <1>12, <1>13 DEF Kept, cell

\* Whatever table is accepted can be read by the worker, and its columns come through, each
\* under a name of its own and with a type that its cells have (AcceptedTablesLoad).
THEOREM TablesLoad == TableNormalizationSpec => []AcceptedTablesLoad
<1>1. TableInv => AcceptedTablesLoad
  <2> SUFFICES ASSUME TableInv PROVE AcceptedTablesLoad
    OBVIOUS
  <2>1. uploaded \in Tables /\ tableStage # "invalid"
    BY DEF TableInv
  <2>2. DOMAIN uploaded.header = 1..Len(Header)
    BY <2>1, TableFacts, HeaderFacts DEF Header
  <2>3. CASE tableStage = "loaded"
    <3>1. IsLoaded
      BY <2>3 DEF TableInv
    <3> QED
      BY <2>1, <2>2, <3>1, LoadedIsKept DEF AcceptedTablesLoad, Header
  <2>4. CASE tableStage # "loaded"
    BY <2>1, <2>4 DEF AcceptedTablesLoad
  <2> QED
    BY <2>3, <2>4
<1> QED
  BY <1>1, TableNormalizationInvariance, PTL

-----------------------------------------------------------------------------
(* The workspace page: the inductive invariant *)

Requested == [kind : RequestKinds,
              at : {"ended", "sent", "job", "listing", "revision", "fixed", "collected"},
              project : PageProjects \cup {"none"},
              conversation : Conversations \cup {NoConversation},
              job : PageJobs \cup {NoPageJob}, aborted : BOOLEAN]

\* What a request is for: a job that was there, or the one that the server has made.
Aims(r) ==
    /\ r.kind \in {"retry", "stop", "restore", "end"} => r.job \in PageJobs
    /\ r.kind \in Commands /\ r.at # "sent" => r.job \in PageJobs

\* A request that is not aborted was started in the context the page is in, and the end of a
\* job is that of the job of the page.
BelongsHere(r) ==
    r.kind \in Abortable /\ ~r.aborted =>
        /\ <<r.project, r.conversation>> = Context(page)
        /\ r.kind = "end" => r.job = page.job

\* What is said to have failed, or to wait for an answer, is a job.
StatusFits(p) == p.status \in {"failed", "needs_clarification"} => p.job \in PageJobs

WorkspacePageInv ==
    /\ WorkspacePageTypeOK /\ StatusFits(page)
    /\ requests \in [PageRequests -> Requested]
    /\ \A i \in PageRequests : Aims(requests[i]) /\ BelongsHere(requests[i])

-----------------------------------------------------------------------------
(* The workspace page: rendering *)

PageStates == [project : PageProjects, conversation : Conversations \cup {NoConversation},
               loaded : BOOLEAN, job : PageJobs \cup {NoPageJob},
               status : PageJobStatuses \cup {"none"}, restored : PageJobs \cup {NoPageJob},
               hidden : BOOLEAN, controller : PageRequests \cup {NoRequest}]
ServerJobs == [conversation : Conversations \cup {NoConversation}, command : BOOLEAN,
               status : PageJobStatuses \cup {"none"}]

LEMMA PageTypes ==
    WorkspacePageTypeOK <=>
        /\ existing \subseteq Conversations /\ jobs \in [PageJobs -> ServerJobs]
        /\ page \in PageStates /\ \A i \in PageRequests : requests[i].kind \in RequestKinds
        /\ pending \in [Conversations -> PageJobs \cup {NoPageJob}]
  BY DEF WorkspacePageTypeOK, PageStates, ServerJobs

\* What a request is for does not depend on the page, and where it belongs does on the page alone.
BelongsTo(r, p) ==
    r.kind \in Abortable /\ ~r.aborted =>
        /\ r.project = p.project /\ r.conversation = p.conversation
        /\ r.kind = "end" => r.job = p.job

LEMMA Belonging == ASSUME NEW r PROVE BelongsHere(r) <=> BelongsTo(r, page)
  BY DEF BelongsHere, BelongsTo, Context

\* Aborting leaves a request as it is or aborts it, and it does so wherever the request was
\* started in another context.
LEMMA AbortingFits ==
    ASSUME NEW rs \in [PageRequests -> Requested], NEW p, NEW i \in PageRequests, Aims(rs[i]),
           BelongsTo(rs[i], page)
    PROVE  LET r == Aborting(rs, p)[i]
           IN  /\ r \in Requested /\ r.kind = rs[i].kind /\ r.at = rs[i].at /\ Aims(r)
               /\ BelongsTo(r, p)
<1> DEFINE r == Aborting(rs, p)[i]
<1>1. r = IF Outdated(rs[i], i, p) THEN [rs[i] EXCEPT !.aborted = TRUE] ELSE rs[i]
  BY DEF Aborting
<1>2. rs[i] \in Requested
  OBVIOUS
<1> HIDE DEF r
<1>3. CASE Outdated(rs[i], i, p)
  <2>1. /\ r \in Requested /\ r.kind = rs[i].kind /\ r.at = rs[i].at /\ r.job = rs[i].job
        /\ r.aborted = TRUE
    BY <1>1, <1>2, <1>3 DEF Requested
  <2> QED
    BY <2>1 DEF Aims, BelongsTo, r
<1>4. CASE ~Outdated(rs[i], i, p)
  <2>1. r = rs[i]
    BY <1>1, <1>4
  <2>2. r.kind \in Abortable => p.project = page.project /\ p.conversation = page.conversation
    BY <1>4, <2>1 DEF Outdated, Context
  <2>3. r.kind = "end" => p.job = page.job
    BY <1>4, <2>1 DEF Outdated
  <2>4. BelongsTo(r, p)
    BY <2>1, <2>2, <2>3 DEF BelongsTo
  <2> QED
    BY <1>2, <2>1, <2>4 DEF r
<1> QED
  BY <1>3, <1>4

\* A request that is started belongs to the page it is started from.
LEMMA StartedFits ==
    ASSUME NEW rs \in [PageRequests -> Requested], NEW i \in PageRequests,
           NEW kind \in RequestKinds, NEW job \in PageJobs \cup {NoPageJob}, NEW p \in PageStates,
           kind \in {"retry", "stop", "restore", "end"} => job \in PageJobs,
           kind = "end" => job = p.job
    PROVE  LET all == Started(rs, i, kind, job, p)
           IN  /\ all \in [PageRequests -> Requested]
               /\ \A k \in PageRequests : k # i => all[k] = rs[k]
               /\ Aims(all[i]) /\ BelongsTo(all[i], p)
<1> DEFINE all == Started(rs, i, kind, job, p)
           new == [kind |-> kind, at |-> "sent", project |-> p.project,
                   conversation |-> p.conversation, job |-> job, aborted |-> FALSE]
<1>1. new \in Requested
  BY DEF Requested, PageStates
<1>2. all = [rs EXCEPT ![i] = new]
  BY DEF Started
<1>3. Aims(new) /\ BelongsTo(new, p)
  BY DEF Aims, BelongsTo
<1> HIDE DEF all, new
<1>4. all \in [PageRequests -> Requested] /\ all[i] = new
      /\ \A k \in PageRequests : k # i => all[k] = rs[k]
  BY <1>1, <1>2
<1> QED
  BY <1>3, <1>4 DEF all

\* What the page shows is a page, whatever is aborted and restored with it; only a free request
\* is used for that.
LEMMA Rendering ==
    ASSUME NEW p \in PageStates, NEW rs \in [PageRequests -> Requested], page \in PageStates,
           pending' \in [Conversations -> PageJobs \cup {NoPageJob}], StatusFits(p),
           \A i \in PageRequests : Aims(rs[i]) /\ BelongsTo(rs[i], page), Render(p, rs)
    PROVE  /\ page' \in PageStates /\ StatusFits(page') /\ requests' \in [PageRequests -> Requested]
           /\ \A i \in PageRequests : Aims(requests'[i]) /\ BelongsTo(requests'[i], page')
           /\ \A i \in PageRequests : rs[i].kind # "none" => requests'[i].at = rs[i].at
<1> DEFINE shown == IF p.project = page.project THEN p
                    ELSE [p EXCEPT !.job = NoPageJob, !.status = "none", !.loaded = FALSE]
           left  == Aborting(rs, shown)
           saved == IF shown.conversation = NoConversation THEN NoPageJob
                    ELSE IF ProjectOf[shown.conversation] # shown.project THEN NoPageJob
                    ELSE pending'[shown.conversation]
<1>1. shown \in PageStates /\ StatusFits(shown)
  <2>1. CASE p.project = page.project
    BY <2>1
  <2>2. CASE p.project # page.project
    <3>1. shown = [p EXCEPT !.job = NoPageJob, !.status = "none", !.loaded = FALSE]
      BY <2>2
    <3>2. shown \in PageStates /\ shown.status = "none"
      BY <3>1 DEF PageStates
    <3> QED
      BY <3>2 DEF StatusFits
  <2> QED
    BY <2>1, <2>2
<1>2. saved \in PageJobs \cup {NoPageJob}
  BY <1>1 DEF PageStates
<1>3. /\ page' = IF Context(shown) = Context(page) THEN shown ELSE [shown EXCEPT !.hidden = FALSE]
      /\ IF Context(shown) # Context(page) /\ saved # NoPageJob
         THEN \E i \in Free(left) : requests' = Started(left, i, "restore", saved, shown)
         ELSE requests' = left
  BY DEF Render
<1> HIDE DEF saved, shown
<1>4. /\ page' \in PageStates /\ StatusFits(page') /\ page'.project = shown.project
      /\ page'.conversation = shown.conversation /\ page'.job = shown.job
  <2>1. [shown EXCEPT !.hidden = FALSE] \in PageStates
    BY <1>1 DEF PageStates
  <2>2. LET q == [shown EXCEPT !.hidden = FALSE]
        IN  /\ q.project = shown.project /\ q.conversation = shown.conversation
            /\ q.job = shown.job /\ q.status = shown.status
    BY <1>1 DEF PageStates
  <2> QED
    BY <1>1, <1>3, <2>1, <2>2 DEF StatusFits
<1>5. \A i \in PageRequests :
          /\ left[i] \in Requested /\ left[i].kind = rs[i].kind /\ left[i].at = rs[i].at
          /\ Aims(left[i]) /\ BelongsTo(left[i], shown)
  BY AbortingFits
<1>6. left \in [PageRequests -> Requested]
  BY <1>5 DEF Aborting
<1> HIDE DEF left
<1> DEFINE Fit(all) ==
              /\ all \in [PageRequests -> Requested]
              /\ \A i \in PageRequests : Aims(all[i]) /\ BelongsTo(all[i], shown)
              /\ \A i \in PageRequests : rs[i].kind # "none" => all[i].at = rs[i].at
<1>7. Fit(requests')
  <2>1. CASE requests' = left
    BY <1>5, <1>6, <2>1
  <2>2. ASSUME NEW i \in Free(left), requests' = Started(left, i, "restore", saved, shown),
               saved # NoPageJob
        PROVE  Fit(requests')
    <3>1. saved \in PageJobs /\ i \in PageRequests /\ rs[i].kind = "none"
          /\ "restore" \in RequestKinds
      BY <1>2, <1>5, <2>2 DEF Free, RequestKinds, Abortable
    <3>2. /\ requests' \in [PageRequests -> Requested]
          /\ \A k \in PageRequests : k # i => requests'[k] = left[k]
          /\ Aims(requests'[i]) /\ BelongsTo(requests'[i], shown)
      BY <1>1, <1>6, <2>2, <3>1, StartedFits
    <3> QED
      BY <1>5, <3>1, <3>2
  <2> QED
    BY <1>3, <2>1, <2>2
<1>8. \A r : BelongsTo(r, shown) <=> BelongsTo(r, page')
  BY <1>4 DEF BelongsTo
<1> QED
  BY <1>4, <1>7, <1>8

-----------------------------------------------------------------------------
(* The workspace page: its steps *)

\* What LateResultsAreDropped says of a step.
LateIsDropped ==
    \A i \in PageRequests :
        (/\ requests[i].kind \in Abortable
         /\ requests'[i].at # requests[i].at
         /\ page' # FreshPage(page.project)
         /\ <<requests[i].project, requests[i].conversation>> # Context(page))
           => page' = page /\ pending' = pending

Good == WorkspacePageInv' /\ LateIsDropped

\* Requests that may be continued now.
InTime(i) == requests[i].kind \in Abortable => ~requests[i].aborted

LEMMA PageFacts ==
    ASSUME WorkspacePageInv
    PROVE  /\ existing \subseteq Conversations /\ jobs \in [PageJobs -> ServerJobs]
           /\ page \in PageStates /\ StatusFits(page)
           /\ requests \in [PageRequests -> Requested]
           /\ pending \in [Conversations -> PageJobs \cup {NoPageJob}]
           /\ \A i \in PageRequests : Aims(requests[i]) /\ BelongsTo(requests[i], page)
  BY PageTypes, Belonging DEF WorkspacePageInv

LEMMA PageInvariant ==
    ASSUME existing' \subseteq Conversations, jobs' \in [PageJobs -> ServerJobs],
           page' \in PageStates, StatusFits(page'), requests' \in [PageRequests -> Requested],
           pending' \in [Conversations -> PageJobs \cup {NoPageJob}],
           \A i \in PageRequests : Aims(requests'[i]) /\ BelongsTo(requests'[i], page')
    PROVE  WorkspacePageInv'
<1>1. \A i \in PageRequests : requests'[i].kind \in RequestKinds
  BY DEF Requested
<1>2. WorkspacePageTypeOK'
  BY <1>1 DEF WorkspacePageTypeOK, PageStates, ServerJobs
<1>3. \A i \in PageRequests : BelongsHere(requests[i])'
  BY DEF BelongsHere, BelongsTo, Context
<1>4. \A i \in PageRequests : Aims(requests[i])'
  BY DEF Aims
<1> QED
  BY <1>2, <1>3, <1>4 DEF WorkspacePageInv, StatusFits

\* A step of a request that is in time concerns the context of the page.
LEMMA InTimeHere ==
    ASSUME WorkspacePageInv, NEW i \in PageRequests, InTime(i), requests[i].kind \in Abortable
    PROVE  <<requests[i].project, requests[i].conversation>> = Context(page)
  BY DEF WorkspacePageInv, BelongsHere, InTime

\* A step that shows something: at most one request has moved before, and in time.
LEMMA RenderStep ==
    ASSUME WorkspacePageInv, NEW p \in PageStates, NEW rs \in [PageRequests -> Requested],
           StatusFits(p), \A i \in PageRequests : Aims(rs[i]) /\ BelongsTo(rs[i], page),
           existing' \subseteq Conversations, jobs' \in [PageJobs -> ServerJobs],
           pending' \in [Conversations -> PageJobs \cup {NoPageJob}],
           NEW acting, \A k \in PageRequests : k # acting => rs[k] = requests[k],
           acting \in PageRequests => InTime(acting), Render(p, rs)
    PROVE  Good
<1>1. page \in PageStates
  BY PageFacts
<1>2. /\ page' \in PageStates /\ StatusFits(page') /\ requests' \in [PageRequests -> Requested]
      /\ \A i \in PageRequests : Aims(requests'[i]) /\ BelongsTo(requests'[i], page')
      /\ \A i \in PageRequests : rs[i].kind # "none" => requests'[i].at = rs[i].at
  BY <1>1, Rendering
<1>3. WorkspacePageInv'
  BY <1>2, PageInvariant
<1>4. ASSUME NEW i \in PageRequests, requests[i].kind \in Abortable,
             requests'[i].at # requests[i].at
      PROVE  <<requests[i].project, requests[i].conversation>> = Context(page)
  <2>1. requests[i].kind # "none"
    BY <1>4 DEF Abortable, Controlled, Commands
  <2>2. i = acting
    BY <1>2, <1>4, <2>1
  <2> QED
    BY <1>4, <2>2, InTimeHere
<1> QED
  BY <1>3, <1>4 DEF Good, LateIsDropped

\* A step that shows nothing.
LEMMA StillStep ==
    ASSUME WorkspacePageInv, page' = page, requests' \in [PageRequests -> Requested],
           \A i \in PageRequests : Aims(requests'[i]) /\ BelongsTo(requests'[i], page),
           existing' \subseteq Conversations, jobs' \in [PageJobs -> ServerJobs],
           pending' \in [Conversations -> PageJobs \cup {NoPageJob}],
           NEW acting, \A k \in PageRequests : k # acting => requests'[k] = requests[k],
           pending' = pending \/ (acting \in PageRequests => InTime(acting))
    PROVE  Good
<1>1. WorkspacePageInv'
  BY PageFacts, PageInvariant
<1>2. ASSUME NEW i \in PageRequests, requests[i].kind \in Abortable,
             requests'[i].at # requests[i].at, pending' # pending
      PROVE  <<requests[i].project, requests[i].conversation>> = Context(page)
  <2>1. i = acting
    BY <1>2
  <2> QED
    BY <1>2, <2>1, InTimeHere
<1> QED
  BY <1>1, <1>2 DEF Good, LateIsDropped

\* A request that moves on, or is over.
LEMMA EndedFits ==
    ASSUME WorkspacePageInv, NEW i \in PageRequests
    PROVE  /\ Ended(i) \in [PageRequests -> Requested]
           /\ \A k \in PageRequests : Aims(Ended(i)[k]) /\ BelongsTo(Ended(i)[k], page)
           /\ \A k \in PageRequests : k # i => Ended(i)[k] = requests[k]
<1>1. NoneUnderWay \in Requested /\ Aims(NoneUnderWay) /\ BelongsTo(NoneUnderWay, page)
  BY DEF NoneUnderWay, Requested, RequestKinds, Aims, BelongsTo, Commands, Abortable, Controlled
<1>2. NoneUnderWay.kind = "none"
  BY DEF NoneUnderWay
<1> QED
  BY <1>1, PageFacts DEF Ended

Going(i, at, job) == [requests EXCEPT ![i].at = at, ![i].job = job]

LEMMA MovedFits ==
    ASSUME WorkspacePageInv, NEW i \in PageRequests,
           NEW at \in {"job", "listing", "revision", "fixed", "collected"},
           NEW job \in PageJobs \cup {NoPageJob},
           requests[i].kind \in Commands => job \in PageJobs,
           requests[i].kind \in {"retry", "stop", "restore", "end"} => job = requests[i].job
    PROVE  /\ Going(i, at, job) \in [PageRequests -> Requested]
           /\ \A k \in PageRequests :
                 Aims(Going(i, at, job)[k]) /\ BelongsTo(Going(i, at, job)[k], page)
           /\ \A k \in PageRequests : k # i => Going(i, at, job)[k] = requests[k]
<1> DEFINE all == Going(i, at, job)
           moved == [requests[i] EXCEPT !.at = at, !.job = job]
<1>1. requests \in [PageRequests -> Requested] /\ Aims(requests[i]) /\ BelongsTo(requests[i], page)
  BY PageFacts
<1>2. requests[i] \in Requested
  BY <1>1
<1>3. /\ moved \in Requested /\ moved.kind = requests[i].kind /\ moved.job = job
      /\ moved.project = requests[i].project /\ moved.conversation = requests[i].conversation
      /\ moved.aborted = requests[i].aborted
  BY <1>2 DEF Requested
<1>4. all = [requests EXCEPT ![i] = moved]
  BY <1>1, <1>2 DEF Requested, Going
<1> HIDE DEF all, moved
<1>5. Aims(moved)
  BY <1>1, <1>3 DEF Aims
<1>6. BelongsTo(moved, page)
  BY <1>1, <1>3 DEF BelongsTo
<1> QED
  BY <1>1, <1>3, <1>4, <1>5, <1>6, PageFacts DEF all

-----------------------------------------------------------------------------
(* The workspace page: what the user does *)

\* What is rendered with no request moved.
LEMMA TurnStep ==
    ASSUME WorkspacePageInv, NEW p \in PageStates, StatusFits(p),
           UNCHANGED <<serverVars, pending>>, Render(p, requests)
    PROVE  Good
<1>1. NoRequest \notin PageRequests
  BY DEF NoRequest, PageRequests
<1>2. /\ existing' \subseteq Conversations /\ jobs' \in [PageJobs -> ServerJobs]
      /\ pending' \in [Conversations -> PageJobs \cup {NoPageJob}]
  BY PageFacts DEF serverVars
<1> QED
  BY <1>1, <1>2, PageFacts, RenderStep

LEMMA InConversationFits ==
    ASSUME NEW p \in PageStates, NEW c \in Conversations \cup {NoConversation}
    PROVE  InConversation(p, c) \in PageStates /\ StatusFits(InConversation(p, c))
<1>1. InConversation(p, c) \in PageStates /\ InConversation(p, c).status = "none"
  BY DEF InConversation, PageStates, NoPageJob, NoRequest
<1> QED
  BY <1>1 DEF StatusFits

LEMMA SelectProjectGood ==
    ASSUME WorkspacePageInv, NEW project \in PageProjects, SelectProject(project) PROVE Good
<1> DEFINE p == [page EXCEPT !.project = project, !.controller = NoRequest]
<1>1. page \in PageStates /\ StatusFits(page)
  BY PageFacts
<1>2. p \in PageStates /\ p.status = page.status /\ p.job = page.job
  BY <1>1 DEF PageStates
<1>3. StatusFits(p)
  BY <1>1, <1>2 DEF StatusFits
<1> QED
  BY <1>2, <1>3, TurnStep DEF SelectProject

LEMMA SelectConversationGood ==
    ASSUME WorkspacePageInv, NEW c \in Conversations, SelectConversation(c) PROVE Good
<1>1. InConversation(page, c) \in PageStates /\ StatusFits(InConversation(page, c))
  BY PageFacts, InConversationFits
<1> QED
  BY <1>1, TurnStep DEF SelectConversation

LEMMA SettleConversationGood ==
    ASSUME WorkspacePageInv, SettleConversation PROVE Good
<1> DEFINE here == {c \in existing : ProjectOf[c] = page.project}
           p    == [page EXCEPT !.loaded = TRUE]
<1>1. page \in PageStates /\ StatusFits(page) /\ existing \subseteq Conversations
  BY PageFacts
<1>2. p \in PageStates /\ p.status = page.status /\ p.job = page.job
  BY <1>1 DEF PageStates
<1>3. StatusFits(p)
  BY <1>1, <1>2 DEF StatusFits
<1>4. here \subseteq Conversations
  BY <1>1
<1>5. /\ UNCHANGED <<serverVars, pending>>
      /\ \/ Render(p, requests)
         \/ \E c \in IF here = {} THEN {NoConversation} ELSE here :
               Render(InConversation(p, c), requests)
  BY DEF SettleConversation
<1> HIDE DEF here, p
<1>6. CASE Render(p, requests)
  BY <1>2, <1>3, <1>5, <1>6, TurnStep
<1>7. ASSUME NEW c \in IF here = {} THEN {NoConversation} ELSE here,
             Render(InConversation(p, c), requests)
      PROVE  Good
  <2>1. c \in Conversations \cup {NoConversation}
    BY <1>4
  <2>2. InConversation(p, c) \in PageStates /\ StatusFits(InConversation(p, c))
    BY <1>2, <2>1, InConversationFits
  <2> QED
    BY <1>5, <1>7, <2>2, TurnStep
<1> QED
  BY <1>5, <1>6, <1>7

LEMMA CloseFailureGood ==
    ASSUME WorkspacePageInv, CloseFailure PROVE Good
<1> DEFINE p == [page EXCEPT !.job = NoPageJob, !.status = "none"]
<1>1. page \in PageStates
  BY PageFacts
<1>2. p \in PageStates /\ p.status = "none"
  BY <1>1 DEF PageStates
<1>3. StatusFits(p)
  BY <1>2 DEF StatusFits
<1> QED
  BY <1>2, <1>3, TurnStep DEF CloseFailure

LEMMA FreshFits ==
    ASSUME NEW project \in PageProjects
    PROVE  FreshPage(project) \in PageStates /\ StatusFits(FreshPage(project))
<1>1. FreshPage(project) \in PageStates /\ FreshPage(project).status = "none"
  BY DEF FreshPage, PageStates, NoPageJob, NoRequest
<1> QED
  BY <1>1 DEF StatusFits

LEMMA NothingFits ==
    ASSUME NEW p
    PROVE  NoneUnderWay \in Requested /\ Aims(NoneUnderWay) /\ BelongsTo(NoneUnderWay, p)
  BY DEF NoneUnderWay, Requested, RequestKinds, Aims, BelongsTo, Commands, Abortable, Controlled

\* Loading the page again ends every request; nothing is asked of the context then.
LEMMA ReloadGood ==
    ASSUME WorkspacePageInv, Reload PROVE Good
<1>1. /\ existing \subseteq Conversations /\ jobs \in [PageJobs -> ServerJobs]
      /\ pending \in [Conversations -> PageJobs \cup {NoPageJob}] /\ page.project \in PageProjects
  BY PageFacts DEF PageStates
<1>2. /\ page' = FreshPage(page.project) /\ requests' = [i \in PageRequests |-> NoneUnderWay]
      /\ existing' = existing /\ jobs' = jobs /\ pending' = pending
  BY DEF Reload, serverVars
<1>3. page' \in PageStates /\ StatusFits(page')
  BY <1>1, <1>2, FreshFits
<1>4. /\ requests' \in [PageRequests -> Requested]
      /\ \A i \in PageRequests : Aims(requests'[i]) /\ BelongsTo(requests'[i], page')
  BY <1>2, NothingFits
<1>5. WorkspacePageInv'
  BY <1>1, <1>2, <1>3, <1>4, PageInvariant
<1> QED
  BY <1>2, <1>5 DEF Good, LateIsDropped

\* A request is sent.
LEMMA SubmitGood ==
    ASSUME WorkspacePageInv, NEW i \in PageRequests, NEW kind \in RequestKinds,
           NEW job \in PageJobs \cup {NoPageJob},
           kind \in {"retry", "stop", "restore", "end"} => job \in PageJobs,
           kind = "end" => job = page.job, NEW p \in PageStates, StatusFits(p),
           Submit(i, kind, job, p)
    PROVE  Good
<1> DEFINE all == Started(requests, i, kind, job, page)
<1>1. /\ requests[i].kind = "none" /\ UNCHANGED <<serverVars, pending>> /\ Render(p, all)
  BY DEF Submit
<1>2. /\ all \in [PageRequests -> Requested]
      /\ \A k \in PageRequests : k # i => all[k] = requests[k]
      /\ Aims(all[i]) /\ BelongsTo(all[i], page)
  BY PageFacts, StartedFits
<1> HIDE DEF all
<1>3. \A k \in PageRequests : Aims(all[k]) /\ BelongsTo(all[k], page)
  BY <1>2, PageFacts
<1>4. InTime(i)
  BY <1>1 DEF InTime, Abortable, Controlled, Commands
<1>5. /\ existing' \subseteq Conversations /\ jobs' \in [PageJobs -> ServerJobs]
      /\ pending' \in [Conversations -> PageJobs \cup {NoPageJob}]
  BY <1>1, PageFacts DEF serverVars
<1> QED
  BY <1>1, <1>2, <1>3, <1>4, <1>5, RenderStep

LEMMA BeginGood ==
    ASSUME WorkspacePageInv, NEW i \in PageRequests, Begin(i) PROVE Good
<1> DEFINE taken == [page EXCEPT !.controller = i]
<1>1. page \in PageStates /\ StatusFits(page) /\ page.job \in PageJobs \cup {NoPageJob}
  BY PageFacts DEF PageStates
<1>2. taken \in PageStates /\ taken.status = page.status /\ taken.job = page.job
  BY <1>1 DEF PageStates
<1>3. StatusFits(taken)
  BY <1>1, <1>2 DEF StatusFits
<1> HIDE DEF taken
<1>4. {"edit", "derive", "history", "retry", "message", "stop", "end"} \subseteq RequestKinds
  BY DEF RequestKinds, Abortable, Controlled, Commands
<1>5. NoPageJob \in PageJobs \cup {NoPageJob}
  OBVIOUS
<1>6. ASSUME NEW kind \in {"edit", "derive", "history"}, Submit(i, kind, NoPageJob, taken)
      PROVE  Good
  <2>1. kind \in RequestKinds /\ kind \notin {"retry", "stop", "restore", "end"}
    BY <1>4
  <2> QED
    BY <1>2, <1>3, <1>5, <1>6, <2>1, SubmitGood
<1>7. CASE SaveEditor(i)
  BY <1>6, <1>7 DEF SaveEditor, taken
<1>8. CASE DeriveRevision(i)
  BY <1>6, <1>8 DEF DeriveRevision, taken
<1>9. CASE SelectHistoricalRevision(i)
  BY <1>6, <1>9 DEF SelectHistoricalRevision, taken
<1>10. CASE RetryGeneration(i)
  <2>1. page.job \in PageJobs /\ Submit(i, "retry", page.job, taken)
    BY <1>1, <1>10 DEF RetryGeneration, StatusFits, taken
  <2> QED
    BY <1>2, <1>3, <1>4, <2>1, SubmitGood
<1>11. CASE SendMessage(i)
  <2>1. Submit(i, "message", NoPageJob, page)
    BY <1>11 DEF SendMessage
  <2> QED
    BY <1>1, <1>4, <1>5, <2>1, SubmitGood
<1>12. CASE CancelGeneration(i)
  <2>1. page.job \in PageJobs /\ Submit(i, "stop", page.job, page)
    BY <1>1, <1>12 DEF CancelGeneration, StatusFits
  <2> QED
    BY <1>1, <1>4, <2>1, SubmitGood
<1>13. CASE WatchEnds(i)
  <2>1. page.job # NoPageJob /\ Submit(i, "end", page.job, page)
    BY <1>13 DEF WatchEnds, Watching
  <2>2. page.job \in PageJobs
    BY <1>1, <2>1
  <2> QED
    BY <1>1, <1>4, <2>1, <2>2, SubmitGood
<1> QED
  BY <1>7, <1>8, <1>9, <1>10, <1>11, <1>12, <1>13 DEF Begin

-----------------------------------------------------------------------------
(* The workspace page: what the server does *)

\* The page does not see it; the request that is answered moves.
LEMMA AnsweredGood ==
    ASSUME WorkspacePageInv, NEW i \in PageRequests,
           NEW at \in {"job", "listing", "revision", "fixed", "collected"},
           NEW job \in PageJobs \cup {NoPageJob},
           requests[i].kind \in Commands => job \in PageJobs,
           requests[i].kind \in {"retry", "stop", "restore", "end"} => job = requests[i].job,
           requests' = Going(i, at, job), page' = page,
           existing' \subseteq Conversations, jobs' \in [PageJobs -> ServerJobs],
           pending' \in [Conversations -> PageJobs \cup {NoPageJob}],
           pending' = pending \/ InTime(i)
    PROVE  Good
<1>1. /\ requests' \in [PageRequests -> Requested]
      /\ \A k \in PageRequests : Aims(requests'[k]) /\ BelongsTo(requests'[k], page)
      /\ \A k \in PageRequests : k # i => requests'[k] = requests[k]
  BY MovedFits
<1> QED
  BY <1>1, StillStep

\* A request that moves on without a new job keeps what it is for.
LEMMA MovedOn ==
    ASSUME WorkspacePageInv, NEW i \in PageRequests, NEW at
    PROVE  /\ requests[i].job \in PageJobs \cup {NoPageJob}
           /\ Moved(i, at) = Going(i, at, requests[i].job)
<1> DEFINE r == requests[i]
<1>1. requests \in [PageRequests -> Requested] /\ r \in Requested
  BY PageFacts
<1>2. [r EXCEPT !.at = at] = [r EXCEPT !.at = at, !.job = r.job]
      /\ r.job \in PageJobs \cup {NoPageJob}
  BY <1>1 DEF Requested
<1> QED
  BY <1>1, <1>2 DEF Moved, Going

LEMMA AcceptCommandGood ==
    ASSUME WorkspacePageInv, NEW i \in PageRequests, AcceptCommand(i) PROVE Good
<1>1. PICK j \in NewJobs, c \in Conversations \ existing, old \in BOOLEAN :
          /\ existing' = existing \cup {c}
          /\ jobs' = [jobs EXCEPT ![j] = [conversation |-> c, command |-> TRUE,
                                          status |-> IF old THEN "succeeded" ELSE "active"]]
          /\ Answered(i, IF old THEN "revision" ELSE "job", j)
  BY DEF AcceptCommand
<1>2. j \in PageJobs
  BY DEF NewJobs
<1>3. /\ requests[i].kind \in Commands /\ page' = page /\ pending' = pending
  BY DEF AcceptCommand, IsAt
<1>4. [conversation |-> c, command |-> TRUE, status |-> IF old THEN "succeeded" ELSE "active"]
        \in ServerJobs
  BY DEF ServerJobs, PageJobStatuses, EndedStatuses
<1>5. existing' \subseteq Conversations /\ jobs' \in [PageJobs -> ServerJobs]
      /\ pending' \in [Conversations -> PageJobs \cup {NoPageJob}]
  BY <1>1, <1>3, <1>4, PageFacts
<1> DEFINE at == IF old THEN "revision" ELSE "job"
<1>6. at \in {"job", "listing", "revision", "fixed", "collected"}
  OBVIOUS
<1>7. requests' = Going(i, at, j)
  BY <1>1 DEF Answered, Going
<1> HIDE DEF at
<1>8. requests[i].kind \notin {"retry", "stop", "restore", "end"}
  BY <1>3 DEF Commands
<1> QED
  BY <1>2, <1>3, <1>5, <1>6, <1>7, <1>8, AnsweredGood

LEMMA AcceptMessageGood ==
    ASSUME WorkspacePageInv, NEW i \in PageRequests, AcceptMessage(i) PROVE Good
<1>1. /\ requests[i].kind = "message" /\ existing' = existing /\ page' = page
      /\ pending' = pending
  BY DEF AcceptMessage, IsAt
<1>2. requests[i].kind \notin {"retry", "stop", "restore", "end"}
      /\ requests[i].kind \notin Commands
  BY <1>1 DEF Commands
<1>3. jobs \in [PageJobs -> ServerJobs]
  BY PageFacts
<1>4. existing' \subseteq Conversations
      /\ pending' \in [Conversations -> PageJobs \cup {NoPageJob}]
  BY <1>1, PageFacts
<1> DEFINE AcceptedAs(job) == /\ job \in PageJobs \cup {NoPageJob}
                              /\ requests' = Going(i, "listing", job)
<1>5. jobs' \in [PageJobs -> ServerJobs] /\ \E job : AcceptedAs(job)
  <2>1. CASE Answered(i, "listing", NoPageJob) /\ UNCHANGED jobs
    BY <1>3, <2>1 DEF Answered, Going
  <2>2. ASSUME NEW j \in NewJobs,
               jobs' = [jobs EXCEPT ![j] = [conversation |-> requests[i].conversation,
                                            command |-> FALSE, status |-> "active"]],
               Answered(i, "listing", j)
        PROVE  jobs' \in [PageJobs -> ServerJobs] /\ \E job : AcceptedAs(job)
    <3>1. requests[i] \in Requested
      BY PageFacts
    <3>2. requests[i].conversation \in Conversations \cup {NoConversation}
      BY <3>1 DEF Requested
    <3>3. [conversation |-> requests[i].conversation, command |-> FALSE, status |-> "active"]
            \in ServerJobs
      BY <3>2 DEF ServerJobs, PageJobStatuses
    <3>4. jobs' \in [PageJobs -> ServerJobs]
      BY <1>3, <2>2, <3>3
    <3>5. AcceptedAs(j)
      BY <2>2 DEF NewJobs, Answered, Going
    <3> QED
      BY <3>4, <3>5
  <2> QED
    BY <2>1, <2>2 DEF AcceptMessage
<1>6. PICK job : AcceptedAs(job)
  BY <1>5
<1> QED
  BY <1>1, <1>2, <1>4, <1>5, <1>6, AnsweredGood

LEMMA AcceptSettledGood ==
    ASSUME WorkspacePageInv, NEW i \in PageRequests, AcceptRetry(i) \/ AcceptStop(i) PROVE Good
<1>1. /\ requests[i].kind \in {"retry", "stop"} /\ existing' = existing /\ page' = page
      /\ pending' = pending /\ requests' = Moved(i, "job")
  BY DEF AcceptRetry, AcceptStop, IsAt
<1>2. requests[i].kind \notin Commands
  BY <1>1 DEF Commands
<1>3. jobs \in [PageJobs -> ServerJobs]
  BY PageFacts
<1>4. requests[i].job \in PageJobs
  BY <1>1, PageFacts DEF Aims
<1>5. jobs' \in [PageJobs -> ServerJobs]
  <2> DEFINE j == requests[i].job
  <2>1. \A s \in PageJobStatuses \cup {"none"} : [jobs[j] EXCEPT !.status = s] \in ServerJobs
    BY <1>3, <1>4 DEF ServerJobs
  <2>2. PICK s : /\ s \in PageJobStatuses \cup {"none"}
                 /\ jobs' = [jobs EXCEPT ![j] = [jobs[j] EXCEPT !.status = s]]
    <3>1. jobs[j].status \in PageJobStatuses \cup {"none"}
      BY <1>3, <1>4 DEF ServerJobs
    <3>2. CASE AcceptRetry(i)
      <4> DEFINE s == IF jobs[j].status = "failed" THEN "active" ELSE jobs[j].status
      <4>1. jobs' = [jobs EXCEPT ![j].status = IF @ = "failed" THEN "active" ELSE @]
        BY <3>2 DEF AcceptRetry
      <4>2. jobs' = [jobs EXCEPT ![j] = [jobs[j] EXCEPT !.status = s]]
        BY <1>3, <1>4, <4>1
      <4>3. s \in PageJobStatuses \cup {"none"}
        BY <3>1 DEF PageJobStatuses
      <4> QED
        BY <4>2, <4>3
    <3>3. CASE AcceptStop(i)
      <4> DEFINE s == IF jobs[j].status = "needs_clarification" THEN "cancelled"
                      ELSE jobs[j].status
      <4>1. jobs' = [jobs EXCEPT ![j].status =
                        IF @ = "needs_clarification" THEN "cancelled" ELSE @]
        BY <3>3 DEF AcceptStop
      <4>2. jobs' = [jobs EXCEPT ![j] = [jobs[j] EXCEPT !.status = s]]
        BY <1>3, <1>4, <4>1
      <4>3. s \in PageJobStatuses \cup {"none"}
        BY <3>1 DEF PageJobStatuses, EndedStatuses
      <4> QED
        BY <4>2, <4>3
    <3> QED
      BY <3>2, <3>3
  <2> HIDE DEF j
  <2> QED
    BY <1>3, <2>1, <2>2
<1>6. existing' \subseteq Conversations
      /\ pending' \in [Conversations -> PageJobs \cup {NoPageJob}]
  BY <1>1, PageFacts
<1>7. /\ requests[i].job \in PageJobs \cup {NoPageJob}
      /\ requests' = Going(i, "job", requests[i].job)
  BY <1>1, MovedOn
<1> QED
  BY <1>1, <1>2, <1>5, <1>6, <1>7, AnsweredGood

LEMMA JobEndsGood ==
    ASSUME WorkspacePageInv, NEW j \in PageJobs, JobEnds(j) PROVE Good
<1>1. PICK s \in {"succeeded", "failed", "needs_clarification"} :
          jobs' = [jobs EXCEPT ![j].status = s]
  BY DEF JobEnds
<1>2. /\ existing' = existing /\ page' = page /\ pending' = pending /\ requests' = requests
  BY DEF JobEnds
<1>3. jobs' \in [PageJobs -> ServerJobs]
  <2>1. jobs \in [PageJobs -> ServerJobs] /\ jobs[j] \in ServerJobs
    BY PageFacts
  <2>2. [jobs[j] EXCEPT !.status = s] \in ServerJobs
    BY <2>1 DEF ServerJobs, PageJobStatuses, EndedStatuses
  <2> QED
    BY <1>1, <2>1, <2>2
<1>4. /\ requests' \in [PageRequests -> Requested] /\ existing' \subseteq Conversations
      /\ \A k \in PageRequests : Aims(requests'[k]) /\ BelongsTo(requests'[k], page)
      /\ pending' \in [Conversations -> PageJobs \cup {NoPageJob}]
  BY <1>2, PageFacts
<1> QED
  BY <1>2, <1>3, <1>4, StillStep

-----------------------------------------------------------------------------
(* The workspace page: what becomes of an answer *)

\* What is in time or carries no controller is shown, and is over.
LEMMA ShowStep ==
    ASSUME WorkspacePageInv, NEW i \in PageRequests, NEW p \in PageStates, StatusFits(p),
           InTime(i), existing' = existing, jobs' = jobs,
           pending' \in [Conversations -> PageJobs \cup {NoPageJob}], Render(p, Ended(i))
    PROVE  Good
<1>1. existing' \subseteq Conversations /\ jobs' \in [PageJobs -> ServerJobs]
  BY PageFacts
<1> QED
  BY <1>1, EndedFits, RenderStep

LEMMA DropGood ==
    ASSUME WorkspacePageInv, NEW i \in PageRequests, Drop(i) PROVE Good
<1>1. /\ requests' = Ended(i) /\ page' = page /\ pending' = pending /\ existing' = existing
      /\ jobs' = jobs
  BY DEF Drop, serverVars
<1>2. /\ existing' \subseteq Conversations /\ jobs' \in [PageJobs -> ServerJobs]
      /\ pending' \in [Conversations -> PageJobs \cup {NoPageJob}]
  BY <1>1, PageFacts
<1> QED
  BY <1>1, <1>2, EndedFits, StillStep

\* A request that is kept going without showing anything.
LEMMA KeepJobGood ==
    ASSUME WorkspacePageInv, NEW i \in PageRequests, KeepJob(i) PROVE Good
<1> DEFINE j == requests[i].job
<1>1. /\ requests[i].kind \in Commands /\ requests[i].at = "job" /\ InTime(i) /\ page' = page
      /\ existing' = existing /\ jobs' = jobs /\ requests' = Moved(i, "listing")
      /\ pending' = [pending EXCEPT ![jobs[j].conversation] = j]
  BY DEF KeepJob, IsAt, Live, serverVars, InTime
<1>2. j \in PageJobs
  BY <1>1, PageFacts DEF Aims
<1>3. /\ existing' \subseteq Conversations /\ jobs' \in [PageJobs -> ServerJobs]
      /\ pending' \in [Conversations -> PageJobs \cup {NoPageJob}]
  BY <1>1, <1>2, PageFacts
<1>4. requests' = Going(i, "listing", j)
  BY <1>1, MovedOn
<1>5. requests[i].kind \notin {"retry", "stop", "restore", "end"}
  BY <1>1 DEF Commands
<1> HIDE DEF j
<1>6. j = requests[i].job
  BY DEF j
<1> QED
  BY <1>1, <1>2, <1>3, <1>4, <1>5, AnsweredGood

LEMMA FetchFixedGood ==
    ASSUME WorkspacePageInv, NEW i \in PageRequests, FetchFixed(i) PROVE Good
<1> DEFINE j == requests[i].job
<1>1. /\ requests[i].kind \in Commands /\ requests[i].at = "revision" /\ page' = page
      /\ existing' = existing /\ jobs' = jobs /\ requests' = Moved(i, "fixed")
      /\ pending' = pending
  BY DEF FetchFixed, IsAt, serverVars
<1>2. j \in PageJobs
  BY <1>1, PageFacts DEF Aims
<1>3. /\ existing' \subseteq Conversations /\ jobs' \in [PageJobs -> ServerJobs]
      /\ pending' \in [Conversations -> PageJobs \cup {NoPageJob}]
  BY <1>1, PageFacts
<1>4. requests' = Going(i, "fixed", j)
  BY <1>1, MovedOn
<1>5. requests[i].kind \notin {"retry", "stop", "restore", "end"}
  BY <1>1 DEF Commands
<1> HIDE DEF j
<1> QED
  BY <1>1, <1>2, <1>3, <1>4, <1>5, AnsweredGood

\* Where the server's jobs and the page's requests fit together.
LEMMA JobFacts ==
    ASSUME WorkspacePageInv, NEW j \in PageJobs
    PROVE  /\ jobs[j].conversation \in Conversations \cup {NoConversation}
           /\ jobs[j].status \in PageJobStatuses \cup {"none"}
  BY PageFacts DEF ServerJobs

\* A page that is given a job whose status is the job's own, or none.
LEMMA GivenJob ==
    ASSUME WorkspacePageInv, NEW j \in PageJobs \cup {NoPageJob},
           NEW s \in PageJobStatuses \cup {"none"},
           s \in {"failed", "needs_clarification"} => j \in PageJobs,
           NEW p, p = [page EXCEPT !.job = j, !.status = s]
    PROVE  p \in PageStates /\ StatusFits(p)
<1>1. p \in PageStates /\ p.status = s /\ p.job = j
  BY PageFacts DEF PageStates
<1> QED
  BY <1>1 DEF StatusFits

\* A page whose other parts change.
LEMMA OtherParts ==
    ASSUME NEW p \in PageStates, StatusFits(p), NEW restored \in PageJobs \cup {NoPageJob},
           NEW c \in Conversations \cup {NoConversation}, NEW hidden \in BOOLEAN,
           NEW q, \/ q = [p EXCEPT !.restored = restored]
                  \/ q = [p EXCEPT !.hidden = hidden]
                  \/ q = [p EXCEPT !.conversation = c]
    PROVE  q \in PageStates /\ StatusFits(q)
<1>1. q \in PageStates /\ q.status = p.status /\ q.job = p.job
  BY DEF PageStates
<1> QED
  BY <1>1 DEF StatusFits

LEMMA ShowCommandGood ==
    ASSUME WorkspacePageInv, NEW i \in PageRequests,
           ShowCommandJob(i) \/ ShowFixed(i) \/ ShowHistory(i)
    PROVE  Good
<1>1. /\ InTime(i) /\ existing' = existing /\ jobs' = jobs /\ pending' = pending
      /\ requests[i].kind \in Commands \cup {"history"}
  BY DEF ShowCommandJob, ShowFixed, ShowHistory, IsAt, Live, InTime, serverVars
<1>2. page \in PageStates /\ StatusFits(page) /\ existing \subseteq Conversations
      /\ pending' \in [Conversations -> PageJobs \cup {NoPageJob}]
  BY <1>1, PageFacts
<1>3. ASSUME NEW c \in Conversations \cup {NoConversation},
             Render([page EXCEPT !.conversation = c], Ended(i))
      PROVE  Good
  <2> DEFINE p == [page EXCEPT !.conversation = c]
  <2>1. p \in PageStates /\ p.status = page.status /\ p.job = page.job
    BY <1>2 DEF PageStates
  <2>2. StatusFits(p)
    BY <1>2, <2>1 DEF StatusFits
  <2> QED
    BY <1>1, <1>2, <1>3, <2>1, <2>2, ShowStep
<1>4. CASE ShowCommandJob(i)
  <2> DEFINE j == requests[i].job
             p == [page EXCEPT !.conversation = jobs[j].conversation, !.restored = j,
                               !.job = j, !.status = "active"]
  <2>1. j \in PageJobs
    BY <1>4, PageFacts DEF ShowCommandJob, IsAt, Aims
  <2>2. jobs[j].conversation \in Conversations \cup {NoConversation}
    BY <2>1, JobFacts
  <2>3. p \in PageStates /\ p.status = "active"
    BY <1>2, <2>1, <2>2 DEF PageStates, PageJobStatuses
  <2>4. StatusFits(p)
    BY <2>3 DEF StatusFits
  <2>5. Render(p, Ended(i))
    BY <1>4 DEF ShowCommandJob
  <2> QED
    BY <1>1, <1>2, <2>3, <2>4, <2>5, ShowStep
<1>5. CASE ShowFixed(i)
  <2>1. requests[i].job \in PageJobs
    BY <1>5, PageFacts DEF ShowFixed, IsAt, Aims
  <2>2. jobs[requests[i].job].conversation \in Conversations \cup {NoConversation}
    BY <2>1, JobFacts
  <2> QED
    BY <1>3, <1>5, <2>2 DEF ShowFixed
<1>6. CASE ShowHistory(i)
  BY <1>2, <1>3, <1>6 DEF ShowHistory
<1> QED
  BY <1>4, <1>5, <1>6

LEMMA ShowRetriedGood ==
    ASSUME WorkspacePageInv, NEW i \in PageRequests, ShowRetried(i) PROVE Good
<1> DEFINE j == requests[i].job
           p == [page EXCEPT !.job = j, !.status = jobs[j].status]
<1>1. /\ InTime(i) /\ existing' = existing /\ jobs' = jobs /\ requests[i].kind = "retry"
  BY DEF ShowRetried, IsAt, Live, InTime, serverVars
<1>2. j \in PageJobs
  BY <1>1, PageFacts DEF Aims
<1>3. p \in PageStates /\ StatusFits(p)
  BY <1>2, JobFacts, GivenJob
<1>4. IF jobs[j].command
      THEN /\ pending' = [pending EXCEPT ![jobs[j].conversation] = j]
           /\ Render([p EXCEPT !.restored = j], Ended(i))
      ELSE UNCHANGED pending /\ Render(p, Ended(i))
  BY DEF ShowRetried
<1>5. pending' \in [Conversations -> PageJobs \cup {NoPageJob}]
  BY <1>2, <1>4, PageFacts
<1> HIDE DEF p
<1> DEFINE q == [p EXCEPT !.restored = j]
<1>6. q \in PageStates /\ StatusFits(q)
  BY <1>2, <1>3, OtherParts
<1>7. Render(p, Ended(i)) \/ Render(q, Ended(i))
  BY <1>4
<1> HIDE DEF q
<1> QED
  BY <1>1, <1>3, <1>5, <1>6, <1>7, ShowStep

LEMMA ShowMessageGood ==
    ASSUME WorkspacePageInv, NEW i \in PageRequests, ShowMessage(i) PROVE Good
<1> DEFINE j == requests[i].job
           s == IF j = NoPageJob THEN "none" ELSE "active"
           p == [page EXCEPT !.hidden = TRUE, !.job = j, !.status = s]
<1>1. /\ existing' = existing /\ jobs' = jobs /\ requests[i].kind = "message"
      /\ pending' = pending /\ Render(p, Ended(i))
  BY DEF ShowMessage, IsAt, serverVars
<1>2. InTime(i)
  BY <1>1 DEF InTime, Abortable, Controlled, Commands
<1>3. j \in PageJobs \cup {NoPageJob}
  BY MovedOn
<1>4. s \in PageJobStatuses \cup {"none"} /\ s \notin {"failed", "needs_clarification"}
  BY DEF PageJobStatuses
<1> HIDE DEF s, j
<1>5. p \in PageStates /\ p.status = s
  BY <1>3, <1>4, PageFacts DEF PageStates
<1>6. StatusFits(p)
  BY <1>4, <1>5 DEF StatusFits
<1>7. pending' \in [Conversations -> PageJobs \cup {NoPageJob}]
  BY <1>1, PageFacts
<1> QED
  BY <1>1, <1>2, <1>5, <1>6, <1>7, ShowStep

LEMMA ShowStoppedGood ==
    ASSUME WorkspacePageInv, NEW i \in PageRequests, ShowStopped(i) PROVE Good
<1> DEFINE j == requests[i].job
           p == [page EXCEPT !.job = j, !.status = jobs[j].status]
<1>1. /\ existing' = existing /\ jobs' = jobs /\ requests[i].kind = "stop"
      /\ pending' = pending /\ Render(p, Ended(i))
  BY DEF ShowStopped, IsAt, serverVars
<1>2. InTime(i)
  BY <1>1 DEF InTime, Abortable, Controlled, Commands
<1>3. j \in PageJobs
  BY <1>1, PageFacts DEF Aims
<1>4. p \in PageStates /\ StatusFits(p)
  BY <1>3, JobFacts, GivenJob
<1>5. pending' \in [Conversations -> PageJobs \cup {NoPageJob}]
  BY <1>1, PageFacts
<1> QED
  BY <1>1, <1>2, <1>4, <1>5, ShowStep

LEMMA ShowRestoredGood ==
    ASSUME WorkspacePageInv, NEW i \in PageRequests, ShowRestored(i) PROVE Good
<1> DEFINE j == requests[i].job
           s == jobs[j].status
           p == [page EXCEPT !.restored = j, !.job = j, !.status = s]
<1>1. /\ existing' = existing /\ jobs' = jobs /\ requests[i].kind = "restore" /\ InTime(i)
      /\ pending' = pending /\ Render(p, Ended(i))
  BY DEF ShowRestored, IsAt, Live, InTime, serverVars
<1>2. j \in PageJobs
  BY <1>1, PageFacts DEF Aims
<1>3. s \in PageJobStatuses \cup {"none"}
  BY <1>2, JobFacts
<1> HIDE DEF s, j
<1>4. p \in PageStates /\ p.job = j
  BY <1>2, <1>3, PageFacts DEF PageStates
<1>5. StatusFits(p)
  BY <1>2, <1>4 DEF StatusFits
<1>6. pending' \in [Conversations -> PageJobs \cup {NoPageJob}]
  BY <1>1, PageFacts
<1> QED
  BY <1>1, <1>4, <1>5, <1>6, ShowStep

\* The end of the job of the page is read again, or shown.
LEMMA ReloadJobGood ==
    ASSUME WorkspacePageInv, NEW i \in PageRequests, ReloadJob(i) PROVE Good
<1> DEFINE j == requests[i].job
           s == jobs[j].status
           ended == [page EXCEPT !.status = s, !.restored = NoPageJob]
           uncovered == [page EXCEPT !.hidden = FALSE]
<1>1. /\ existing' = existing /\ jobs' = jobs /\ requests[i].kind = "end" /\ InTime(i)
      /\ pending' = pending
  BY DEF ReloadJob, IsAt, Live, InTime, serverVars
<1>2. j \in PageJobs /\ j = page.job
  BY <1>1, PageFacts DEF Aims, BelongsTo, InTime, Abortable
<1>3. s \in PageJobStatuses \cup {"none"}
  BY <1>2, JobFacts
<1>4. page \in PageStates /\ StatusFits(page) /\ existing' \subseteq Conversations
      /\ jobs' \in [PageJobs -> ServerJobs]
      /\ pending' \in [Conversations -> PageJobs \cup {NoPageJob}]
  BY <1>1, PageFacts
<1>5. \/ Render(uncovered, Moved(i, "collected"))
      \/ Render(page, Moved(i, "collected"))
      \/ Render(ended, Ended(i))
  BY Zenon DEF ReloadJob
<1> HIDE DEF s
<1>6. ended \in PageStates /\ ended.job = page.job
  BY <1>3, <1>4 DEF PageStates
<1>7. StatusFits(ended)
  BY <1>2, <1>6 DEF StatusFits
<1>8. uncovered \in PageStates /\ StatusFits(uncovered)
  BY <1>4, OtherParts DEF PageStates
<1> HIDE DEF ended, uncovered
<1> DEFINE all == Moved(i, "collected")
<1>9. ASSUME NEW p \in PageStates, StatusFits(p), Render(p, all) PROVE Good
  <2>1. requests[i].kind \notin Commands
    BY <1>1 DEF Commands
  <2>2. all = Going(i, "collected", j)
    BY MovedOn
  <2>3. /\ all \in [PageRequests -> Requested]
        /\ \A k \in PageRequests : Aims(all[k]) /\ BelongsTo(all[k], page)
        /\ \A k \in PageRequests : k # i => all[k] = requests[k]
    BY <1>2, <2>1, <2>2, MovedFits
  <2> HIDE DEF all
  <2> QED
    BY <1>1, <1>4, <1>9, <2>3, RenderStep
<1> HIDE DEF all
<1>10. CASE Render(ended, Ended(i))
  BY <1>1, <1>4, <1>6, <1>7, <1>10, ShowStep
<1> QED
  BY <1>4, <1>5, <1>8, <1>9, <1>10 DEF all

LEMMA ShowEndGood ==
    ASSUME WorkspacePageInv, NEW i \in PageRequests, ShowEnd(i) PROVE Good
<1> DEFINE j == requests[i].job
           s == jobs[j].status
           c == jobs[j].conversation
           p == [page EXCEPT !.job = j, !.status = s, !.restored = NoPageJob]
           moved == [p EXCEPT !.conversation = c]
           kept == [d \in Conversations |->
                      IF d = requests[i].conversation /\ ProjectOf[d] = requests[i].project
                      THEN NoPageJob ELSE pending[d]]
<1>1. /\ existing' = existing /\ jobs' = jobs /\ requests[i].kind = "end" /\ InTime(i)
      /\ pending' = kept \/ pending' = pending
      /\ Render(moved, Ended(i)) \/ Render(page, Ended(i)) \/ Render(p, Ended(i))
  BY DEF ShowEnd, IsAt, Live, InTime, serverVars
<1>2. j \in PageJobs
  BY <1>1, PageFacts DEF Aims
<1>3. s \in PageJobStatuses \cup {"none"} /\ c \in Conversations \cup {NoConversation}
  BY <1>2, JobFacts
<1>4. page \in PageStates /\ StatusFits(page)
  BY PageFacts
<1>5. pending' \in [Conversations -> PageJobs \cup {NoPageJob}]
  BY <1>1, PageFacts
<1> HIDE DEF kept, s, c
<1>6. p \in PageStates /\ p.job = j
  BY <1>2, <1>3, <1>4 DEF PageStates
<1>7. StatusFits(p)
  BY <1>2, <1>6 DEF StatusFits
<1> HIDE DEF p
<1>8. moved \in PageStates /\ StatusFits(moved)
  BY <1>3, <1>6, <1>7, OtherParts
<1> HIDE DEF moved
<1> QED
  BY <1>1, <1>4, <1>5, <1>6, <1>7, <1>8, ShowStep

-----------------------------------------------------------------------------
(* The workspace page: its theorems *)

LEMMA WorkspacePageStart == WorkspacePageInit => WorkspacePageInv
<1> SUFFICES ASSUME WorkspacePageInit PROVE WorkspacePageInv
  OBVIOUS
<1>1. /\ existing = FirstConversations /\ jobs = [j \in PageJobs |-> NoServerJob]
      /\ requests = [r \in PageRequests |-> NoneUnderWay]
      /\ pending = [c \in Conversations |-> NoPageJob]
  BY DEF WorkspacePageInit
<1>2. page \in PageStates /\ StatusFits(page)
  BY FreshFits DEF WorkspacePageInit
<1>3. NoServerJob \in ServerJobs
  BY DEF NoServerJob, ServerJobs
<1>4. existing \subseteq Conversations /\ jobs \in [PageJobs -> ServerJobs]
      /\ pending \in [Conversations -> PageJobs \cup {NoPageJob}]
  BY <1>1, <1>3, WorkspacePageAssumption
<1>5. /\ requests \in [PageRequests -> Requested]
      /\ \A i \in PageRequests : Aims(requests[i]) /\ BelongsTo(requests[i], page)
  BY <1>1, NothingFits
<1>6. \A i \in PageRequests : requests[i].kind \in RequestKinds
  BY <1>5 DEF Requested
<1>7. WorkspacePageTypeOK
  BY <1>2, <1>4, <1>6, PageTypes
<1> QED
  BY <1>2, <1>5, <1>7, Belonging DEF WorkspacePageInv

LEMMA ContinueGood ==
    ASSUME WorkspacePageInv, NEW i \in PageRequests, Continue(i) PROVE Good
  BY KeepJobGood, FetchFixedGood, ShowCommandGood, ShowRetriedGood, ShowMessageGood,
     ShowStoppedGood, ShowRestoredGood, ReloadJobGood, ShowEndGood, DropGood DEF Continue

LEMMA WorkspacePageStep ==
    WorkspacePageInv /\ [WorkspacePageNext]_workspacePageVars
      => WorkspacePageInv' /\ (LateIsDropped \/ UNCHANGED workspacePageVars)
<1> SUFFICES ASSUME WorkspacePageInv, [WorkspacePageNext]_workspacePageVars
             PROVE  Good \/ (WorkspacePageInv' /\ UNCHANGED workspacePageVars)
  BY DEF Good
<1>1. CASE WorkspacePageNext
  <2>1. ASSUME NEW i \in PageRequests, Serve(i) PROVE Good
    BY <2>1, AcceptCommandGood, AcceptMessageGood, AcceptSettledGood DEF Serve
  <2>2. ASSUME NEW i \in Free(requests), Begin(i) PROVE Good
    BY <2>2, BeginGood DEF Free
  <2> QED
    BY <1>1, <2>1, <2>2, SelectProjectGood, SelectConversationGood, SettleConversationGood,
       ReloadGood, CloseFailureGood, ContinueGood, JobEndsGood DEF WorkspacePageNext
<1>2. CASE UNCHANGED workspacePageVars
  <2>1. /\ existing' = existing /\ jobs' = jobs /\ page' = page /\ requests' = requests
        /\ pending' = pending
    BY <1>2 DEF workspacePageVars
  <2>2. WorkspacePageInv'
    BY <2>1, PageFacts, PageInvariant
  <2> QED
    BY <1>2, <2>2
<1> QED
  BY <1>1, <1>2

\* The state has its shape, a request that is not aborted belongs to the context the page is
\* in, and it has the job that its answer is to be used with (page.tsx: the cleanups of the
\* effects; use-generation-job.ts: isCurrent).
THEOREM WorkspacePageInvariance == WorkspacePageSpec => []WorkspacePageInv
  BY WorkspacePageStart, WorkspacePageStep, PTL DEF WorkspacePageSpec

\* A late answer changes neither what the page shows nor what it would resume (page.tsx:
\* controller.signal.aborted after each await).
THEOREM LateResultsDropped == WorkspacePageSpec => LateResultsAreDropped
<1>1. WorkspacePageInv /\ [WorkspacePageNext]_workspacePageVars
        => [\A i \in PageRequests :
              (/\ requests[i].kind \in Abortable
               /\ requests'[i].at # requests[i].at
               /\ page' # FreshPage(page.project)
               /\ <<requests[i].project, requests[i].conversation>> # Context(page))
                 => page' = page /\ pending' = pending]_workspacePageVars
  BY WorkspacePageStep DEF LateIsDropped
<1> QED
  BY <1>1, WorkspacePageInvariance, PTL DEF WorkspacePageSpec, LateResultsAreDropped

-----------------------------------------------------------------------------
(* The model's route *)

\* The key a job is known to have found is one that was saved, and what is bound with a key of
\* the workspace is bound with none that is older.
ModelRouteInv ==
    /\ ModelRouteTypeOK
    /\ routedJob.known <= credential.key
    /\ routedJob.at \in {"bound", "asking"} /\ routedJob.route.mode = "llm"
         => routedJob.key >= routedJob.known

Masters == MasterKeys \cup {Unset}
RoutedJobs == [at : {"none", "queued", "claimed", "bound", "asking", "failed"},
               route : Routes, key : 0 .. MaxKeys, known : 0 .. MaxKeys]
Credentials == [key : 0 .. MaxKeys, under : Masters]
Savings == [at : {"idle", "allowed", "encrypted"}, under : Masters]

LEMMA RouteTypes ==
    ModelRouteTypeOK <=> /\ apiEnv \in ApiEnvironments /\ workerEnv \in WorkerEnvironments
                         /\ deployments \in 0 .. MaxDeployments /\ credential \in Credentials
                         /\ saving \in Savings /\ routedJob \in RoutedJobs
  BY DEF ModelRouteTypeOK, RoutedJobs, Credentials, Savings, Masters

\* A job whose key is no older than it knows of.
KeyIsNew(job, c) ==
    /\ job.known <= c.key
    /\ job.at \in {"bound", "asking"} /\ job.route.mode = "llm" => job.key >= job.known

LEMMA RouteInvariant ==
    ModelRouteInv <=> /\ apiEnv \in ApiEnvironments /\ workerEnv \in WorkerEnvironments
                      /\ deployments \in 0 .. MaxDeployments /\ credential \in Credentials
                      /\ saving \in Savings /\ routedJob \in RoutedJobs
                      /\ KeyIsNew(routedJob, credential)
  BY RouteTypes DEF ModelRouteInv, KeyIsNew

LEMMA NoRoutedJobFits ==
    NoRoutedJob \in RoutedJobs /\ \A c \in Credentials : KeyIsNew(NoRoutedJob, c)
<1>1. 0 \in 0 .. MaxKeys
  BY ModelRouteAssumption
<1>2. DeterministicRoute \in Routes
  BY DEF Routes
<1>3. /\ NoRoutedJob \in RoutedJobs /\ NoRoutedJob.at = "none" /\ NoRoutedJob.known = 0
  BY <1>1, <1>2 DEF NoRoutedJob, RoutedJobs, DeploymentKey
<1>4. \A c \in Credentials : 0 <= c.key
  BY ModelRouteAssumption DEF Credentials
<1> QED
  BY <1>3, <1>4 DEF KeyIsNew

LEMMA ModelRouteStart == ModelRouteInit => ModelRouteInv
<1> SUFFICES ASSUME ModelRouteInit PROVE ModelRouteInv
  OBVIOUS
<1>1. credential = [key |-> 0, under |-> Unset] /\ credential \in Credentials
  BY ModelRouteAssumption DEF ModelRouteInit, NoCredential, DeploymentKey, Credentials, Masters
<1>2. saving \in Savings
  BY DEF ModelRouteInit, NotSaving, Savings, Masters
<1>3. deployments \in 0 .. MaxDeployments
  BY ModelRouteAssumption DEF ModelRouteInit
<1>4. apiEnv \in ApiEnvironments /\ workerEnv \in WorkerEnvironments /\ routedJob = NoRoutedJob
  BY DEF ModelRouteInit
<1> QED
  BY <1>1, <1>2, <1>3, <1>4, NoRoutedJobFits, RouteInvariant

\* A job that moves and keeps what it is bound with.
LEMMA JobMoves ==
    ASSUME NEW job \in RoutedJobs, NEW c \in Credentials, KeyIsNew(job, c),
           NEW at \in {"none", "queued", "claimed", "bound", "asking", "failed"},
           at \in {"bound", "asking"} =>
              job.at \in {"bound", "asking"} \/ job.route.mode # "llm"
    PROVE  [job EXCEPT !.at = at] \in RoutedJobs /\ KeyIsNew([job EXCEPT !.at = at], c)
<1> DEFINE q == [job EXCEPT !.at = at]
<1>1. /\ q \in RoutedJobs /\ q.at = at /\ q.route = job.route /\ q.key = job.key
      /\ q.known = job.known
  BY DEF RoutedJobs
<1> HIDE DEF q
<1>2. KeyIsNew(q, c)
  BY <1>1 DEF KeyIsNew
<1> QED
  BY <1>1, <1>2 DEF q

\* A job that has to be claimed again.
LEMMA JobRequeued ==
    ASSUME NEW job \in RoutedJobs, NEW c \in Credentials, KeyIsNew(job, c)
    PROVE  LET q == [job EXCEPT !.at = "queued", !.key = DeploymentKey]
           IN  q \in RoutedJobs /\ KeyIsNew(q, c)
<1> DEFINE q == [job EXCEPT !.at = "queued", !.key = DeploymentKey]
<1>1. 0 \in 0 .. MaxKeys
  BY ModelRouteAssumption
<1>2. /\ q \in RoutedJobs /\ q.at = "queued" /\ q.known = job.known
  BY <1>1 DEF RoutedJobs, DeploymentKey
<1> HIDE DEF q
<1>3. KeyIsNew(q, c)
  BY <1>2 DEF KeyIsNew
<1> QED
  BY <1>2, <1>3 DEF q

LEMMA JobRouted ==
    ASSUME NEW env \in ApiEnvironments, Resolves(env) PROVE RouteOf(env) \in Routes
  BY DEF ApiEnvironments, Resolves, RouteOf, Complete, Routes

LEMMA RoutedJobStep ==
    ASSUME ModelRouteInv, RequestRouted \/ ClaimRouted \/ BindGateway \/ AskModel \/ EndRouted
    PROVE  ModelRouteInv'
<1>1. /\ apiEnv \in ApiEnvironments /\ workerEnv \in WorkerEnvironments
      /\ deployments \in 0 .. MaxDeployments /\ credential \in Credentials
      /\ saving \in Savings /\ routedJob \in RoutedJobs /\ KeyIsNew(routedJob, credential)
  BY RouteInvariant
<1>2. /\ apiEnv' = apiEnv /\ workerEnv' = workerEnv /\ deployments' = deployments
      /\ credential' = credential /\ saving' = saving
  BY DEF RequestRouted, ClaimRouted, BindGateway, AskModel, EndRouted, credentialVars
<1>3. credential.key \in 0 .. MaxKeys
  BY <1>1 DEF Credentials
<1> SUFFICES routedJob' \in RoutedJobs /\ KeyIsNew(routedJob', credential)
  BY <1>1, <1>2 DEF ModelRouteInv, ModelRouteTypeOK, KeyIsNew,
     ApiEnvironments, WorkerEnvironments, Credentials, Savings, RoutedJobs, Masters
<1>4. CASE RequestRouted
  <2> DEFINE r == RouteOf(apiEnv)
             q == [routedJob EXCEPT !.at = "queued", !.route = r]
  <2>1. r \in Routes /\ routedJob' = q
    BY <1>1, <1>4, JobRouted DEF RequestRouted
  <2> HIDE DEF r
  <2>2. q \in RoutedJobs /\ q.at = "queued" /\ q.known = routedJob.known
    BY <1>1, <2>1 DEF RoutedJobs
  <2> HIDE DEF q
  <2>3. KeyIsNew(q, credential)
    BY <1>1, <2>2 DEF KeyIsNew
  <2> QED
    BY <2>1, <2>2, <2>3
<1>5. CASE ClaimRouted
  <2> DEFINE q == [routedJob EXCEPT !.at = "claimed", !.known = credential.key]
  <2>1. routedJob' = q
    BY <1>5 DEF ClaimRouted
  <2>2. q \in RoutedJobs /\ q.at = "claimed" /\ q.known = credential.key
    BY <1>1, <1>3 DEF RoutedJobs
  <2> HIDE DEF q
  <2>3. KeyIsNew(q, credential)
    BY <1>3, <2>2 DEF KeyIsNew
  <2> QED
    BY <2>1, <2>2, <2>3
<1>6. CASE BindGateway
  <2>1. \/ routedJob' = [routedJob EXCEPT !.at = "bound"] /\ routedJob.route.mode # "llm"
        \/ routedJob' = Gateway
        \/ routedJob' = [routedJob EXCEPT !.at = "failed"]
    BY <1>6 DEF BindGateway
  <2>2. CASE routedJob' = Gateway
    <3> DEFINE q == [routedJob EXCEPT !.at = "bound", !.key = credential.key]
    <3>1. q \in RoutedJobs /\ q.key = credential.key /\ q.known = routedJob.known
      BY <1>1, <1>3 DEF RoutedJobs
    <3>2. routedJob.known \in Nat
      BY <1>1, ModelRouteAssumption DEF RoutedJobs
    <3>3. routedJob' = q
      BY <2>2 DEF Gateway
    <3> HIDE DEF q
    <3>4. KeyIsNew(q, credential)
      BY <1>1, <1>3, <3>1, <3>2 DEF KeyIsNew
    <3> QED
      BY <3>1, <3>3, <3>4
  <2> QED
    BY <1>1, <2>1, <2>2, JobMoves
<1>7. CASE AskModel
  BY <1>1, <1>7, JobMoves DEF AskModel
<1>8. CASE EndRouted
  BY <1>1, <1>8, JobRequeued, NoRoutedJobFits DEF EndRouted
<1> QED
  BY <1>4, <1>5, <1>6, <1>7, <1>8

\* A deployment takes the jobs from the worker that it replaces.
LEMMA DeployStep ==
    ASSUME ModelRouteInv,
           \/ \E env \in ApiEnvironments : DeployApi(env)
           \/ \E env \in WorkerEnvironments : DeployWorker(env)
    PROVE  ModelRouteInv'
<1>1. /\ apiEnv \in ApiEnvironments /\ workerEnv \in WorkerEnvironments
      /\ deployments \in 0 .. MaxDeployments /\ credential \in Credentials
      /\ saving \in Savings /\ routedJob \in RoutedJobs /\ KeyIsNew(routedJob, credential)
  BY RouteInvariant
<1>2. /\ apiEnv' \in ApiEnvironments /\ workerEnv' \in WorkerEnvironments
      /\ credential' = credential
      /\ deployments < MaxDeployments /\ deployments' = deployments + 1
      /\ saving' \in {saving, NotSaving}
      /\ \/ routedJob' = routedJob
         \/ routedJob' = [routedJob EXCEPT !.at = "queued", !.key = DeploymentKey]
  BY <1>1 DEF DeployApi, DeployWorker, credentialVars
<1>3. deployments' \in 0 .. MaxDeployments
  BY <1>1, <1>2, ModelRouteAssumption
<1>4. NotSaving \in Savings
  BY DEF NotSaving, Savings, Masters
<1>5. routedJob' \in RoutedJobs /\ KeyIsNew(routedJob', credential)
  BY <1>1, <1>2, JobRequeued
<1> QED
  BY <1>1, <1>2, <1>3, <1>4, <1>5 DEF ModelRouteInv, ModelRouteTypeOK, KeyIsNew,
     ApiEnvironments, WorkerEnvironments, Credentials, Savings, RoutedJobs, Masters

\* A key that is saved is newer than all that were.
LEMMA SavingStep ==
    ASSUME ModelRouteInv, StartSaving \/ EncryptKey \/ StoreKey PROVE ModelRouteInv'
<1>1. /\ apiEnv \in ApiEnvironments /\ workerEnv \in WorkerEnvironments
      /\ deployments \in 0 .. MaxDeployments /\ credential \in Credentials
      /\ saving \in Savings /\ routedJob \in RoutedJobs /\ KeyIsNew(routedJob, credential)
  BY RouteInvariant
<1>2. /\ apiEnv' = apiEnv /\ workerEnv' = workerEnv /\ deployments' = deployments
      /\ routedJob' = routedJob
  BY DEF StartSaving, EncryptKey, StoreKey
<1>3. NotSaving \in Savings
  BY DEF NotSaving, Savings, Masters
<1>4. saving' \in Savings
  <2>1. CASE StartSaving
    BY <1>1, <2>1 DEF StartSaving, Savings
  <2>2. CASE EncryptKey
    <3>1. apiEnv.master \in Masters
      BY <1>1 DEF ApiEnvironments, Masters
    <3> QED
      BY <1>3, <2>2, <3>1 DEF EncryptKey, Savings
  <2>3. CASE StoreKey
    BY <1>3, <2>3 DEF StoreKey
  <2> QED
    BY <2>1, <2>2, <2>3
<1>5. credential' \in Credentials /\ KeyIsNew(routedJob, credential')
  <2>1. CASE StoreKey
    <3> DEFINE c == [key |-> credential.key + 1, under |-> saving.under]
    <3>1. credential' = c /\ credential.key < MaxKeys
      BY <2>1 DEF StoreKey
    <3>2. credential.key \in 0 .. MaxKeys /\ saving.under \in Masters
      BY <1>1 DEF Credentials, Savings
    <3>3. c \in Credentials
      BY <3>1, <3>2, ModelRouteAssumption DEF Credentials
    <3>4. routedJob.known \in 0 .. MaxKeys
      BY <1>1 DEF RoutedJobs
    <3>5. routedJob.known <= c.key
      BY <1>1, <3>2, <3>4, ModelRouteAssumption DEF KeyIsNew
    <3> HIDE DEF c
    <3>6. KeyIsNew(routedJob, c)
      BY <1>1, <3>5 DEF KeyIsNew
    <3> QED
      BY <3>1, <3>3, <3>6
  <2>2. CASE StartSaving \/ EncryptKey
    BY <1>1, <2>2 DEF StartSaving, EncryptKey
  <2> QED
    BY <2>1, <2>2
<1> QED
  BY <1>1, <1>2, <1>4, <1>5 DEF ModelRouteInv, ModelRouteTypeOK, KeyIsNew,
     ApiEnvironments, WorkerEnvironments, Credentials, Savings, RoutedJobs, Masters

LEMMA ModelRouteStep == ModelRouteInv /\ [ModelRouteNext]_modelRouteVars => ModelRouteInv'
<1> SUFFICES ASSUME ModelRouteInv, [ModelRouteNext]_modelRouteVars PROVE ModelRouteInv'
  OBVIOUS
<1>1. CASE ModelRouteNext
  BY <1>1, DeployStep, SavingStep, RoutedJobStep DEF ModelRouteNext
<1>2. CASE UNCHANGED modelRouteVars
  BY <1>2 DEF modelRouteVars, credentialVars, ModelRouteInv, ModelRouteTypeOK,
     ApiEnvironments, WorkerEnvironments
<1> QED
  BY <1>1, <1>2

\* The route keeps its shape, and a job is bound with no key older than the one it found.
THEOREM ModelRouteInvariance == ModelRouteSpec => []ModelRouteInv
  BY ModelRouteStart, ModelRouteStep, PTL DEF ModelRouteSpec

\* A request carries no key older than the one the workspace had when its job was claimed,
\* and names a model that was configured (workspaceApiKeyForGeneration).
THEOREM SavedKeyIsUsed == ModelRouteSpec => []RequestsUseSavedKey
<1>1. ModelRouteInv => RequestsUseSavedKey
  <2>1. ModelRouteInv => routedJob.route \in Routes
    BY DEF ModelRouteInv, ModelRouteTypeOK
  <2>2. \A r \in Routes : r.mode = "llm" => r.model \in Models
    BY DEF Routes, DeterministicRoute
  <2> QED
    BY <2>1, <2>2 DEF ModelRouteInv, RequestsUseSavedKey
<1> QED
  BY <1>1, ModelRouteInvariance, PTL

-----------------------------------------------------------------------------
(* The plugins of a project *)

\* Plugins that are not two versions of one, and offer nothing twice.
Apart(ms) ==
    \A m \in ms, n \in ms :
        m # n => CapabilitiesOf[m] \cap CapabilitiesOf[n] = {} /\ PluginOf[m] # PluginOf[n]

Bindings == [status : {"none", "enabled", "disabled"}, version : 0 .. MaxBindingVersion,
             key : BindKeys \cup {NoKeyYet}]
ReadBinders == [at : {"read"}, manifest : Manifests, enable : BOOLEAN, key : BindKeys]
CheckedBinders == [at : {"check", "write"}, manifest : Manifests, enable : BOOLEAN,
                   key : BindKeys, read : Bindings]
Binders == {Unlocked} \cup ReadBinders \cup CheckedBinders

\* A plugin that is about to be enabled is apart from all that are, and what a job was frozen
\* with was installed once and is apart.
Agreed(b, enabled) == b.at = "write" /\ b.enable => Apart(enabled \cup {b.manifest})
Founded(job, status) ==
    job # NoPluginJob =>
        /\ \A m \in job.plugins : status[m] # "absent"
        /\ job.theme \in job.plugins \cup {NoTheme} /\ ~Conflicting(job.plugins)

\* The plugins that are enabled are apart, those of revoked installations too.
ProjectPluginsInv ==
    /\ ProjectPluginsTypeOK /\ binder \in Binders
    /\ Apart(EnabledBindings) /\ Agreed(binder, EnabledBindings)
    /\ Founded(pluginJob, installation)

PluginJobs == [at : {"none", "frozen", "drafted"}, theme : Manifests \cup {NoTheme},
               plugins : SUBSET Manifests]

PluginShape ==
    /\ installation \in [Manifests -> InstallationStatuses]
    /\ installKey \in [Manifests -> InstallKeys \cup {NoKeyYet}]
    /\ revocation \in [Manifests -> {"none", "marking", "disabling"}]
    /\ binding \in [Manifests -> Bindings] /\ binder \in Binders /\ pluginJob \in PluginJobs

LEMMA BinderShapes ==
    /\ Unlocked \in Binders /\ Unlocked.at = "free"
    /\ ReadBinders \subseteq Binders /\ CheckedBinders \subseteq Binders
    /\ \A b \in Binders : b.at \in {"free", "read", "check", "write"}
    /\ \A b \in Binders : b.at = "read" => b \in ReadBinders
    /\ \A b \in Binders : b.at \in {"check", "write"} => b \in CheckedBinders
<1>1. Unlocked.at = "free"
  BY DEF Unlocked
<1>2. \A b \in ReadBinders : b.at = "read"
  BY DEF ReadBinders
<1>3. \A b \in CheckedBinders : b.at \in {"check", "write"}
  BY DEF CheckedBinders
<1> QED
  BY <1>1, <1>2, <1>3 DEF Binders

LEMMA PluginInvariant ==
    ProjectPluginsInv <=>
        /\ PluginShape /\ Apart(EnabledBindings) /\ Agreed(binder, EnabledBindings)
        /\ Founded(pluginJob, installation)
<1>1. binder \in Binders => binder.at \in {"free", "read", "check", "write"}
  BY BinderShapes
<1> QED
  BY <1>1 DEF ProjectPluginsInv, ProjectPluginsTypeOK, PluginShape, Bindings, PluginJobs

\* Apart sets have apart parts.
LEMMA ApartSubset == ASSUME NEW ms, NEW ns \in SUBSET ms, Apart(ms) PROVE Apart(ns)
  BY DEF Apart

LEMMA ApartNeverConflict == ASSUME NEW ms, Apart(ms) PROVE ~Conflicting(ms)
  BY DEF Apart, Conflicting

LEMMA AgreedSubset ==
    ASSUME NEW b, NEW ms, NEW ns \in SUBSET ms, Agreed(b, ms) PROVE Agreed(b, ns)
<1> SUFFICES ASSUME b.at = "write", b.enable PROVE Apart(ns \cup {b.manifest})
  BY DEF Agreed
<1>1. Apart(ms \cup {b.manifest})
  BY DEF Agreed
<1>2. ns \cup {b.manifest} \in SUBSET (ms \cup {b.manifest})
  OBVIOUS
<1> QED
  BY <1>1, <1>2, ApartSubset

\* An installation that changes does not become absent.
LEMMA FoundedStays ==
    ASSUME NEW job, NEW old, NEW new, Founded(job, old),
           \A m \in job.plugins : old[m] # "absent" => new[m] # "absent"
    PROVE  Founded(job, new)
  BY DEF Founded

LEMMA PluginsStart == ProjectPluginsInit => ProjectPluginsInv
<1> SUFFICES ASSUME ProjectPluginsInit PROVE ProjectPluginsInv
  OBVIOUS
<1>1. NoBinding \in Bindings /\ NoBinding.status = "none"
  BY ProjectPluginsAssumption DEF NoBinding, Bindings
<1>2. PluginShape
  <2>1. binding \in [Manifests -> Bindings]
    BY <1>1 DEF ProjectPluginsInit
  <2>2. pluginJob \in PluginJobs
    BY DEF ProjectPluginsInit, NoPluginJob, PluginJobs
  <2>3. binder \in Binders
    BY BinderShapes DEF ProjectPluginsInit
  <2>4. /\ installation \in [Manifests -> InstallationStatuses]
        /\ installKey \in [Manifests -> InstallKeys \cup {NoKeyYet}]
        /\ revocation \in [Manifests -> {"none", "marking", "disabling"}]
    BY DEF ProjectPluginsInit, InstallationStatuses
  <2> QED
    BY <2>1, <2>2, <2>3, <2>4 DEF PluginShape
<1>3. EnabledBindings = {}
  BY <1>1 DEF ProjectPluginsInit, EnabledBindings
<1>4. Apart(EnabledBindings)
  BY <1>3 DEF Apart
<1>5. Agreed(binder, EnabledBindings)
  BY BinderShapes DEF Agreed, ProjectPluginsInit
<1>6. Founded(pluginJob, installation)
  BY DEF Founded, ProjectPluginsInit
<1> QED
  BY <1>2, <1>4, <1>5, <1>6, PluginInvariant

-----------------------------------------------------------------------------
(* The plugins of a project: the administrator *)

\* The administrator enables nothing.
LEMMA AdministratorStep ==
    ASSUME ProjectPluginsInv, PluginShape', binder' = binder, pluginJob' = pluginJob,
           \A m \in Manifests : binding'[m].status = "enabled" => binding[m].status = "enabled",
           \A m \in Manifests : installation[m] # "absent" => installation'[m] # "absent"
    PROVE  ProjectPluginsInv'
<1>1. /\ Apart(EnabledBindings) /\ Agreed(binder, EnabledBindings) /\ PluginShape
      /\ Founded(pluginJob, installation)
  BY PluginInvariant
<1>2. EnabledBindings' \in SUBSET EnabledBindings
  BY DEF EnabledBindings
<1>3. Apart(EnabledBindings') /\ Agreed(binder, EnabledBindings')
  BY <1>1, <1>2, ApartSubset, AgreedSubset
<1>4. pluginJob.plugins \subseteq Manifests
  BY <1>1 DEF PluginShape, PluginJobs
<1>5. Founded(pluginJob, installation')
  BY <1>1, <1>4, FoundedStays
<1>6. Apart(EnabledBindings)' /\ Agreed(binder, EnabledBindings)'
      /\ Founded(pluginJob, installation)'
  BY <1>3, <1>5 DEF Apart, Agreed, Founded, Conflicting
<1>7. binder' \in Binders
  BY DEF PluginShape
<1>8. ProjectPluginsTypeOK'
  <2>1. binder'.at \in {"free", "read", "check", "write"}
    BY <1>7, BinderShapes
  <2> QED
    BY <2>1 DEF ProjectPluginsTypeOK, PluginShape, Bindings, PluginJobs
<1> QED
  BY <1>6, <1>7, <1>8 DEF ProjectPluginsInv

LEMMA AdministratorGood ==
    ASSUME ProjectPluginsInv, NEW m \in Manifests,
           \/ \E k \in InstallKeys : InstallPlugin(m, k)
           \/ StartRevoking(m) \/ CommitRevocation(m) \/ LoseRevocation(m) \/ RestorePlugin(m)
    PROVE  ProjectPluginsInv'
<1>1. PluginShape
  BY PluginInvariant
<1>2. CASE \E k \in InstallKeys : InstallPlugin(m, k)
  <2>1. PluginShape'
    BY <1>1, <1>2 DEF PluginShape, InstallPlugin, InstallationStatuses
  <2> QED
    BY <1>1, <1>2, <2>1, AdministratorStep DEF InstallPlugin, PluginShape
<1>3. CASE StartRevoking(m)
  <2>1. PluginShape'
    BY <1>1, <1>3 DEF PluginShape, StartRevoking
  <2> QED
    BY <1>3, <2>1, AdministratorStep DEF StartRevoking
<1>4. CASE LoseRevocation(m)
  <2>1. PluginShape'
    BY <1>1, <1>4 DEF PluginShape, LoseRevocation
  <2> QED
    BY <1>4, <2>1, AdministratorStep DEF LoseRevocation
<1>5. CASE RestorePlugin(m)
  <2>1. PluginShape'
    BY <1>1, <1>5 DEF PluginShape, RestorePlugin, InstallationStatuses
  <2> QED
    BY <1>1, <1>5, <2>1, AdministratorStep DEF RestorePlugin, PluginShape
<1>6. CASE CommitRevocation(m)
  <2> DEFINE b == IF revocation[m] = "disabling"
                  THEN [binding[m] EXCEPT !.status = "disabled",
                                          !.version = binding[m].version + 1]
                  ELSE binding[m]
  <2>0a. binding \in [Manifests -> Bindings] /\ binding[m] \in Bindings
    BY <1>1 DEF PluginShape
  <2>1. /\ installKey' = installKey /\ installation' = [installation EXCEPT ![m] = "revoked"]
        /\ revocation' = [revocation EXCEPT ![m] = "none"]
        /\ binder' = binder /\ pluginJob' = pluginJob
        /\ revocation[m] = "disabling" => binding[m].version < MaxBindingVersion
    BY <1>6 DEF CommitRevocation
  <2>2. b \in Bindings /\ (b.status = "enabled" => binding[m].status = "enabled")
    <3>1. binding[m].version \in 0 .. MaxBindingVersion
      BY <2>0a DEF Bindings
    <3>2. revocation[m] = "disabling" => binding[m].version + 1 \in 0 .. MaxBindingVersion
      BY <2>1, <3>1, ProjectPluginsAssumption
    <3> QED
      BY <2>0a, <3>2 DEF Bindings
  <2>2a. binding' = [binding EXCEPT ![m] = b]
    <3>1. CASE revocation[m] = "disabling"
      <4>1. binding' = [binding EXCEPT ![m].status = "disabled", ![m].version = @ + 1]
        BY <1>6, <3>1 DEF CommitRevocation
      <4> QED
        BY <2>0a, <3>1, <4>1 DEF Bindings
    <3>2. CASE revocation[m] # "disabling"
      BY <1>6, <2>0a, <3>2 DEF CommitRevocation
    <3> QED
      BY <3>1, <3>2
  <2> HIDE DEF b
  <2>3. PluginShape'
    BY <1>1, <2>1, <2>2, <2>2a DEF PluginShape, InstallationStatuses
  <2>4. \A n \in Manifests : binding'[n].status = "enabled" => binding[n].status = "enabled"
    BY <1>1, <2>1, <2>2, <2>2a DEF PluginShape
  <2>5. \A n \in Manifests : installation[n] # "absent" => installation'[n] # "absent"
    BY <1>1, <2>1 DEF PluginShape
  <2> QED
    BY <2>1, <2>3, <2>4, <2>5, AdministratorStep
<1> QED
  BY <1>2, <1>3, <1>4, <1>5, <1>6

-----------------------------------------------------------------------------
(* The plugins of a project: the editor and a job *)

\* The editor changes no installation and no job.
LEMMA EditorStep ==
    ASSUME ProjectPluginsInv, installation' = installation, installKey' = installKey,
           revocation' = revocation, pluginJob' = pluginJob, binder' \in Binders,
           binding' \in [Manifests -> Bindings], Apart(EnabledBindings'),
           Agreed(binder', EnabledBindings')
    PROVE  ProjectPluginsInv'
<1>1. PluginShape /\ Founded(pluginJob, installation)
  BY PluginInvariant
<1>2. binder'.at \in {"free", "read", "check", "write"}
  BY BinderShapes
<1>3. ProjectPluginsTypeOK'
  BY <1>1, <1>2 DEF ProjectPluginsTypeOK, PluginShape, Bindings, PluginJobs
<1>4. Apart(EnabledBindings)' /\ Agreed(binder, EnabledBindings)'
      /\ Founded(pluginJob, installation)'
  BY <1>1 DEF Apart, Agreed, Founded, Conflicting
<1> QED
  BY <1>3, <1>4 DEF ProjectPluginsInv

\* A plugin that is found to conflict with none may be enabled.
LEMMA CheckedApart ==
    ASSUME NEW ms, NEW m, Apart(ms), ~Conflicting(ms \cup {m}),
           \A n \in ms \ {m} : PluginOf[n] # PluginOf[m]
    PROVE  Apart(ms \cup {m})
<1> SUFFICES ASSUME NEW a \in ms \cup {m}, NEW b \in ms \cup {m}, a # b
             PROVE  CapabilitiesOf[a] \cap CapabilitiesOf[b] = {} /\ PluginOf[a] # PluginOf[b]
  BY DEF Apart
<1>1. CapabilitiesOf[a] \cap CapabilitiesOf[b] = {}
  BY DEF Conflicting
<1>2. CASE a \in ms /\ b \in ms
  BY <1>1, <1>2 DEF Apart
<1>3. CASE a = m \/ b = m
  BY <1>1, <1>3
<1> QED
  BY <1>2, <1>3

LEMMA EditorGood ==
    ASSUME ProjectPluginsInv,
           \/ \E m \in Manifests, enable \in BOOLEAN, k \in BindKeys : StartBinding(m, enable, k)
           \/ ReadBinding \/ CheckConflicts \/ WriteBinding \/ GiveUpBinding
    PROVE  ProjectPluginsInv'
<1>1. /\ PluginShape /\ Apart(EnabledBindings) /\ Agreed(binder, EnabledBindings)
      /\ binding \in [Manifests -> Bindings] /\ binder \in Binders
  BY PluginInvariant DEF PluginShape
<1>2. /\ installation' = installation /\ installKey' = installKey
      /\ revocation' = revocation /\ pluginJob' = pluginJob
  BY DEF StartBinding, ReadBinding, CheckConflicts, WriteBinding, GiveUpBinding
<1>3. ASSUME binding' = binding, binder' \in Binders, Agreed(binder', EnabledBindings)
      PROVE  ProjectPluginsInv'
  <2>1. EnabledBindings' = EnabledBindings
    BY <1>3 DEF EnabledBindings
  <2> QED
    BY <1>1, <1>2, <1>3, <2>1, EditorStep
<1>4. ASSUME NEW m \in Manifests, NEW enable \in BOOLEAN, NEW k \in BindKeys,
             StartBinding(m, enable, k)
      PROVE  ProjectPluginsInv'
  <2> DEFINE b == [at |-> "read", manifest |-> m, enable |-> enable, key |-> k]
  <2>1. binder' = b /\ binding' = binding
    BY <1>4 DEF StartBinding
  <2>2. b \in ReadBinders /\ b.at = "read"
    BY DEF ReadBinders
  <2> HIDE DEF b
  <2>3. Agreed(b, EnabledBindings)
    BY <2>2 DEF Agreed
  <2> QED
    BY <1>3, <2>1, <2>2, <2>3, BinderShapes
<1>5. CASE ReadBinding
  <2> DEFINE b == [at |-> IF binder.enable THEN "check" ELSE "write",
                   manifest |-> binder.manifest, enable |-> binder.enable, key |-> binder.key,
                   read |-> binding[binder.manifest]]
  <2>1. binder.at = "read" /\ binder' = b /\ binding' = binding
    BY <1>5 DEF ReadBinding
  <2>2. /\ binder.manifest \in Manifests /\ binder.enable \in BOOLEAN
        /\ binder.key \in BindKeys
    BY <1>1, <2>1, BinderShapes DEF ReadBinders
  <2>3. binding[binder.manifest] \in Bindings
    BY <1>1, <2>2
  <2>4. b \in CheckedBinders
    BY <2>2, <2>3 DEF CheckedBinders
  <2>5. b.at = "write" => ~b.enable
    OBVIOUS
  <2> HIDE DEF b
  <2>6. Agreed(b, EnabledBindings)
    BY <2>5 DEF Agreed
  <2> QED
    BY <1>3, <2>1, <2>4, <2>6, BinderShapes
<1>6. CASE CheckConflicts
  <2> DEFINE b == [binder EXCEPT !.at = "write"]
  <2>1. /\ binder.at = "check" /\ binder' = b /\ binding' = binding
        /\ \A n \in EnabledBindings \ {binder.manifest} :
              PluginOf[n] # PluginOf[binder.manifest]
        /\ ~Conflicting(EnabledBindings \cup {binder.manifest})
    BY <1>6 DEF CheckConflicts, Rivals
  <2>2. b \in CheckedBinders /\ b.manifest = binder.manifest
    BY <1>1, <2>1, BinderShapes DEF CheckedBinders
  <2> HIDE DEF b
  <2>3. Apart(EnabledBindings \cup {b.manifest})
    BY <1>1, <2>1, <2>2, CheckedApart
  <2>4. Agreed(b, EnabledBindings)
    BY <2>3 DEF Agreed
  <2> QED
    BY <1>3, <2>1, <2>2, <2>4, BinderShapes
<1>7. CASE WriteBinding
  <2> DEFINE m == binder.manifest
             b == [status |-> IF binder.enable THEN "enabled" ELSE "disabled",
                   version |-> binder.read.version + 1, key |-> binder.key]
  <2>1. /\ binder.at = "write" /\ binder.read.version < MaxBindingVersion
        /\ binding' = [binding EXCEPT ![m] = b] /\ binder' = Unlocked
    BY <1>7 DEF WriteBinding
  <2>2. m \in Manifests /\ binder.read \in Bindings /\ binder.key \in BindKeys
    BY <1>1, <2>1, BinderShapes DEF CheckedBinders
  <2>3. binder.read.version \in 0 .. MaxBindingVersion
    BY <2>2 DEF Bindings
  <2>4. binder.read.version + 1 \in 0 .. MaxBindingVersion
    BY <2>1, <2>3, ProjectPluginsAssumption
  <2>5. b \in Bindings /\ (b.status = "enabled" => binder.enable)
    BY <2>2, <2>4 DEF Bindings
  <2> HIDE DEF b
  <2>6. binding' \in [Manifests -> Bindings]
    BY <1>1, <2>1, <2>5
  <2>7. Apart(EnabledBindings')
    <3>1. CASE b.status = "enabled"
      <4>1. Apart(EnabledBindings \cup {m})
        BY <1>1, <2>1, <2>5, <3>1 DEF Agreed
      <4>2. EnabledBindings' \in SUBSET (EnabledBindings \cup {m})
        BY <1>1, <2>1 DEF EnabledBindings
      <4> QED
        BY <4>1, <4>2, ApartSubset
    <3>2. CASE b.status # "enabled"
      <4>1. EnabledBindings' \in SUBSET EnabledBindings
        BY <1>1, <2>1, <2>2, <3>2 DEF EnabledBindings
      <4> QED
        BY <1>1, <4>1, ApartSubset
    <3> QED
      BY <3>1, <3>2
  <2>8. binder' \in Binders /\ binder'.at = "free"
    BY <2>1, BinderShapes
  <2>9. Agreed(binder', EnabledBindings')
    BY <2>8 DEF Agreed
  <2> QED
    BY <1>2, <2>6, <2>7, <2>8, <2>9, EditorStep
<1>8. CASE GiveUpBinding
  <2>1. binder' = Unlocked /\ binding' = binding
    BY <1>8 DEF GiveUpBinding
  <2>2. binder' \in Binders /\ binder'.at = "free"
    BY <2>1, BinderShapes
  <2>3. Agreed(binder', EnabledBindings)
    BY <2>2 DEF Agreed
  <2> QED
    BY <1>3, <2>1, <2>2, <2>3
<1> QED
  BY <1>4, <1>5, <1>6, <1>7, <1>8

\* What is usable is enabled.
LEMMA UsableApart ==
    ASSUME ProjectPluginsInv
    PROVE  /\ Apart(UsablePlugins) /\ UsablePlugins \in SUBSET Manifests
           /\ \A m \in UsablePlugins : installation[m] = "installed"
<1>1. UsablePlugins \in SUBSET EnabledBindings /\ EnabledBindings \subseteq Manifests
  BY DEF UsablePlugins, EnabledBindings
<1> QED
  BY <1>1, ApartSubset DEF ProjectPluginsInv, UsablePlugins

LEMMA PluginJobGood ==
    ASSUME ProjectPluginsInv,
           \/ \E look \in Manifests \cup {NoTheme} : FreezePlugins(look)
           \/ UsePlugins \/ SnapshotPlugins \/ JobFails
    PROVE  ProjectPluginsInv'
<1>1. /\ PluginShape /\ Apart(EnabledBindings) /\ Agreed(binder, EnabledBindings)
      /\ Founded(pluginJob, installation) /\ pluginJob \in PluginJobs
  BY PluginInvariant DEF PluginShape
<1>2. /\ installation' = installation /\ installKey' = installKey
      /\ revocation' = revocation /\ binding' = binding /\ binder' = binder
  BY DEF FreezePlugins, UsePlugins, SnapshotPlugins, JobFails, bindingVars
<1>3. pluginJob' \in PluginJobs /\ Founded(pluginJob', installation)
  <2>1. ASSUME NEW look \in Manifests \cup {NoTheme}, FreezePlugins(look)
        PROVE  pluginJob' \in PluginJobs /\ Founded(pluginJob', installation)
    <3> DEFINE job == [at |-> "frozen", theme |-> look, plugins |-> UsablePlugins]
    <3>1. /\ pluginJob' = job /\ look \in UsablePlugins \cup {NoTheme}
          /\ ~Conflicting(UsablePlugins)
      BY <2>1 DEF FreezePlugins, ThemeAmong
    <3>2. job \in PluginJobs /\ job.theme = look /\ job.plugins = UsablePlugins
      BY UsableApart DEF PluginJobs
    <3> HIDE DEF job
    <3>3. Founded(job, installation)
      BY <3>1, <3>2, UsableApart DEF Founded
    <3> QED
      BY <3>1, <3>2, <3>3
  <2>2. CASE UsePlugins
    <3> DEFINE job == [pluginJob EXCEPT !.at = "drafted"]
    <3>1. pluginJob' = job /\ pluginJob.at = "frozen"
      BY <2>2 DEF UsePlugins
    <3>2. job \in PluginJobs /\ job.theme = pluginJob.theme /\ job.plugins = pluginJob.plugins
      BY <1>1 DEF PluginJobs
    <3>3. pluginJob # NoPluginJob
      BY <3>1 DEF NoPluginJob
    <3> HIDE DEF job
    <3>4. Founded(job, installation)
      BY <1>1, <3>2, <3>3 DEF Founded
    <3> QED
      BY <3>1, <3>2, <3>4
  <2>3. CASE SnapshotPlugins \/ JobFails
    <3>1. pluginJob' = NoPluginJob
      BY <2>3 DEF SnapshotPlugins, JobFails
    <3> QED
      BY <3>1 DEF NoPluginJob, PluginJobs, Founded
  <2> QED
    BY <2>1, <2>2, <2>3
<1>4. binder'.at \in {"free", "read", "check", "write"} /\ binder' \in Binders
  BY <1>1, <1>2, BinderShapes DEF PluginShape
<1>5. ProjectPluginsTypeOK'
  BY <1>1, <1>2, <1>3, <1>4 DEF ProjectPluginsTypeOK, PluginShape, Bindings, PluginJobs
<1>6. EnabledBindings' = EnabledBindings
  BY <1>2 DEF EnabledBindings
<1>7. Apart(EnabledBindings)' /\ Agreed(binder, EnabledBindings)'
      /\ Founded(pluginJob, installation)'
  BY <1>1, <1>2, <1>3, <1>6 DEF Apart, Agreed, Founded, Conflicting
<1> QED
  BY <1>4, <1>5, <1>7 DEF ProjectPluginsInv

LEMMA ProjectPluginsStep ==
    ProjectPluginsInv /\ [ProjectPluginsNext]_projectPluginsVars => ProjectPluginsInv'
<1> SUFFICES ASSUME ProjectPluginsInv, [ProjectPluginsNext]_projectPluginsVars
             PROVE  ProjectPluginsInv'
  OBVIOUS
<1>1. CASE ProjectPluginsNext
  BY <1>1, AdministratorGood, EditorGood, PluginJobGood DEF ProjectPluginsNext
<1>2. CASE UNCHANGED projectPluginsVars
  <2>1. /\ installation' = installation /\ installKey' = installKey /\ revocation' = revocation
        /\ binding' = binding /\ binder' = binder /\ pluginJob' = pluginJob
    BY <1>2 DEF projectPluginsVars, bindingVars
  <2>2. PluginShape' /\ EnabledBindings' = EnabledBindings
    BY <2>1, PluginInvariant DEF PluginShape, EnabledBindings
  <2> QED
    BY <2>1, <2>2, AdministratorStep
<1> QED
  BY <1>1, <1>2

\* The plugins that are enabled are apart, and one that is about to be is apart from them
\* (setProjectPluginBinding: the project is locked from the check of the conflicts to the write).
THEOREM ProjectPluginsInvariance == ProjectPluginsSpec => []ProjectPluginsInv
  BY PluginsStart, ProjectPluginsStep, PTL DEF ProjectPluginsSpec

\* The plugins that a generation may use never clash, whatever is revoked and restored, and
\* what a job was frozen with can be resolved until its revision is published
\* (resolveProjectPluginContext, resolvePluginContextForWorkspace).
THEOREM PluginsNeverClash == ProjectPluginsSpec => []UsableNeverClash
<1>1. ProjectPluginsInv => UsableNeverClash
  <2> SUFFICES ASSUME ProjectPluginsInv PROVE UsableNeverClash
    OBVIOUS
  <2>1. Apart(UsablePlugins)
    BY UsableApart
  <2>2. ~Conflicting(UsablePlugins)
    BY <2>1, ApartNeverConflict
  <2>3. \A m \in UsablePlugins, n \in UsablePlugins : PluginOf[m] = PluginOf[n] => m = n
    BY <2>1 DEF Apart
  <2>4. pluginJob # NoPluginJob => Resolvable
    BY DEF ProjectPluginsInv, Founded, Resolvable, ThemeAmong
  <2> QED
    BY <2>2, <2>3, <2>4 DEF UsableNeverClash
<1> QED
  BY <1>1, ProjectPluginsInvariance, PTL

-----------------------------------------------------------------------------
(* The generation cycle: the inductive invariant *)

AuditMarks == {"pending", "succeeded", "failed", "needs_clarification"}
CheckMarks == {"pending", "passed", "failed"}
EarlySteps == {"idle", "claimed", "read"}
Working == {"transform", "compile", "validate", "repair"}
CycleSteps == EarlySteps \cup Working
              \cup {"assembling", "admitting", "planning", "admitted", "waiting", "answered",
                    "discarding", "recovering", "planned", "settling"}
Endings == {"refused", "failed", "question", "drafted"}
CycleResults == {"none", "unsent", "timeout", "threw unsent", "threw"}
                \cup ProviderAnswers \cup Endings
Cycles == [at : CycleSteps, invocation : 0..(MaxClaims + 1), result : CycleResults,
           plan : Plans \cup {"none"}, repairs : 0..MaxRepairs,
           audit : [CycleStages -> AuditMarks], checked : CheckMarks]
Records == [kind : Endings \cup {"none"}, invocation : 0..(MaxClaims + 1),
            audit : [CycleStages -> AuditMarks], checked : CheckMarks]
UsageRows == [UsageTables -> UsageStatuses]

\* A cycle that has its own invocation.
Inside(c) == c.at \notin EarlySteps

\* Both tables have the row; both say that the invocation succeeded.
KeptRow(row) == \A t \in UsageTables : row[t] # "none"
DoneRow(row, rt) == rt = "llm" => \A t \in UsageTables : row[t] = "succeeded"

\* The record of a cycle that ends, apart from the usage.
Explained(kind, audit, checked) ==
    /\ kind = "drafted" => (\A s \in CycleStages : audit[s] = "succeeded") /\ checked = "passed"
    /\ kind = "failed" => checked = "failed" /\ \E s \in CycleStages :
                             {x \in CycleStages : audit[x] = "failed"} = {s}
    /\ kind \notin {"drafted", "failed"} => \A s \in CycleStages : audit[s] # "failed"

\* What a cycle c at its step knows of its row, of whether its request has been sent, and of
\* its own audit.
Knows(c, row, gone, rt) ==
    /\ c.at \in {"assembling", "admitting", "planning", "admitted", "discarding"} => ~gone
    /\ c.at = "answered" /\ c.result = "unsent" => ~gone
    /\ c.at \in {"admitted", "waiting", "answered", "recovering"} => KeptRow(row)
    /\ c.at = "planning" => rt # "llm"
    /\ c.at = "recovering" => c.result = "threw"
    /\ c.at = "discarding" => c.result = "threw unsent"
    /\ c.at = "planned" /\ c.result = "ready" => DoneRow(row, rt)
    /\ c.at \in Working => DoneRow(row, rt)

Audited(c) ==
    /\ c.at # "settling" => c.checked # "passed" /\ \A s \in CycleStages : c.audit[s] # "failed"
    /\ c.at \in Working => c.audit["planning"] = "succeeded"
    /\ c.at \in Working \ {"transform"} => c.audit["transforming"] = "succeeded"
    /\ c.at \in Working \ {"transform", "compile"} => c.audit["compiling"] = "succeeded"
    /\ c.at = "repair" => c.repairs < MaxRepairs

\* A cycle that is to settle the job, and the record once it has.
Concludes(c, row, rt) ==
    c.at = "settling" => /\ c.result \in Endings /\ Explained(c.result, c.audit, c.checked)
                         /\ c.result = "drafted" => DoneRow(row, rt)

CycleShape ==
    /\ route \in {"llm", "deterministic"}
    /\ cycleStatus \in {"queued", "running", "rendering", "needs_clarification", "failed"}
    /\ leaseHolder \in CycleWorkers \cup {NoWorker}
    /\ cycleAttempts \in 0..MaxClaims
    /\ usage \in [Invocations -> UsageRows] /\ sent \subseteq Invocations
    /\ recorded \in Records /\ cycle \in [CycleWorkers -> Cycles]
    /\ cycleFaults \in 0..MaxCycleFaults

\* Invocations that must not be numbered again.
Spent(i) == i \in sent \/ i = recorded.invocation

\* Whoever has the lease is the last to have claimed the job, and no number is given twice.
Numbered ==
    /\ leaseHolder # NoWorker => cycleStatus = "running"
    /\ \A i \in Invocations \cup {0} : Spent(i) => i <= cycleAttempts + 1
    /\ \A w \in CycleWorkers :
          /\ cycle[w].at \notin {"idle", "claimed"} =>
                cycle[w].invocation \in 1..(cycleAttempts + 1)
          /\ cycle[w].at = "read" /\ leaseHolder = w => cycle[w].invocation = cycleAttempts + 1
          /\ Inside(cycle[w]) /\ leaseHolder \notin {w, NoWorker} =>
                cycle[w].invocation <= cycleAttempts
          /\ cycle[w].at \in {"claimed", "read"} /\ leaseHolder = w =>
                \A i \in Invocations \cup {0} : Spent(i) => i <= cycleAttempts
          /\ Inside(cycle[w]) => cycle[w].invocation # recorded.invocation

Distinct ==
    \A v \in CycleWorkers, w \in CycleWorkers :
        v # w /\ Inside(cycle[v]) /\ Inside(cycle[w]) =>
            cycle[v].invocation # cycle[w].invocation

GenerationCycleInv ==
    /\ CycleShape /\ Numbered /\ Distinct
    /\ \A i \in sent : KeptRow(usage[i])
    /\ Explained(recorded.kind, recorded.audit, recorded.checked)
    /\ recorded.kind = "drafted" => recorded.invocation \in Invocations
                                    /\ DoneRow(usage[recorded.invocation], route)
    /\ \A w \in CycleWorkers :
          /\ Audited(cycle[w])
          /\ Inside(cycle[w]) =>
                LET i == cycle[w].invocation
                IN  Knows(cycle[w], usage[i], i \in sent, route)
                    /\ Concludes(cycle[w], usage[i], route)

\* What a worker's cycle says, of usage and sent.
Local(c, u, gone, rt) ==
    /\ Audited(c)
    /\ Inside(c) => /\ Knows(c, u[c.invocation], c.invocation \in gone, rt)
                    /\ Concludes(c, u[c.invocation], rt)

LEMMA CycleInvariant ==
    GenerationCycleInv <=>
        /\ CycleShape /\ Numbered /\ Distinct
        /\ \A i \in sent : KeptRow(usage[i])
        /\ Explained(recorded.kind, recorded.audit, recorded.checked)
        /\ recorded.kind = "drafted" => recorded.invocation \in Invocations
                                        /\ DoneRow(usage[recorded.invocation], route)
        /\ \A w \in CycleWorkers : Local(cycle[w], usage, sent, route)
  BY DEF GenerationCycleInv, Local

LEMMA CycleNext ==
    ASSUME CycleShape', Numbered', Distinct', \A i \in sent' : KeptRow(usage'[i]),
           Explained(recorded'.kind, recorded'.audit, recorded'.checked),
           recorded'.kind = "drafted" => recorded'.invocation \in Invocations
                                         /\ DoneRow(usage'[recorded'.invocation], route'),
           \A w \in CycleWorkers : Local(cycle'[w], usage', sent', route')
    PROVE  GenerationCycleInv'
<1>1. \A w \in CycleWorkers :
          /\ Audited(cycle'[w])
          /\ Inside(cycle'[w]) =>
                /\ Knows(cycle'[w], usage'[cycle'[w].invocation], cycle'[w].invocation \in sent',
                         route')
                /\ Concludes(cycle'[w], usage'[cycle'[w].invocation], route')
  BY DEF Local
<1> QED
  BY <1>1 DEF GenerationCycleInv

\* The numbers of a cycle that is inside.
LEMMA InsideFacts ==
    ASSUME GenerationCycleInv, NEW w \in CycleWorkers, Inside(cycle[w])
    PROVE  /\ cycle[w].invocation \in Invocations /\ cycle[w].invocation # recorded.invocation
           /\ cycle[w].invocation <= cycleAttempts + 1
           /\ leaseHolder \notin {w, NoWorker} => cycle[w].invocation <= cycleAttempts
           /\ \A v \in CycleWorkers :
                 v # w /\ Inside(cycle[v]) => cycle[v].invocation # cycle[w].invocation
<1>1. cycle[w].invocation \in 1..(cycleAttempts + 1)
  BY DEF GenerationCycleInv, Numbered, Inside, EarlySteps
<1>2. cycleAttempts \in 0..MaxClaims
  BY DEF GenerationCycleInv, CycleShape
<1>3. cycle[w].invocation \in Invocations /\ cycle[w].invocation <= cycleAttempts + 1
  BY <1>1, <1>2, GenerationCycleAssumption DEF Invocations
<1>4. /\ cycle[w].invocation # recorded.invocation
      /\ leaseHolder \notin {w, NoWorker} => cycle[w].invocation <= cycleAttempts
  BY DEF GenerationCycleInv, Numbered
<1>5. \A v \in CycleWorkers :
         v # w /\ Inside(cycle[v]) => cycle[v].invocation # cycle[w].invocation
  BY DEF GenerationCycleInv, Distinct
<1> QED
  BY <1>3, <1>4, <1>5

\* A step inside a cycle: it keeps its number, and only its own row changes.
LEMMA InnerStep ==
    ASSUME GenerationCycleInv, NEW w \in CycleWorkers, Inside(cycle[w]),
           NEW c \in Cycles, Inside(c), c.invocation = cycle[w].invocation,
           cycle' = [cycle EXCEPT ![w] = c],
           NEW row \in UsageRows, usage' = [usage EXCEPT ![cycle[w].invocation] = row],
           sent' = sent \/ sent' = sent \cup {cycle[w].invocation},
           route' = route, cycleStatus' = cycleStatus, leaseHolder' = leaseHolder,
           cycleAttempts' = cycleAttempts, recorded' = recorded,
           cycleFaults' \in 0..MaxCycleFaults,
           cycle[w].invocation \in sent' => KeptRow(row),
           Audited(c), Knows(c, row, cycle[w].invocation \in sent', route),
           Concludes(c, row, route)
    PROVE  GenerationCycleInv'
<1> DEFINE i == cycle[w].invocation
<1>1. CycleShape /\ Numbered /\ Distinct
  BY DEF GenerationCycleInv
<1>2. /\ i \in Invocations /\ i # recorded.invocation /\ i <= cycleAttempts + 1
      /\ leaseHolder \notin {w, NoWorker} => i <= cycleAttempts
      /\ \A v \in CycleWorkers : v # w /\ Inside(cycle[v]) => cycle[v].invocation # i
  BY InsideFacts
<1>3. CycleShape'
  BY <1>1, <1>2 DEF CycleShape
<1>4. /\ \A v \in CycleWorkers : v # w => cycle'[v] = cycle[v]
      /\ cycle'[w] = c
  BY <1>1 DEF CycleShape
<1>5. c.at \notin EarlySteps /\ cycle[w].at \notin EarlySteps
  BY DEF Inside
<1>6. Numbered'
  <2>1. leaseHolder' # NoWorker => cycleStatus' = "running"
    BY <1>1 DEF Numbered
  <2>2. \A k \in Invocations \cup {0} : Spent(k)' => Spent(k) \/ k = i
    BY DEF Spent
  <2>3. \A k \in Invocations \cup {0} : Spent(k)' => k <= cycleAttempts + 1
    BY <1>1, <1>2, <2>2 DEF Numbered
  <2>4. ASSUME NEW v \in CycleWorkers
        PROVE  /\ cycle'[v].at \notin {"idle", "claimed"} =>
                     cycle'[v].invocation \in 1..(cycleAttempts + 1)
               /\ cycle'[v].at = "read" /\ leaseHolder = v =>
                     cycle'[v].invocation = cycleAttempts + 1
               /\ Inside(cycle'[v]) /\ leaseHolder \notin {v, NoWorker} =>
                     cycle'[v].invocation <= cycleAttempts
               /\ Inside(cycle'[v]) => cycle'[v].invocation # recorded.invocation
    <3>1. CASE v # w
      BY <1>1, <1>4, <3>1 DEF Numbered
    <3>2. CASE v = w
      BY <1>1, <1>2, <1>4, <1>5, <3>2 DEF Numbered, EarlySteps
    <3> QED
      BY <3>1, <3>2
  <2>5. ASSUME NEW v \in CycleWorkers, cycle'[v].at \in {"claimed", "read"}, leaseHolder = v,
               NEW k \in Invocations \cup {0}, Spent(k)'
        PROVE  k <= cycleAttempts
    <3>1. v # w
      BY <1>4, <1>5, <2>5 DEF EarlySteps
    <3>2. CASE Spent(k)
      BY <1>1, <1>4, <2>5, <3>1, <3>2 DEF Numbered
    <3>3. CASE k = i
      <4>1. leaseHolder \notin {w, NoWorker}
        BY <2>5, <3>1, GenerationCycleAssumption
      <4> QED
        BY <1>2, <3>3, <4>1
    <3> QED
      BY <2>2, <2>5, <3>2, <3>3
  <2> QED
    BY <2>1, <2>3, <2>4, <2>5 DEF Numbered, Inside
<1>7. Distinct'
  <2> SUFFICES ASSUME NEW v \in CycleWorkers, NEW x \in CycleWorkers, v # x,
                      Inside(cycle'[v]), Inside(cycle'[x])
               PROVE  cycle'[v].invocation # cycle'[x].invocation
    BY DEF Distinct, Inside
  <2> QED
    BY <1>1, <1>2, <1>4 DEF Distinct
<1>8. /\ \A k \in Invocations : k # i => usage'[k] = usage[k]
      /\ usage'[i] = row
  BY <1>1, <1>2 DEF CycleShape
<1>9. \A k \in sent' : KeptRow(usage'[k])
  <2> SUFFICES ASSUME NEW k \in sent' PROVE KeptRow(usage'[k])
    OBVIOUS
  <2>1. CASE k = i
    BY <1>8, <2>1
  <2>2. CASE k # i
    BY <1>1, <1>8, <2>2 DEF GenerationCycleInv, CycleShape
  <2> QED
    BY <2>1, <2>2
<1>10. recorded.kind = "drafted" => recorded.invocation \in Invocations
                                    /\ DoneRow(usage'[recorded.invocation], route)
  BY <1>2, <1>8 DEF GenerationCycleInv
<1>11. ASSUME NEW v \in CycleWorkers PROVE Local(cycle'[v], usage', sent', route)
  <2>1. CASE v = w
    BY <1>4, <1>8, <2>1 DEF Local
  <2>2. CASE v # w
    <3>1. Local(cycle[v], usage, sent, route) /\ cycle'[v] = cycle[v]
      BY <1>4, <2>2, CycleInvariant
    <3>2. CASE Inside(cycle[v])
      <4>1. cycle[v].invocation \in Invocations /\ cycle[v].invocation # i
        BY <1>2, <2>2, <3>2, InsideFacts
      <4>2. /\ usage'[cycle[v].invocation] = usage[cycle[v].invocation]
            /\ cycle[v].invocation \in sent' <=> cycle[v].invocation \in sent
        BY <1>8, <4>1
      <4> QED
        BY <3>1, <4>2 DEF Local, Knows
    <3>3. CASE ~Inside(cycle[v])
      BY <3>1, <3>3 DEF Local
    <3> QED
      BY <3>2, <3>3
  <2> QED
    BY <2>1, <2>2
<1>12. Explained(recorded.kind, recorded.audit, recorded.checked)
  BY DEF GenerationCycleInv
<1> HIDE DEF i
<1> QED
  BY <1>3, <1>6, <1>7, <1>9, <1>10, <1>11, <1>12, CycleNext

\* What is known of a cycle that is inside.
LEMMA CycleFacts ==
    ASSUME GenerationCycleInv, NEW w \in CycleWorkers
    PROVE  /\ cycle \in [CycleWorkers -> Cycles] /\ cycle[w] \in Cycles /\ Audited(cycle[w])
           /\ usage \in [Invocations -> UsageRows] /\ cycleFaults \in 0..MaxCycleFaults
           /\ Inside(cycle[w]) =>
                 LET i == cycle[w].invocation
                 IN  /\ i \in Invocations /\ usage[i] \in UsageRows
                     /\ i \in sent => KeptRow(usage[i])
                     /\ Knows(cycle[w], usage[i], i \in sent, route)
                     /\ Concludes(cycle[w], usage[i], route)
<1>1. /\ cycle \in [CycleWorkers -> Cycles] /\ usage \in [Invocations -> UsageRows]
      /\ cycleFaults \in 0..MaxCycleFaults /\ Audited(cycle[w])
      /\ \A i \in sent : KeptRow(usage[i])
  BY DEF GenerationCycleInv, CycleShape
<1>2. Inside(cycle[w]) => cycle[w].invocation \in Invocations
  BY InsideFacts
<1>3. ASSUME Inside(cycle[w])
      PROVE  /\ Knows(cycle[w], usage[cycle[w].invocation], cycle[w].invocation \in sent, route)
             /\ Concludes(cycle[w], usage[cycle[w].invocation], route)
  BY <1>3 DEF GenerationCycleInv
<1> QED
  BY <1>1, <1>2, <1>3

\* A step that leaves the usage alone.
LEMMA QuietStep ==
    ASSUME GenerationCycleInv, NEW w \in CycleWorkers, Inside(cycle[w]),
           NEW c \in Cycles, Inside(c), c.invocation = cycle[w].invocation,
           cycle' = [cycle EXCEPT ![w] = c],
           UNCHANGED <<route, cycleJobVars, usageVars, cycleFaults>>,
           Audited(c),
           Knows(c, usage[cycle[w].invocation], cycle[w].invocation \in sent, route),
           Concludes(c, usage[cycle[w].invocation], route)
    PROVE  GenerationCycleInv'
<1> DEFINE i == cycle[w].invocation
           row == usage[i]
<1>1. /\ i \in Invocations /\ row \in UsageRows /\ (i \in sent => KeptRow(row))
      /\ usage \in [Invocations -> UsageRows] /\ cycleFaults \in 0..MaxCycleFaults
  BY CycleFacts
<1>2. /\ route' = route /\ cycleStatus' = cycleStatus /\ leaseHolder' = leaseHolder
      /\ cycleAttempts' = cycleAttempts /\ recorded' = recorded /\ usage' = usage
      /\ sent' = sent /\ cycleFaults' = cycleFaults
  BY DEF cycleJobVars, usageVars
<1>3. usage' = [usage EXCEPT ![i] = row]
  BY <1>1, <1>2
<1> HIDE DEF row
<1>4. Knows(c, row, i \in sent', route) /\ Concludes(c, row, route)
  BY <1>2 DEF row, Knows
<1> QED
  BY <1>1, <1>2, <1>3, <1>4, InnerStep

\* A step to where nothing more is asked of the audit.
LEMMA TurnAuditFits ==
    ASSUME NEW c, NEW q, Audited(c), q.audit = c.audit, q.checked = c.checked,
           c.at # "settling", q.at \notin Working
    PROVE  Audited(q)
  BY DEF Audited, Working

\* The steps of a worker before its request is answered and while it is recorded.
TurnStages == {"admitting", "planning", "discarding", "answered", "planned"}

LEMMA RequestTurn ==
    ASSUME GenerationCycleInv, NEW w \in CycleWorkers, Inside(cycle[w]),
           cycle[w].at # "settling", NEW at \in TurnStages, NEW result \in CycleResults,
           cycle' = [cycle EXCEPT ![w] = [cycle[w] EXCEPT !.at = at, !.result = result]],
           UNCHANGED <<route, cycleJobVars, usageVars, cycleFaults>>,
           at \in {"admitting", "planning", "discarding"}
              \/ (at = "answered" /\ result = "unsent")
                => cycle[w].invocation \notin sent,
           at = "answered" => KeptRow(usage[cycle[w].invocation]),
           at = "planning" => route # "llm",
           at = "discarding" => result = "threw unsent",
           at = "planned" /\ result = "ready" => DoneRow(usage[cycle[w].invocation], route)
    PROVE  GenerationCycleInv'
<1> DEFINE q == [cycle[w] EXCEPT !.at = at, !.result = result]
<1>1. cycle[w] \in Cycles /\ Audited(cycle[w])
  BY CycleFacts
<1>2. at \in CycleSteps /\ at \notin EarlySteps /\ at \notin Working /\ at # "settling"
  BY DEF TurnStages, CycleSteps, EarlySteps, Working
<1>3. /\ q \in Cycles /\ q.at = at /\ q.result = result
      /\ q.invocation = cycle[w].invocation /\ q.audit = cycle[w].audit
      /\ q.checked = cycle[w].checked
  BY <1>1, <1>2 DEF Cycles
<1> HIDE DEF q
<1>4. Audited(q)
  BY <1>1, <1>2, <1>3, TurnAuditFits
<1>5. Knows(q, usage[cycle[w].invocation], cycle[w].invocation \in sent, route)
  BY <1>2, <1>3 DEF Knows, TurnStages
<1>6. Concludes(q, usage[cycle[w].invocation], route) /\ Inside(q)
  BY <1>2, <1>3 DEF Concludes, Inside
<1>7. cycle' = [cycle EXCEPT ![w] = q]
  BY DEF q
<1> QED
  BY <1>3, <1>4, <1>5, <1>6, <1>7, QuietStep

\* A step that names only where the cycle goes keeps its result.
LEMMA GoesOn ==
    ASSUME GenerationCycleInv, NEW w \in CycleWorkers, NEW at,
           cycle' = [cycle EXCEPT ![w].at = at]
    PROVE  /\ cycle' = [cycle EXCEPT ![w] = [cycle[w] EXCEPT !.at = at, !.result = cycle[w].result]]
           /\ cycle[w].result \in CycleResults
<1>1. cycle \in [CycleWorkers -> Cycles] /\ cycle[w] \in Cycles
  BY CycleFacts
<1>2. /\ [cycle[w] EXCEPT !.at = at] = [cycle[w] EXCEPT !.at = at, !.result = cycle[w].result]
      /\ cycle[w].result \in CycleResults
  BY <1>1 DEF Cycles
<1> QED
  BY <1>1, <1>2

\* The cycle ends with an error at one stage.
LEMMA FailStep ==
    ASSUME GenerationCycleInv, NEW w \in CycleWorkers, Inside(cycle[w]),
           cycle[w].at # "settling", NEW s \in CycleStages, FailAt(w, s),
           UNCHANGED <<route, cycleJobVars, usageVars, cycleFaults>>
    PROVE  GenerationCycleInv'
<1> DEFINE old == cycle[w]
           audit == [old.audit EXCEPT ![s] = "failed"]
           checked == IF old.checked = "pending" THEN "failed" ELSE old.checked
           q == [old EXCEPT !.at = "settling", !.result = "failed", !.audit = audit,
                            !.checked = checked]
<1>1. cycle \in [CycleWorkers -> Cycles] /\ old \in Cycles /\ Audited(old)
  BY CycleFacts
<1>2. old.audit \in [CycleStages -> AuditMarks] /\ old.checked \in CheckMarks
  BY <1>1 DEF Cycles
<1>3. audit \in [CycleStages -> AuditMarks] /\ checked \in CheckMarks
  BY <1>2 DEF AuditMarks, CheckMarks
<1>4. \A x \in CycleStages : old.audit[x] # "failed" /\ old.checked # "passed"
  BY <1>1 DEF Audited
<1>5. {x \in CycleStages : audit[x] = "failed"} = {s} /\ checked = "failed"
  BY <1>2, <1>4 DEF CheckMarks
<1>6. cycle' = [cycle EXCEPT ![w] = q]
  BY <1>1 DEF FailAt, Cycles
<1> HIDE DEF audit, checked
<1>7. /\ q \in Cycles /\ q.at = "settling" /\ q.result = "failed" /\ q.audit = audit
      /\ q.checked = checked /\ q.invocation = old.invocation
  BY <1>1, <1>3 DEF Cycles, CycleSteps, CycleResults, Endings
<1> HIDE DEF q
<1>8. Audited(q) /\ Inside(q)
  BY <1>7 DEF Audited, Inside, EarlySteps, Working
<1>9. Knows(q, usage[old.invocation], old.invocation \in sent, route)
  BY <1>7 DEF Knows, Working
<1>10. Concludes(q, usage[old.invocation], route)
  BY <1>5, <1>7 DEF Concludes, Explained, Endings
<1> HIDE DEF old
<1>11. old = cycle[w]
  BY DEF old
<1> QED
  BY <1>6, <1>7, <1>8, <1>9, <1>10, <1>11, QuietStep

\* The cycle ends with a question.
LEMMA AskStep ==
    ASSUME GenerationCycleInv, NEW w \in CycleWorkers, Inside(cycle[w]),
           cycle[w].at # "settling", NEW s \in CycleStages, NEW mark \in AuditMarks,
           mark # "failed", NEW check \in {cycle[w].checked, "failed"},
           cycle' = [cycle EXCEPT ![w] =
              [cycle[w] EXCEPT !.at = "settling", !.result = "question",
                               !.audit = [cycle[w].audit EXCEPT ![s] = mark],
                               !.checked = check]],
           UNCHANGED <<route, cycleJobVars, usageVars, cycleFaults>>
    PROVE  GenerationCycleInv'
<1> DEFINE old == cycle[w]
           audit == [old.audit EXCEPT ![s] = mark]
           q == [old EXCEPT !.at = "settling", !.result = "question", !.audit = audit,
                            !.checked = check]
<1>1. old \in Cycles /\ Audited(old)
  BY CycleFacts
<1>2. old.audit \in [CycleStages -> AuditMarks] /\ check \in CheckMarks
  BY <1>1 DEF Cycles, CheckMarks
<1>3. audit \in [CycleStages -> AuditMarks]
  BY <1>2
<1>4. \A x \in CycleStages : audit[x] # "failed"
  BY <1>1, <1>2 DEF Audited
<1>5. cycle' = [cycle EXCEPT ![w] = q]
  OBVIOUS
<1> HIDE DEF audit
<1>6. /\ q \in Cycles /\ q.at = "settling" /\ q.result = "question" /\ q.audit = audit
      /\ q.invocation = old.invocation
  BY <1>1, <1>2, <1>3 DEF Cycles, CycleSteps, CycleResults, Endings
<1> HIDE DEF q
<1>7. Audited(q) /\ Inside(q)
  BY <1>6 DEF Audited, Inside, EarlySteps, Working
<1>8. Knows(q, usage[old.invocation], old.invocation \in sent, route)
  BY <1>6 DEF Knows, Working
<1>9. Concludes(q, usage[old.invocation], route)
  BY <1>4, <1>6 DEF Concludes, Explained, Endings
<1> HIDE DEF old
<1>10. old = cycle[w]
  BY DEF old
<1> QED
  BY <1>5, <1>6, <1>7, <1>8, <1>9, <1>10, QuietStep

-----------------------------------------------------------------------------
(* The generation cycle: the request *)

\* Updates of parts of a worker's cycle, as updates of the cycle.
LEMMA TurnForm ==
    ASSUME GenerationCycleInv, NEW w \in CycleWorkers, NEW at, NEW result,
           cycle' = [cycle EXCEPT ![w].at = at, ![w].result = result]
    PROVE  cycle' = [cycle EXCEPT ![w] = [cycle[w] EXCEPT !.at = at, !.result = result]]
<1>1. cycle \in [CycleWorkers -> Cycles] /\ cycle[w] \in Cycles
  BY CycleFacts
<1> QED
  BY <1>1 DEF Cycles

LEMMA AskForm ==
    ASSUME GenerationCycleInv, NEW w \in CycleWorkers, NEW s \in CycleStages, NEW mark,
           AskAt(w, s, mark)
    PROVE  cycle' = [cycle EXCEPT ![w] =
              [cycle[w] EXCEPT !.at = "settling", !.result = "question",
                               !.audit = [cycle[w].audit EXCEPT ![s] = mark],
                               !.checked = cycle[w].checked]]
<1>1. cycle \in [CycleWorkers -> Cycles] /\ cycle[w] \in Cycles
  BY CycleFacts
<1> QED
  BY <1>1 DEF AskAt, Cycles

LEMMA AskAtStep ==
    ASSUME GenerationCycleInv, NEW w \in CycleWorkers, Inside(cycle[w]),
           cycle[w].at # "settling", AskAt(w, "planning", "succeeded"),
           UNCHANGED <<route, cycleJobVars, usageVars, cycleFaults>>
    PROVE  GenerationCycleInv'
<1>1. "planning" \in CycleStages /\ "succeeded" \in AuditMarks
  BY DEF CycleStages, AuditMarks
<1>2. cycle' = [cycle EXCEPT ![w] =
              [cycle[w] EXCEPT !.at = "settling", !.result = "question",
                               !.audit = [cycle[w].audit EXCEPT !["planning"] = "succeeded"],
                               !.checked = cycle[w].checked]]
  BY <1>1, AskForm
<1> QED
  BY <1>1, <1>2, AskStep

LEMMA RefuseInputsGood ==
    ASSUME GenerationCycleInv, NEW w \in CycleWorkers, RefuseInputs(w) PROVE GenerationCycleInv'
<1> DEFINE old == cycle[w]
           q == [old EXCEPT !.at = "settling", !.result = "refused"]
<1>1. old \in Cycles /\ Audited(old) /\ old.at = "assembling" /\ Inside(old)
  BY CycleFacts DEF RefuseInputs, Inside, EarlySteps
<1>2. UNCHANGED <<route, cycleJobVars, usageVars, cycleFaults>>
      /\ cycle' = [cycle EXCEPT ![w] = q]
  BY TurnForm DEF RefuseInputs
<1>3. /\ q \in Cycles /\ q.at = "settling" /\ q.result = "refused" /\ q.audit = old.audit
      /\ q.invocation = old.invocation
  BY <1>1 DEF Cycles, CycleSteps, CycleResults, Endings
<1> HIDE DEF q
<1>4. Audited(q) /\ Inside(q)
  BY <1>3 DEF Audited, Inside, EarlySteps, Working
<1>5. Knows(q, usage[old.invocation], old.invocation \in sent, route)
  BY <1>3 DEF Knows, Working
<1>6. Concludes(q, usage[old.invocation], route)
  BY <1>1, <1>3 DEF Concludes, Explained, Endings, Audited
<1> HIDE DEF old
<1>7. old = cycle[w]
  BY DEF old
<1> QED
  BY <1>1, <1>2, <1>3, <1>4, <1>5, <1>6, <1>7, QuietStep

LEMMA PrepareGood ==
    ASSUME GenerationCycleInv, NEW w \in CycleWorkers, Prepare(w) PROVE GenerationCycleInv'
<1>1. /\ cycle[w].at = "assembling" /\ Inside(cycle[w])
      /\ UNCHANGED <<route, cycleJobVars, usageVars, cycleFaults>>
  BY DEF Prepare, Inside, EarlySteps
<1>2. cycle[w].invocation \notin sent
  BY <1>1, CycleFacts DEF Knows
<1>3. "planning" \in CycleStages
  BY DEF CycleStages
<1>4. CASE Goes(w, "assembling", IF route = "llm" THEN "admitting" ELSE "planning")
  <2> DEFINE at == IF route = "llm" THEN "admitting" ELSE "planning"
  <2>1. /\ cycle' = [cycle EXCEPT ![w] =
                        [cycle[w] EXCEPT !.at = at, !.result = cycle[w].result]]
        /\ cycle[w].result \in CycleResults
    BY <1>4, GoesOn DEF Goes
  <2>2. at \in TurnStages /\ at \in {"admitting", "planning"} /\ (at = "planning" => route # "llm")
    BY DEF TurnStages
  <2> HIDE DEF at
  <2>3. at # "answered" /\ at # "discarding" /\ at # "planned"
    BY <2>2
  <2> QED
    BY <1>1, <1>2, <2>1, <2>2, <2>3, RequestTurn
<1>5. CASE FailAt(w, "planning")
  BY <1>1, <1>3, <1>5, FailStep
<1>6. CASE AskAt(w, "planning", "succeeded")
  BY <1>1, <1>6, AskAtStep
<1> QED
  BY <1>4, <1>5, <1>6 DEF Prepare

LEMMA AnswerOfflineGood ==
    ASSUME GenerationCycleInv, NEW w \in CycleWorkers, AnswerOffline(w) PROVE GenerationCycleInv'
<1>1. /\ cycle[w].at = "planning" /\ Inside(cycle[w])
      /\ UNCHANGED <<route, cycleJobVars, usageVars, cycleFaults>>
  BY DEF AnswerOffline, Inside, EarlySteps
<1>2. PICK a \in DeterministicAnswers :
          cycle' = [cycle EXCEPT ![w].at = "planned", ![w].result = a]
  BY DEF AnswerOffline
<1>3. route # "llm"
  BY <1>1, CycleFacts DEF Knows
<1>4. DoneRow(usage[cycle[w].invocation], route)
  BY <1>3 DEF DoneRow
<1>5. a \in CycleResults
  BY DEF DeterministicAnswers, CycleResults, ProviderAnswers
<1>6. cycle' = [cycle EXCEPT ![w] = [cycle[w] EXCEPT !.at = "planned", !.result = a]]
  BY <1>2, TurnForm
<1>7. "planned" \in TurnStages
  BY DEF TurnStages
<1> QED
  BY <1>1, <1>4, <1>5, <1>6, <1>7, RequestTurn

LEMMA RefuseAdmissionGood ==
    ASSUME GenerationCycleInv, NEW w \in CycleWorkers, RefuseAdmission(w)
    PROVE  GenerationCycleInv'
<1>1. /\ cycle[w].at = "admitting" /\ Inside(cycle[w]) /\ FailAt(w, "planning")
      /\ UNCHANGED <<route, cycleJobVars, usageVars, cycleFaults>>
  BY DEF RefuseAdmission, Inside, EarlySteps
<1>2. "planning" \in CycleStages
  BY DEF CycleStages
<1> QED
  BY <1>1, <1>2, FailStep

\* An answer, or the news that there is none.
LEMMA AnswerGood ==
    ASSUME GenerationCycleInv, NEW w \in CycleWorkers,
           RefuseRebuilt(w) \/ RefuseSending(w) \/ TimeOutUnsent(w) \/ ReceiveAnswer(w)
    PROVE  GenerationCycleInv'
<1>1. /\ cycle[w].at \in {"admitted", "waiting"} /\ Inside(cycle[w])
      /\ UNCHANGED <<route, cycleJobVars, usageVars, cycleFaults>>
  BY DEF RefuseRebuilt, RefuseSending, TimeOutUnsent, ReceiveAnswer, Inside, EarlySteps
<1>2. /\ KeptRow(usage[cycle[w].invocation])
      /\ cycle[w].at = "admitted" => cycle[w].invocation \notin sent
  BY <1>1, CycleFacts DEF Knows
<1>3. {"answered", "discarding"} \subseteq TurnStages
  BY DEF TurnStages
<1>4. CASE RefuseRebuilt(w)
  <2>1. cycle' = [cycle EXCEPT ![w] =
            [cycle[w] EXCEPT !.at = "discarding", !.result = "threw unsent"]]
    BY <1>4, TurnForm DEF RefuseRebuilt
  <2>2. "threw unsent" \in CycleResults /\ cycle[w].invocation \notin sent
    BY <1>2, <1>4 DEF CycleResults, RefuseRebuilt
  <2> QED
    BY <1>1, <1>3, <2>1, <2>2, RequestTurn
<1>5. CASE RefuseSending(w)
  <2>1. cycle' = [cycle EXCEPT ![w] = [cycle[w] EXCEPT !.at = "answered", !.result = "unsent"]]
    BY <1>5, TurnForm DEF RefuseSending
  <2>2. "unsent" \in CycleResults /\ cycle[w].invocation \notin sent
    BY <1>2, <1>5 DEF CycleResults, RefuseSending
  <2> QED
    BY <1>1, <1>2, <1>3, <2>1, <2>2, RequestTurn
<1>6. CASE TimeOutUnsent(w) \/ ReceiveAnswer(w)
  <2>1. PICK a \in ProviderAnswers \cup {"timeout"} :
            cycle' = [cycle EXCEPT ![w].at = "answered", ![w].result = a]
    BY <1>6 DEF TimeOutUnsent, ReceiveAnswer
  <2>2. cycle' = [cycle EXCEPT ![w] = [cycle[w] EXCEPT !.at = "answered", !.result = a]]
    BY <2>1, TurnForm
  <2>3. a \in CycleResults /\ a # "unsent"
    BY DEF CycleResults, ProviderAnswers
  <2> QED
    BY <1>1, <1>2, <1>3, <2>2, <2>3, RequestTurn
<1> QED
  BY <1>4, <1>5, <1>6

\* A step that also writes the rows or sends the request.
LEMMA WriteStep ==
    ASSUME GenerationCycleInv, NEW w \in CycleWorkers, Inside(cycle[w]),
           cycle[w].at # "settling",
           NEW at \in {"admitted", "waiting", "recovering", "planned"},
           NEW result \in CycleResults,
           cycle' = [cycle EXCEPT ![w] = [cycle[w] EXCEPT !.at = at, !.result = result]],
           NEW row \in UsageRows, usage' = [usage EXCEPT ![cycle[w].invocation] = row],
           sent' = sent \/ sent' = sent \cup {cycle[w].invocation},
           route' = route, UNCHANGED cycleJobVars, cycleFaults' \in 0..MaxCycleFaults,
           cycle[w].invocation \in sent' => KeptRow(row),
           at = "admitted" => cycle[w].invocation \notin sent',
           at # "planned" => KeptRow(row),
           at = "recovering" => result = "threw",
           at = "planned" /\ result = "ready" => DoneRow(row, route)
    PROVE  GenerationCycleInv'
<1> DEFINE q == [cycle[w] EXCEPT !.at = at, !.result = result]
<1>1. cycle[w] \in Cycles /\ Audited(cycle[w])
  BY CycleFacts
<1>2. at \in CycleSteps /\ at \notin EarlySteps /\ at \notin Working /\ at # "settling"
  BY DEF CycleSteps, EarlySteps, Working
<1>3. /\ q \in Cycles /\ q.at = at /\ q.result = result
      /\ q.invocation = cycle[w].invocation /\ q.audit = cycle[w].audit
      /\ q.checked = cycle[w].checked
  BY <1>1, <1>2 DEF Cycles
<1> HIDE DEF q
<1>4. Audited(q)
  BY <1>1, <1>2, <1>3, TurnAuditFits
<1>5. Knows(q, row, cycle[w].invocation \in sent', route)
  BY <1>2, <1>3 DEF Knows
<1>6. Concludes(q, row, route) /\ Inside(q)
  BY <1>2, <1>3 DEF Concludes, Inside
<1>7. cycle' = [cycle EXCEPT ![w] = q]
  BY DEF q
<1>8. /\ cycleStatus' = cycleStatus /\ leaseHolder' = leaseHolder
      /\ cycleAttempts' = cycleAttempts /\ recorded' = recorded
  BY DEF cycleJobVars
<1> QED
  BY <1>3, <1>4, <1>5, <1>6, <1>7, <1>8, InnerStep

LEMMA AdmitGood ==
    ASSUME GenerationCycleInv, NEW w \in CycleWorkers, Admit(w) PROVE GenerationCycleInv'
<1> DEFINE row == [t \in UsageTables |-> "admitted"]
<1>1. /\ cycle[w].at = "admitting" /\ Inside(cycle[w])
      /\ usage' = [usage EXCEPT ![cycle[w].invocation] = row]
      /\ route' = route /\ UNCHANGED cycleJobVars /\ sent' = sent /\ cycleFaults' = cycleFaults
  BY DEF Admit, Goes, Inside, EarlySteps
<1>2. cycle[w].invocation \notin sent
  BY <1>1, CycleFacts DEF Knows
<1>3. row \in UsageRows /\ KeptRow(row)
  BY DEF UsageRows, UsageStatuses, KeptRow
<1>4. /\ cycle' = [cycle EXCEPT ![w] =
                      [cycle[w] EXCEPT !.at = "admitted", !.result = cycle[w].result]]
      /\ cycle[w].result \in CycleResults
  BY GoesOn DEF Admit, Goes
<1>5. cycleFaults' \in 0..MaxCycleFaults
  BY <1>1, CycleFacts
<1> HIDE DEF row
<1> QED
  BY <1>1, <1>2, <1>3, <1>4, <1>5, WriteStep

LEMMA SendRequestGood ==
    ASSUME GenerationCycleInv, NEW w \in CycleWorkers, SendRequest(w) PROVE GenerationCycleInv'
<1> DEFINE row == usage[cycle[w].invocation]
<1>1. /\ cycle[w].at = "admitted" /\ Inside(cycle[w]) /\ usage' = usage
      /\ sent' = sent \cup {cycle[w].invocation}
      /\ route' = route /\ UNCHANGED cycleJobVars /\ cycleFaults' = cycleFaults
  BY DEF SendRequest, Goes, Inside, EarlySteps
<1>2. row \in UsageRows /\ KeptRow(row) /\ usage \in [Invocations -> UsageRows]
      /\ cycleFaults' \in 0..MaxCycleFaults
  BY <1>1, CycleFacts DEF Knows
<1>3. /\ cycle' = [cycle EXCEPT ![w] =
                      [cycle[w] EXCEPT !.at = "waiting", !.result = cycle[w].result]]
      /\ cycle[w].result \in CycleResults
  BY GoesOn DEF SendRequest, Goes
<1>4. usage' = [usage EXCEPT ![cycle[w].invocation] = row]
  BY <1>1, <1>2
<1> HIDE DEF row
<1> QED
  BY <1>1, <1>2, <1>3, <1>4, WriteStep

-----------------------------------------------------------------------------
(* The generation cycle: the usage rows *)

\* UsageRows that are there stay, whichever of them are written; if both are there and are
\* written, both say so.
LEMMA CompletedFits ==
    ASSUME NEW row \in UsageRows, NEW ts \in SUBSET UsageTables, NEW s \in {"succeeded", "failed"}
    PROVE  /\ Completed(row, ts, s) \in UsageRows
           /\ KeptRow(row) => KeptRow(Completed(row, ts, s))
           /\ KeptRow(row) /\ ts = UsageTables =>
                 \A t \in UsageTables : Completed(row, ts, s)[t] = s
<1>1. \A t \in UsageTables : Completed(row, ts, s)[t] =
          IF t \in ts /\ row[t] # "none" THEN s ELSE row[t]
  BY DEF Completed
<1>2. Completed(row, ts, s) \in UsageRows
  BY DEF Completed, UsageRows, UsageStatuses
<1> QED
  BY <1>1, <1>2 DEF KeptRow

LEMMA CompleteUsageGood ==
    ASSUME GenerationCycleInv, NEW w \in CycleWorkers, CompleteUsage(w) PROVE GenerationCycleInv'
<1> DEFINE old == usage[cycle[w].invocation]
           status == UsageStatus(cycle[w].result)
           row == Completed(old, UsageTables, status)
<1>1. /\ cycle[w].at = "answered" /\ Inside(cycle[w])
      /\ route' = route /\ UNCHANGED cycleJobVars /\ sent' = sent /\ cycleFaults' = cycleFaults
  BY DEF CompleteUsage, Inside, EarlySteps
<1>2. /\ old \in UsageRows /\ KeptRow(old) /\ usage \in [Invocations -> UsageRows]
      /\ cycleFaults' \in 0..MaxCycleFaults
  BY <1>1, CycleFacts DEF Knows
<1>3. usage' = [usage EXCEPT ![cycle[w].invocation] = row]
  BY <1>2 DEF CompleteUsage
<1>4. status \in {"succeeded", "failed"} /\ (cycle[w].result = "ready" => status = "succeeded")
  BY DEF UsageStatus
<1> HIDE DEF status, old
<1>5. row \in UsageRows /\ KeptRow(row) /\ \A t \in UsageTables : row[t] = status
  BY <1>2, <1>4, CompletedFits
<1> HIDE DEF row
<1>6. cycle[w].result = "ready" => DoneRow(row, route)
  BY <1>4, <1>5 DEF DoneRow
<1>7. /\ cycle' = [cycle EXCEPT ![w] =
                      [cycle[w] EXCEPT !.at = "planned", !.result = cycle[w].result]]
      /\ cycle[w].result \in CycleResults
  BY GoesOn DEF CompleteUsage
<1> QED
  BY <1>1, <1>2, <1>3, <1>5, <1>6, <1>7, WriteStep

LEMMA DiscardUsageGood ==
    ASSUME GenerationCycleInv, NEW w \in CycleWorkers, DiscardUsage(w) PROVE GenerationCycleInv'
<1>1. /\ cycle[w].at \in {"answered", "discarding"} /\ Inside(cycle[w])
      /\ cycle[w].at = "answered" => cycle[w].result = "unsent"
      /\ route' = route /\ UNCHANGED cycleJobVars /\ sent' = sent /\ cycleFaults' = cycleFaults
      /\ usage' = [usage EXCEPT ![cycle[w].invocation] = NoUsage]
  BY DEF DiscardUsage, Inside, EarlySteps, NeverSent
<1>2. /\ cycle[w].invocation \notin sent /\ cycleFaults' \in 0..MaxCycleFaults
      /\ cycle[w].result \in {"unsent", "threw unsent"}
  BY <1>1, CycleFacts DEF Knows
<1>3. NoUsage \in UsageRows
  BY DEF NoUsage, UsageRows, UsageStatuses
<1>4. /\ cycle' = [cycle EXCEPT ![w] =
                      [cycle[w] EXCEPT !.at = "planned", !.result = cycle[w].result]]
      /\ cycle[w].result \in CycleResults
  BY GoesOn DEF DiscardUsage
<1> QED
  BY <1>1, <1>2, <1>3, <1>4, WriteStep

LEMMA UsageFailsGood ==
    ASSUME GenerationCycleInv, NEW w \in CycleWorkers, UsageFails(w) PROVE GenerationCycleInv'
<1> DEFINE old == usage[cycle[w].invocation]
           status == UsageStatus(cycle[w].result)
<1>1. /\ cycle[w].at = "answered" /\ Inside(cycle[w]) /\ cycleFaults < MaxCycleFaults
      /\ route' = route /\ UNCHANGED cycleJobVars /\ sent' = sent
      /\ cycleFaults' = cycleFaults + 1
  BY DEF UsageFails, Inside, EarlySteps
<1>2. /\ old \in UsageRows /\ KeptRow(old) /\ usage \in [Invocations -> UsageRows]
      /\ cycleFaults \in 0..MaxCycleFaults
  BY <1>1, CycleFacts DEF Knows
<1>3. cycleFaults' \in 0..MaxCycleFaults
  BY <1>1, <1>2, GenerationCycleAssumption
<1>4. PICK ts \in SUBSET UsageTables :
          usage' = [usage EXCEPT ![cycle[w].invocation] = Completed(old, ts, status)]
  BY <1>2 DEF UsageFails
<1>5. status \in {"succeeded", "failed"}
  BY DEF UsageStatus
<1> HIDE DEF status, old
<1>6. Completed(old, ts, status) \in UsageRows /\ KeptRow(Completed(old, ts, status))
  BY <1>2, <1>5, CompletedFits
<1>7. cycle' = [cycle EXCEPT ![w] = [cycle[w] EXCEPT !.at = "recovering", !.result = "threw"]]
  BY TurnForm DEF UsageFails
<1>8. "threw" \in CycleResults
  BY DEF CycleResults
<1> QED
  BY <1>1, <1>3, <1>4, <1>6, <1>7, <1>8, WriteStep

LEMMA RecordFailedGood ==
    ASSUME GenerationCycleInv, NEW w \in CycleWorkers, RecordFailed(w) PROVE GenerationCycleInv'
<1> DEFINE old == usage[cycle[w].invocation]
           row == Completed(old, UsageTables, "failed")
<1>1. /\ cycle[w].at = "recovering" /\ Inside(cycle[w])
      /\ route' = route /\ UNCHANGED cycleJobVars /\ sent' = sent /\ cycleFaults' = cycleFaults
  BY DEF RecordFailed, Goes, Inside, EarlySteps
<1>2. /\ old \in UsageRows /\ KeptRow(old) /\ usage \in [Invocations -> UsageRows]
      /\ cycleFaults' \in 0..MaxCycleFaults /\ cycle[w].result = "threw"
  BY <1>1, CycleFacts DEF Knows
<1>3. usage' = [usage EXCEPT ![cycle[w].invocation] = row]
  BY <1>2 DEF RecordFailed
<1> HIDE DEF old
<1>4. row \in UsageRows /\ KeptRow(row)
  BY <1>2, CompletedFits
<1> HIDE DEF row
<1>5. /\ cycle' = [cycle EXCEPT ![w] =
                      [cycle[w] EXCEPT !.at = "planned", !.result = cycle[w].result]]
      /\ cycle[w].result \in CycleResults
  BY GoesOn DEF RecordFailed, Goes
<1> QED
  BY <1>1, <1>2, <1>3, <1>4, <1>5, WriteStep

LEMMA RecordFailsGood ==
    ASSUME GenerationCycleInv, NEW w \in CycleWorkers, RecordFails(w) PROVE GenerationCycleInv'
<1> DEFINE old == usage[cycle[w].invocation]
<1>1. /\ cycle[w].at \in {"recovering", "discarding"} /\ Inside(cycle[w])
      /\ cycleFaults < MaxCycleFaults /\ cycleFaults' = cycleFaults + 1
      /\ route' = route /\ UNCHANGED cycleJobVars /\ sent' = sent
  BY DEF RecordFails, Inside, EarlySteps
<1>2. /\ old \in UsageRows /\ (cycle[w].invocation \in sent => KeptRow(old))
      /\ usage \in [Invocations -> UsageRows] /\ cycleFaults \in 0..MaxCycleFaults
  BY <1>1, CycleFacts DEF Knows
<1>3. cycleFaults' \in 0..MaxCycleFaults
  BY <1>1, <1>2, GenerationCycleAssumption
<1>4. PICK ts \in SUBSET UsageTables :
          usage' = [usage EXCEPT ![cycle[w].invocation] = Completed(old, ts, "failed")]
  BY <1>2 DEF RecordFails
<1> HIDE DEF old
<1>5. /\ Completed(old, ts, "failed") \in UsageRows
      /\ cycle[w].invocation \in sent' => KeptRow(Completed(old, ts, "failed"))
  BY <1>1, <1>2, CompletedFits
<1>6. cycle' = [cycle EXCEPT ![w] = [cycle[w] EXCEPT !.at = "planned", !.result = "threw"]]
  BY TurnForm DEF RecordFails
<1>7. "threw" \in CycleResults
  BY DEF CycleResults
<1> QED
  BY <1>1, <1>3, <1>4, <1>5, <1>6, <1>7, WriteStep

-----------------------------------------------------------------------------
(* The generation cycle: the graph *)

LEMMA WorkStep ==
    ASSUME GenerationCycleInv, NEW w \in CycleWorkers, Inside(cycle[w]),
           NEW q \in Cycles, q.at \in Working, q.invocation = cycle[w].invocation,
           cycle' = [cycle EXCEPT ![w] = q], Audited(q),
           DoneRow(usage[cycle[w].invocation], route),
           UNCHANGED <<route, cycleJobVars, usageVars, cycleFaults>>
    PROVE  GenerationCycleInv'
<1>1. Inside(q)
  BY DEF Inside, Working, EarlySteps
<1>2. Knows(q, usage[cycle[w].invocation], cycle[w].invocation \in sent, route)
  BY DEF Knows, Working
<1>3. Concludes(q, usage[cycle[w].invocation], route)
  BY DEF Concludes, Working
<1> QED
  BY <1>1, <1>2, <1>3, QuietStep

\* One stage more of the audit is passed.
Passed(c, at, plan, s, check) ==
    [c EXCEPT !.at = at, !.plan = plan, !.audit = [c.audit EXCEPT ![s] = "succeeded"],
              !.checked = check]

LEMMA Passing ==
    ASSUME NEW c \in Cycles, Audited(c), c.at # "settling", NEW s \in CycleStages,
           NEW at \in CycleSteps, NEW check \in {c.checked, "failed"},
           NEW plan \in Plans \cup {"none"}, NEW q, q = Passed(c, at, plan, s, check)
    PROVE  /\ q \in Cycles /\ q.at = at /\ q.invocation = c.invocation
           /\ q.repairs = c.repairs /\ q.checked # "passed" /\ q.plan = plan
           /\ \A x \in CycleStages : q.audit[x] # "failed"
           /\ q.audit[s] = "succeeded" /\ \A x \in CycleStages \ {s} : q.audit[x] = c.audit[x]
<1> DEFINE audit == [c.audit EXCEPT ![s] = "succeeded"]
<1>1. c.audit \in [CycleStages -> AuditMarks] /\ c.checked \in CheckMarks
  BY DEF Cycles
<1>2. audit \in [CycleStages -> AuditMarks] /\ check \in CheckMarks
  BY <1>1 DEF AuditMarks, CheckMarks
<1>3. /\ audit[s] = "succeeded" /\ (\A x \in CycleStages \ {s} : audit[x] = c.audit[x])
      /\ \A x \in CycleStages : audit[x] # "failed"
  BY <1>1 DEF Audited
<1>4. check # "passed"
  BY DEF Audited
<1> HIDE DEF audit
<1>5. q = [c EXCEPT !.at = at, !.plan = plan, !.audit = audit, !.checked = check]
  BY DEF audit, Passed
<1>6. /\ q \in Cycles /\ q.at = at /\ q.invocation = c.invocation /\ q.repairs = c.repairs
      /\ q.checked = check /\ q.audit = audit /\ q.plan = plan
  BY <1>2, <1>5 DEF Cycles
<1> QED
  BY <1>3, <1>4, <1>6

LEMMA TakeAnswerGood ==
    ASSUME GenerationCycleInv, NEW w \in CycleWorkers, TakeAnswer(w) PROVE GenerationCycleInv'
<1>1. /\ cycle[w].at = "planned" /\ Inside(cycle[w])
      /\ UNCHANGED <<route, cycleJobVars, usageVars, cycleFaults>>
  BY DEF TakeAnswer, Inside, EarlySteps
<1>2. cycle[w] \in Cycles /\ Audited(cycle[w]) /\ cycle \in [CycleWorkers -> Cycles]
  BY CycleFacts
<1>3. "planning" \in CycleStages /\ "transform" \in CycleSteps /\ "transform" \in Working
  BY DEF CycleStages, CycleSteps, Working
<1>4. CASE cycle[w].result = "ready"
  <2>1. PICK p \in Plans :
            cycle' = [cycle EXCEPT ![w].at = "transform", ![w].plan = p,
                                   ![w].audit["planning"] = "succeeded"]
    BY <1>4 DEF TakeAnswer
  <2> DEFINE q == Passed(cycle[w], "transform", p, "planning", cycle[w].checked)
  <2>2. cycle' = [cycle EXCEPT ![w] = q]
    BY <1>2, <2>1 DEF Cycles, Passed
  <2>3. /\ q \in Cycles /\ q.at = "transform" /\ q.invocation = cycle[w].invocation
        /\ q.checked # "passed" /\ (\A x \in CycleStages : q.audit[x] # "failed")
        /\ q.audit["planning"] = "succeeded"
    BY <1>1, <1>2, <1>3, Passing
  <2> HIDE DEF q
  <2>4. Audited(q)
    BY <2>3 DEF Audited, Working
  <2>5. DoneRow(usage[cycle[w].invocation], route)
    BY <1>1, <1>4, CycleFacts DEF Knows
  <2> QED
    BY <1>1, <1>3, <2>2, <2>3, <2>4, <2>5, WorkStep
<1>5. CASE cycle[w].result = "question"
  <2>1. AskAt(w, "planning", "succeeded")
    BY <1>5 DEF TakeAnswer
  <2> QED
    BY <1>1, <2>1, AskAtStep
<1>6. CASE cycle[w].result \notin {"ready", "question"}
  <2>1. FailAt(w, "planning")
    BY <1>6 DEF TakeAnswer
  <2> QED
    BY <1>1, <1>3, <2>1, FailStep
<1> QED
  BY <1>4, <1>5, <1>6

\* A stage that is passed at work.
LEMMA PassStep ==
    ASSUME GenerationCycleInv, NEW w \in CycleWorkers, cycle[w].at \in Working,
           NEW s \in CycleStages, NEW at \in Working, NEW check \in {cycle[w].checked, "failed"},
           cycle' = [cycle EXCEPT ![w] = Passed(cycle[w], at, cycle[w].plan, s, check)],
           at # "transform" => s = "transforming" \/ cycle[w].at # "transform",
           at \in {"validate", "repair"} =>
              s = "compiling" \/ cycle[w].at \in {"validate", "repair"},
           at = "repair" => cycle[w].repairs < MaxRepairs,
           UNCHANGED <<route, cycleJobVars, usageVars, cycleFaults>>
    PROVE  GenerationCycleInv'
<1> DEFINE old == cycle[w]
           q == Passed(old, at, old.plan, s, check)
<1>1. old \in Cycles /\ Audited(old) /\ Inside(old) /\ old.at # "settling"
  BY CycleFacts DEF Inside, Working, EarlySteps
<1>2. DoneRow(usage[old.invocation], route)
  BY <1>1, CycleFacts DEF Knows
<1>3. old.plan \in Plans \cup {"none"} /\ at \in CycleSteps
  BY <1>1 DEF Cycles, CycleSteps
<1>4. /\ q \in Cycles /\ q.at = at /\ q.invocation = old.invocation
      /\ q.repairs = old.repairs /\ q.checked # "passed"
      /\ \A x \in CycleStages : q.audit[x] # "failed"
      /\ q.audit[s] = "succeeded" /\ \A x \in CycleStages \ {s} : q.audit[x] = old.audit[x]
  BY <1>1, <1>3, Passing
<1> HIDE DEF q
<1>5. q.audit["planning"] = "succeeded"
  BY <1>1, <1>4 DEF Audited, CycleStages
<1>6. at # "transform" => q.audit["transforming"] = "succeeded"
  BY <1>1, <1>4 DEF Audited, CycleStages
<1>7. at \in {"validate", "repair"} => q.audit["compiling"] = "succeeded"
  BY <1>1, <1>4 DEF Audited, CycleStages, Working
<1>8. Audited(q)
  BY <1>4, <1>5, <1>6, <1>7 DEF Audited, Working
<1>9. cycle' = [cycle EXCEPT ![w] = q]
  BY DEF q
<1> QED
  BY <1>1, <1>2, <1>4, <1>8, <1>9, WorkStep

\* A worker at work.
LEMMA WorkingFacts ==
    ASSUME GenerationCycleInv, NEW w \in CycleWorkers, cycle[w].at \in Working
    PROVE  /\ cycle \in [CycleWorkers -> Cycles] /\ cycle[w] \in Cycles /\ Inside(cycle[w])
           /\ cycle[w].at # "settling" /\ cycle[w].at \in CycleSteps
           /\ DoneRow(usage[cycle[w].invocation], route) /\ Audited(cycle[w])
<1>1. Inside(cycle[w]) /\ cycle[w].at # "settling" /\ cycle[w].at \in CycleSteps
  BY DEF Inside, Working, EarlySteps, CycleSteps
<1> QED
  BY <1>1, CycleFacts DEF Knows

LEMMA TransformGood ==
    ASSUME GenerationCycleInv, NEW w \in CycleWorkers, Transform(w) PROVE GenerationCycleInv'
<1>1. /\ cycle[w].at = "transform" /\ cycle[w].at \in Working
      /\ UNCHANGED <<route, cycleJobVars, usageVars, cycleFaults>>
  BY DEF Transform, Working
<1>2. cycle \in [CycleWorkers -> Cycles] /\ cycle[w] \in Cycles /\ Inside(cycle[w])
  BY <1>1, WorkingFacts
<1>3. "transforming" \in CycleStages /\ "compile" \in Working
  BY DEF CycleStages, Working
<1>4. CASE cycle[w].plan = "breaks transform"
  <2>1. FailAt(w, "transforming")
    BY <1>4 DEF Transform
  <2> QED
    BY <1>1, <1>2, <1>3, <2>1, FailStep
<1>5. CASE cycle[w].plan # "breaks transform"
  <2>1. cycle' = [cycle EXCEPT ![w].at = "compile", ![w].audit["transforming"] = "succeeded"]
    BY <1>5 DEF Transform
  <2>2. cycle' = [cycle EXCEPT ![w] = Passed(cycle[w], "compile", cycle[w].plan, "transforming",
                                             cycle[w].checked)]
    BY <1>2, <2>1 DEF Cycles, Passed
  <2> QED
    BY <1>1, <1>3, <2>2, PassStep
<1> QED
  BY <1>4, <1>5

LEMMA CompileGood ==
    ASSUME GenerationCycleInv, NEW w \in CycleWorkers, Compile(w) PROVE GenerationCycleInv'
<1>1. /\ cycle[w].at = "compile" /\ cycle[w].at \in Working
      /\ UNCHANGED <<route, cycleJobVars, usageVars, cycleFaults>>
  BY DEF Compile, Working
<1>2. cycle \in [CycleWorkers -> Cycles] /\ cycle[w] \in Cycles /\ Inside(cycle[w])
  BY <1>1, WorkingFacts
<1>3. "compiling" \in CycleStages /\ "validate" \in Working
      /\ "needs_clarification" \in AuditMarks
  BY DEF CycleStages, Working, AuditMarks
<1>4. CASE cycle[w].plan = "misses x"
  <2>1. cycle' = [cycle EXCEPT ![w].at = "settling", ![w].result = "question",
                               ![w].audit["compiling"] = "needs_clarification",
                               ![w].checked = "failed"]
    BY <1>4 DEF Compile
  <2>2. cycle' = [cycle EXCEPT ![w] =
              [cycle[w] EXCEPT !.at = "settling", !.result = "question",
                 !.audit = [cycle[w].audit EXCEPT !["compiling"] = "needs_clarification"],
                 !.checked = "failed"]]
    BY <1>2, <2>1 DEF Cycles
  <2> QED
    BY <1>1, <1>2, <1>3, <2>2, AskStep
<1>5. CASE cycle[w].plan = "breaks compile"
  <2>1. FailAt(w, "compiling")
    BY <1>5 DEF Compile
  <2> QED
    BY <1>1, <1>2, <1>3, <2>1, FailStep
<1>6. CASE cycle[w].plan \notin {"misses x", "breaks compile"}
  <2>1. cycle' = [cycle EXCEPT ![w].at = "validate", ![w].audit["compiling"] = "succeeded"]
    BY <1>6 DEF Compile
  <2>2. cycle' = [cycle EXCEPT ![w] = Passed(cycle[w], "validate", cycle[w].plan, "compiling",
                                             cycle[w].checked)]
    BY <1>2, <2>1 DEF Cycles, Passed
  <2> QED
    BY <1>1, <1>3, <2>2, PassStep
<1> QED
  BY <1>4, <1>5, <1>6

LEMMA ValidateGood ==
    ASSUME GenerationCycleInv, NEW w \in CycleWorkers, Validate(w) PROVE GenerationCycleInv'
<1> DEFINE old == cycle[w]
<1>1. /\ old.at = "validate" /\ old.at \in Working
      /\ UNCHANGED <<route, cycleJobVars, usageVars, cycleFaults>>
  BY DEF Validate, Working
<1>2. /\ cycle \in [CycleWorkers -> Cycles] /\ old \in Cycles /\ Inside(old)
      /\ Audited(old) /\ old.at # "settling" /\ DoneRow(usage[old.invocation], route)
  BY <1>1, WorkingFacts
<1>3. "validating" \in CycleStages /\ "repair" \in Working /\ "settling" \in CycleSteps
  BY DEF CycleStages, Working, CycleSteps
<1>4. CASE old.plan = "sound"
  <2> DEFINE audit == [old.audit EXCEPT !["validating"] = "succeeded"]
             q == [old EXCEPT !.at = "settling", !.result = "drafted", !.audit = audit,
                              !.checked = "passed"]
  <2>0. cycle' = [cycle EXCEPT ![w].at = "settling", ![w].result = "drafted",
                               ![w].audit["validating"] = "succeeded", ![w].checked = "passed"]
    BY <1>4 DEF Validate
  <2>1. cycle' = [cycle EXCEPT ![w] = q]
    BY <1>2, <2>0 DEF Cycles
  <2>2. old.audit \in [CycleStages -> AuditMarks]
    BY <1>2 DEF Cycles
  <2>3. audit \in [CycleStages -> AuditMarks] /\ \A s \in CycleStages : audit[s] = "succeeded"
    BY <1>1, <1>2, <2>2 DEF Audited, Working, CycleStages, AuditMarks
  <2> HIDE DEF audit
  <2>4. /\ q \in Cycles /\ q.at = "settling" /\ q.result = "drafted" /\ q.audit = audit
        /\ q.checked = "passed" /\ q.invocation = old.invocation
    BY <1>2, <1>3, <2>3 DEF Cycles, CycleResults, Endings, CheckMarks
  <2> HIDE DEF q
  <2>5. Audited(q) /\ Inside(q)
    BY <2>4 DEF Audited, Inside, EarlySteps, Working
  <2>6. Knows(q, usage[old.invocation], old.invocation \in sent, route)
    BY <2>4 DEF Knows, Working
  <2>7. Concludes(q, usage[old.invocation], route)
    BY <1>2, <2>3, <2>4 DEF Concludes, Explained, Endings
  <2> QED
    BY <1>1, <1>2, <2>1, <2>4, <2>5, <2>6, <2>7, QuietStep
<1>5. CASE old.plan # "sound" /\ (old.plan = "too many points" \/ old.repairs >= MaxRepairs)
  <2> DEFINE audit == [old.audit EXCEPT !["validating"] = "failed"]
             q == [old EXCEPT !.at = "settling", !.result = "failed", !.audit = audit,
                              !.checked = "failed"]
  <2>0. cycle' = [cycle EXCEPT ![w].at = "settling", ![w].result = "failed",
                               ![w].audit["validating"] = "failed", ![w].checked = "failed"]
    BY <1>5 DEF Validate
  <2>1. cycle' = [cycle EXCEPT ![w] = q]
    BY <1>2, <2>0 DEF Cycles
  <2>2. old.audit \in [CycleStages -> AuditMarks]
    BY <1>2 DEF Cycles
  <2>3. /\ audit \in [CycleStages -> AuditMarks]
        /\ {x \in CycleStages : audit[x] = "failed"} = {"validating"}
    BY <1>1, <1>2, <1>3, <2>2 DEF Audited, AuditMarks
  <2> HIDE DEF audit
  <2>4. /\ q \in Cycles /\ q.at = "settling" /\ q.result = "failed" /\ q.audit = audit
        /\ q.checked = "failed" /\ q.invocation = old.invocation
    BY <1>2, <1>3, <2>3 DEF Cycles, CycleResults, Endings, CheckMarks
  <2> HIDE DEF q
  <2>5. Audited(q) /\ Inside(q)
    BY <2>4 DEF Audited, Inside, EarlySteps, Working
  <2>6. Knows(q, usage[old.invocation], old.invocation \in sent, route)
    BY <2>4 DEF Knows, Working
  <2>7. Concludes(q, usage[old.invocation], route)
    BY <1>3, <2>3, <2>4 DEF Concludes, Explained, Endings
  <2> QED
    BY <1>1, <1>2, <2>1, <2>4, <2>5, <2>6, <2>7, QuietStep
<1>6. CASE old.plan \notin {"sound", "too many points"} /\ ~(old.repairs >= MaxRepairs)
  <2>1. cycle' = [cycle EXCEPT ![w].at = "repair", ![w].audit["validating"] = "succeeded",
                               ![w].checked = "failed"]
    BY <1>6 DEF Validate
  <2>2. cycle' = [cycle EXCEPT ![w] = Passed(old, "repair", old.plan, "validating", "failed")]
    BY <1>2, <2>1 DEF Cycles, Passed
  <2>3. old.repairs < MaxRepairs
    <3>1. old.repairs \in 0..2 /\ ~(old.repairs >= 2)
      BY <1>2, <1>6 DEF Cycles, MaxRepairs
    <3>2. \A n \in 0..2 : ~(n >= 2) => n < 2
      OBVIOUS
    <3> QED
      BY <3>1, <3>2 DEF MaxRepairs
  <2> QED
    BY <1>1, <1>3, <2>2, <2>3, PassStep
<1> QED
  BY <1>4, <1>5, <1>6

LEMMA RepairGood ==
    ASSUME GenerationCycleInv, NEW w \in CycleWorkers, Repair(w) PROVE GenerationCycleInv'
<1> DEFINE old == cycle[w]
           n == old.repairs + 1
           q == [old EXCEPT !.at = "transform", !.repairs = n]
<1>1. /\ old.at = "repair" /\ old.at \in Working
      /\ UNCHANGED <<route, cycleJobVars, usageVars, cycleFaults>>
  BY DEF Repair, Working
<1>2. /\ cycle \in [CycleWorkers -> Cycles] /\ old \in Cycles /\ Inside(old)
      /\ Audited(old) /\ DoneRow(usage[old.invocation], route)
  BY <1>1, WorkingFacts
<1>3. cycle' = [cycle EXCEPT ![w] = q]
  BY <1>2 DEF Repair, Cycles
<1>4. n \in 0..MaxRepairs
  BY <1>1, <1>2 DEF Audited, Cycles, MaxRepairs
<1>5. "transform" \in CycleSteps /\ "transform" \in Working
  BY DEF CycleSteps, Working
<1> HIDE DEF n
<1>6. /\ q \in Cycles /\ q.at = "transform" /\ q.audit = old.audit
      /\ q.checked = old.checked /\ q.invocation = old.invocation
  BY <1>2, <1>4, <1>5 DEF Cycles
<1> HIDE DEF q
<1>7. Audited(q)
  BY <1>1, <1>2, <1>6 DEF Audited
<1> QED
  BY <1>1, <1>2, <1>3, <1>5, <1>6, <1>7, WorkStep

-----------------------------------------------------------------------------
(* The generation cycle: the lease *)

\* A worker comes to be outside, and only the lease and the attempts change besides.
LEMMA OutsideStep ==
    ASSUME GenerationCycleInv, NEW w \in CycleWorkers, NEW c \in Cycles, ~Inside(c), Audited(c),
           cycle' = [cycle EXCEPT ![w] = c],
           UNCHANGED <<route, usageVars, recorded>>, cycleFaults' \in 0..MaxCycleFaults,
           cycleStatus' \in {cycleStatus, "running"}, leaseHolder' \in {leaseHolder, w},
           cycleAttempts' \in 0..MaxClaims, Numbered'
    PROVE  GenerationCycleInv'
<1>1. CycleShape /\ Distinct /\ usage' = usage /\ sent' = sent
  BY DEF GenerationCycleInv, usageVars
<1>2. CycleShape'
  BY <1>1 DEF CycleShape
<1>3. /\ \A v \in CycleWorkers : v # w => cycle'[v] = cycle[v]
      /\ cycle'[w] = c
  BY <1>1 DEF CycleShape
<1>4. Distinct'
  <2> SUFFICES ASSUME NEW v \in CycleWorkers, NEW x \in CycleWorkers, v # x,
                      Inside(cycle'[v]), Inside(cycle'[x])
               PROVE  cycle'[v].invocation # cycle'[x].invocation
    BY DEF Distinct, Inside
  <2>1. v # w /\ x # w
    BY <1>3
  <2> QED
    BY <1>1, <1>3, <2>1 DEF Distinct
<1>5. ASSUME NEW v \in CycleWorkers PROVE Local(cycle'[v], usage', sent', route')
  <2>1. CASE v = w
    BY <1>3, <2>1 DEF Local
  <2>2. CASE v # w
    BY <1>1, <1>3, <2>2, CycleInvariant
  <2> QED
    BY <2>1, <2>2
<1>6. /\ \A i \in sent' : KeptRow(usage'[i])
      /\ Explained(recorded'.kind, recorded'.audit, recorded'.checked)
      /\ recorded'.kind = "drafted" => recorded'.invocation \in Invocations
                                       /\ DoneRow(usage'[recorded'.invocation], route')
  BY <1>1 DEF GenerationCycleInv
<1> QED
  BY <1>2, <1>4, <1>5, <1>6, CycleNext

\* The numbers when one worker comes to be outside with c.
LEMMA OutsideNumbers ==
    ASSUME GenerationCycleInv, NEW w \in CycleWorkers, NEW c,
           cycle' = [cycle EXCEPT ![w] = c], ~Inside(c),
           UNCHANGED <<sent, recorded>>, cycleAttempts' \in Nat,
           \/ UNCHANGED <<cycleStatus, leaseHolder, cycleAttempts>>
           \/ /\ cycleStatus' = "running" /\ leaseHolder' = w
              /\ cycleAttempts' = cycleAttempts + 1
              /\ c.at = "claimed",
           c.at = "read" => /\ cycle[w].at = "claimed" /\ c.invocation = cycleAttempts + 1
                            /\ UNCHANGED <<leaseHolder, cycleAttempts>>,
           c.at = "claimed" => cycleAttempts' = cycleAttempts + 1
    PROVE  Numbered'
<1>1. CycleShape /\ Numbered /\ cycleAttempts \in Nat
  BY DEF GenerationCycleInv, CycleShape
<1>2. /\ \A v \in CycleWorkers : v # w => cycle'[v] = cycle[v]
      /\ cycle'[w] = c
  BY <1>1 DEF CycleShape
<1>3. c.at \in EarlySteps
  BY DEF Inside
<1>4. leaseHolder' # NoWorker => cycleStatus' = "running"
  BY <1>1 DEF Numbered
<1>5. \A k \in Invocations \cup {0} : (Spent(k)' <=> Spent(k)) /\ k \in Nat
  BY GenerationCycleAssumption DEF Spent, Invocations
<1>6. \A k \in Invocations \cup {0} : Spent(k) => k <= cycleAttempts + 1
  BY <1>1 DEF Numbered
<1>7. cycleAttempts' = cycleAttempts \/ cycleAttempts' = cycleAttempts + 1
  OBVIOUS
<1>8. \A k \in Invocations \cup {0} : Spent(k)' => k <= cycleAttempts' + 1
  BY <1>1, <1>5, <1>6, <1>7
<1>9. ASSUME NEW v \in CycleWorkers
      PROVE  /\ cycle'[v].at \notin {"idle", "claimed"} =>
                   cycle'[v].invocation \in 1..(cycleAttempts' + 1)
             /\ cycle'[v].at = "read" /\ leaseHolder' = v =>
                   cycle'[v].invocation = cycleAttempts' + 1
             /\ Inside(cycle'[v]) /\ leaseHolder' \notin {v, NoWorker} =>
                   cycle'[v].invocation <= cycleAttempts'
             /\ cycle'[v].at \in {"claimed", "read"} /\ leaseHolder' = v =>
                   \A k \in Invocations \cup {0} : Spent(k)' => k <= cycleAttempts'
             /\ Inside(cycle'[v]) => cycle'[v].invocation # recorded'.invocation
  <2>1. CASE v = w
    <3>1. cycle'[v] = c
      BY <1>2, <2>1
    <3>2. CASE c.at = "idle"
      BY <3>1, <3>2 DEF Inside
    <3>3. CASE c.at = "claimed"
      BY <1>1, <1>5, <1>6, <3>1, <3>3 DEF Inside
    <3>4. CASE c.at = "read"
      <4>1. leaseHolder = w =>
               \A k \in Invocations \cup {0} : Spent(k) => k <= cycleAttempts
        BY <1>1, <3>4 DEF Numbered
      <4> QED
        BY <1>1, <1>5, <2>1, <3>1, <3>4, <4>1 DEF Inside
    <3> QED
      BY <1>3, <3>2, <3>3, <3>4 DEF EarlySteps
  <2>2. CASE v # w
    <3>1. /\ cycle[v].at \notin {"idle", "claimed"} =>
                cycle[v].invocation \in 1..(cycleAttempts + 1)
          /\ cycle[v].at = "read" /\ leaseHolder = v =>
                cycle[v].invocation = cycleAttempts + 1
          /\ Inside(cycle[v]) /\ leaseHolder \notin {v, NoWorker} =>
                cycle[v].invocation <= cycleAttempts
          /\ cycle[v].at \in {"claimed", "read"} /\ leaseHolder = v =>
                \A k \in Invocations \cup {0} : Spent(k) => k <= cycleAttempts
          /\ Inside(cycle[v]) => cycle[v].invocation # recorded.invocation
      BY <1>1 DEF Numbered
    <3>2. cycle'[v] = cycle[v]
      BY <1>2, <2>2
    <3>3. CASE UNCHANGED <<cycleStatus, leaseHolder, cycleAttempts>>
      BY <1>5, <3>1, <3>2, <3>3
    <3>4. CASE leaseHolder' = w /\ cycleAttempts' = cycleAttempts + 1
      <4>1. Inside(cycle[v]) => cycle[v].invocation \in 1..(cycleAttempts + 1)
        BY <3>1 DEF Inside, EarlySteps
      <4> QED
        BY <1>1, <2>2, <3>1, <3>2, <3>4, <4>1
    <3> QED
      BY <3>3, <3>4
  <2> QED
    BY <2>1, <2>2
<1> QED
  BY <1>4, <1>8, <1>9 DEF Numbered, Inside

LEMMA IdleFits ==
    /\ Idle \in Cycles /\ Audited(Idle) /\ ~Inside(Idle) /\ Idle.at = "idle"
    /\ Explained("none", createAudit, "pending")
<1>1. createAudit \in [CycleStages -> AuditMarks]
      /\ \A s \in CycleStages : createAudit[s] = "pending"
  BY DEF createAudit, AuditMarks
<1>2. 0 \in 0..(MaxClaims + 1) /\ 0 \in 0..MaxRepairs
  BY GenerationCycleAssumption DEF MaxRepairs
<1> QED
  BY <1>1, <1>2 DEF Idle, Cycles, CycleSteps, EarlySteps, CycleResults, CheckMarks, Audited,
     Inside, Working, Explained

LEMMA ClaimGood ==
    ASSUME GenerationCycleInv, NEW w \in CycleWorkers, Claim(w) PROVE GenerationCycleInv'
<1> DEFINE q == [cycle[w] EXCEPT !.at = "claimed"]
<1>1. /\ cycle[w] \in Cycles /\ Audited(cycle[w]) /\ cycle[w].at = "idle"
      /\ cycleAttempts \in 0..MaxClaims /\ cycleFaults \in 0..MaxCycleFaults
  BY CycleFacts DEF Claim, Goes, GenerationCycleInv, CycleShape
<1>2. cycle' = [cycle EXCEPT ![w] = q]
  BY CycleFacts DEF Claim, Goes
<1>3. q \in Cycles /\ q.at = "claimed" /\ q.audit = cycle[w].audit /\ q.checked = cycle[w].checked
  BY <1>1 DEF Cycles, CycleSteps, EarlySteps
<1> HIDE DEF q
<1>4. Audited(q) /\ ~Inside(q)
  BY <1>1, <1>3 DEF Audited, Inside, EarlySteps, Working
<1>5. /\ cycleStatus' = "running" /\ leaseHolder' = w /\ cycleAttempts' = cycleAttempts + 1
      /\ UNCHANGED <<route, usageVars, recorded, cycleFaults>> /\ sent' = sent
      /\ cycleAttempts < MaxClaims
  BY DEF Claim, usageVars
<1>6. cycleAttempts' \in 0..MaxClaims /\ cycleAttempts' \in Nat
  BY <1>1, <1>5, GenerationCycleAssumption
<1>7. Numbered'
  BY <1>2, <1>3, <1>4, <1>5, <1>6, OutsideNumbers
<1> QED
  BY <1>1, <1>2, <1>3, <1>4, <1>5, <1>6, <1>7, OutsideStep

LEMMA ReadClaimedGood ==
    ASSUME GenerationCycleInv, NEW w \in CycleWorkers, ReadClaimed(w) PROVE GenerationCycleInv'
<1> DEFINE q == [cycle[w] EXCEPT !.at = "read", !.invocation = cycleAttempts + 1]
<1>1. /\ cycle[w] \in Cycles /\ Audited(cycle[w]) /\ cycle[w].at = "claimed"
      /\ cycleAttempts \in 0..MaxClaims /\ cycleFaults \in 0..MaxCycleFaults
      /\ cycle \in [CycleWorkers -> Cycles]
  BY CycleFacts DEF ReadClaimed, GenerationCycleInv, CycleShape
<1>2. cycle' = [cycle EXCEPT ![w] = q]
  BY <1>1 DEF ReadClaimed, Cycles
<1>3. cycleAttempts + 1 \in 0..(MaxClaims + 1)
  BY <1>1, GenerationCycleAssumption
<1>4. /\ q \in Cycles /\ q.at = "read" /\ q.invocation = cycleAttempts + 1
      /\ q.audit = cycle[w].audit /\ q.checked = cycle[w].checked
  BY <1>1, <1>3 DEF Cycles, CycleSteps, EarlySteps
<1> HIDE DEF q
<1>5. Audited(q) /\ ~Inside(q)
  BY <1>1, <1>4 DEF Audited, Inside, EarlySteps, Working
<1>6. /\ UNCHANGED <<cycleStatus, leaseHolder, cycleAttempts>> /\ sent' = sent
      /\ UNCHANGED <<route, usageVars, recorded, cycleFaults>>
  BY DEF ReadClaimed, usageVars, cycleJobVars
<1>7. cycleAttempts' \in 0..MaxClaims /\ cycleAttempts' \in Nat
  BY <1>1, <1>6, GenerationCycleAssumption
<1>8. Numbered'
  BY <1>1, <1>2, <1>4, <1>5, <1>6, <1>7, OutsideNumbers
<1> QED
  BY <1>1, <1>2, <1>4, <1>5, <1>6, <1>7, <1>8, OutsideStep

\* A worker that gives up or dies.
LEMMA IdleStep ==
    ASSUME GenerationCycleInv, NEW w \in CycleWorkers, cycle' = [cycle EXCEPT ![w] = Idle],
           UNCHANGED <<route, cycleJobVars, usageVars>>, cycleFaults' \in 0..MaxCycleFaults
    PROVE  GenerationCycleInv'
<1>1. Idle \in Cycles /\ Audited(Idle) /\ ~Inside(Idle) /\ Idle.at = "idle"
  BY IdleFits
<1>2. /\ UNCHANGED <<cycleStatus, leaseHolder, cycleAttempts>> /\ sent' = sent
      /\ UNCHANGED <<route, usageVars, recorded>>
  BY DEF usageVars, cycleJobVars
<1>3. cycleAttempts' \in 0..MaxClaims /\ cycleAttempts' \in Nat
  BY <1>2, GenerationCycleAssumption DEF GenerationCycleInv, CycleShape
<1>4. Numbered'
  BY <1>1, <1>2, <1>3, OutsideNumbers
<1> QED
  BY <1>1, <1>2, <1>3, <1>4, OutsideStep

\* With the lease, nobody else has the number that the worker read.
LEMMA EnterProfilingGood ==
    ASSUME GenerationCycleInv, NEW w \in CycleWorkers, EnterProfiling(w)
    PROVE  GenerationCycleInv'
<1>1. UNCHANGED <<route, cycleJobVars, usageVars, cycleFaults>> /\ cycle[w].at = "read"
  BY DEF EnterProfiling, Goes
<1>2. CASE leaseHolder # w
  <2>1. cycle' = [cycle EXCEPT ![w] = Idle]
    BY <1>2 DEF EnterProfiling
  <2>2. cycleFaults' \in 0..MaxCycleFaults
    BY <1>1, CycleFacts
  <2> QED
    BY <1>1, <2>1, <2>2, IdleStep
<1>3. CASE leaseHolder = w
  <2> DEFINE q == [cycle[w] EXCEPT !.at = "assembling"]
  <2>1. /\ cycle[w] \in Cycles /\ Audited(cycle[w]) /\ cycle \in [CycleWorkers -> Cycles]
        /\ CycleShape /\ Numbered /\ Distinct
    BY CycleFacts DEF GenerationCycleInv
  <2>2. cycle' = [cycle EXCEPT ![w] = q]
    BY <1>3, <2>1 DEF EnterProfiling, Goes
  <2>3. /\ q \in Cycles /\ q.at = "assembling" /\ q.invocation = cycle[w].invocation
        /\ q.audit = cycle[w].audit /\ q.checked = cycle[w].checked
    BY <2>1 DEF Cycles, CycleSteps
  <2> HIDE DEF q
  <2>4. Audited(q) /\ Inside(q)
    BY <1>1, <2>1, <2>3 DEF Audited, Inside, EarlySteps, Working
  <2>5. /\ \A v \in CycleWorkers : v # w => cycle'[v] = cycle[v]
        /\ cycle'[w] = q
    BY <2>1, <2>2
  <2>6. /\ cycleStatus' = cycleStatus /\ leaseHolder' = leaseHolder
        /\ cycleAttempts' = cycleAttempts /\ recorded' = recorded /\ usage' = usage
        /\ sent' = sent /\ cycleFaults' = cycleFaults /\ route' = route
    BY <1>1 DEF cycleJobVars, usageVars
  <2>7. /\ q.invocation = cycleAttempts + 1 /\ cycleAttempts \in 0..MaxClaims
        /\ \A k \in Invocations \cup {0} : Spent(k) => k <= cycleAttempts
    BY <1>1, <1>3, <2>1, <2>3 DEF Numbered, CycleShape
  <2>8. q.invocation \in Invocations /\ ~Spent(q.invocation)
    BY <2>7, GenerationCycleAssumption DEF Invocations
  <2>9. \A v \in CycleWorkers : v # w /\ Inside(cycle[v]) =>
            /\ cycle[v].invocation <= cycleAttempts
            /\ cycle[v].invocation \in 1..(cycleAttempts + 1)
            /\ cycle[v].invocation # q.invocation
    <3> SUFFICES ASSUME NEW v \in CycleWorkers, v # w, Inside(cycle[v])
                 PROVE  /\ cycle[v].invocation <= cycleAttempts
                        /\ cycle[v].invocation \in 1..(cycleAttempts + 1)
                        /\ cycle[v].invocation # q.invocation
      OBVIOUS
    <3>1. leaseHolder \notin {v, NoWorker}
      BY <1>3, GenerationCycleAssumption
    <3>2. /\ cycle[v].invocation <= cycleAttempts
          /\ cycle[v].invocation \in 1..(cycleAttempts + 1)
      BY <2>1, <3>1 DEF Numbered, Inside, EarlySteps
    <3> QED
      BY <2>7, <3>2
  <2>10. CycleShape'
    BY <2>1, <2>2, <2>3, <2>6 DEF CycleShape
  <2>11. Numbered'
    <3>1. \A k \in Invocations \cup {0} : Spent(k)' <=> Spent(k)
      BY <2>6 DEF Spent
    <3>2. leaseHolder' # NoWorker => cycleStatus' = "running"
      BY <2>1, <2>6 DEF Numbered
    <3>3. \A k \in Invocations \cup {0} : Spent(k)' => k <= cycleAttempts' + 1
      BY <2>1, <2>6, <3>1 DEF Numbered
    <3>4. ASSUME NEW v \in CycleWorkers
          PROVE  /\ cycle'[v].at \notin {"idle", "claimed"} =>
                       cycle'[v].invocation \in 1..(cycleAttempts + 1)
                 /\ cycle'[v].at = "read" /\ leaseHolder = v =>
                       cycle'[v].invocation = cycleAttempts + 1
                 /\ Inside(cycle'[v]) /\ leaseHolder \notin {v, NoWorker} =>
                       cycle'[v].invocation <= cycleAttempts
                 /\ cycle'[v].at \in {"claimed", "read"} /\ leaseHolder = v =>
                       \A k \in Invocations \cup {0} : Spent(k)' => k <= cycleAttempts
                 /\ Inside(cycle'[v]) => cycle'[v].invocation # recorded.invocation
      <4>1. CASE v # w
        BY <2>1, <2>5, <3>1, <4>1 DEF Numbered
      <4>2. CASE v = w
        BY <1>3, <2>3, <2>5, <2>7, <2>8, <4>2 DEF Spent
      <4> QED
        BY <4>1, <4>2
    <3> QED
      BY <2>6, <3>2, <3>3, <3>4 DEF Numbered, Inside
  <2>12. Distinct'
    <3> SUFFICES ASSUME NEW v \in CycleWorkers, NEW x \in CycleWorkers, v # x,
                        Inside(cycle'[v]), Inside(cycle'[x])
                 PROVE  cycle'[v].invocation # cycle'[x].invocation
      BY DEF Distinct, Inside
    <3> QED
      BY <2>1, <2>5, <2>9 DEF Distinct
  <2>13. ASSUME NEW v \in CycleWorkers PROVE Local(cycle'[v], usage', sent', route')
    <3>1. CASE v # w
      BY <2>5, <2>6, <3>1, CycleInvariant
    <3>2. CASE v = w
      <4>1. Knows(q, usage[q.invocation], q.invocation \in sent, route)
        BY <2>3, <2>8 DEF Knows, Working, Spent
      <4>2. Concludes(q, usage[q.invocation], route)
        BY <2>3 DEF Concludes
      <4> QED
        BY <2>4, <2>5, <2>6, <3>2, <4>1, <4>2 DEF Local
    <3> QED
      BY <3>1, <3>2
  <2>14. /\ \A i \in sent' : KeptRow(usage'[i])
         /\ Explained(recorded'.kind, recorded'.audit, recorded'.checked)
         /\ recorded'.kind = "drafted" => recorded'.invocation \in Invocations
                                          /\ DoneRow(usage'[recorded'.invocation], route')
    BY <2>6 DEF GenerationCycleInv
  <2> QED
    BY <2>10, <2>11, <2>12, <2>13, <2>14, CycleNext
<1> QED
  BY <1>2, <1>3

\* The job's own steps: every worker's cycle stays as it is.
LEMMA LeaseStep ==
    ASSUME GenerationCycleInv,
           UNCHANGED <<route, cycleAttempts, usageVars, recorded, cycle>>,
           \/ leaseHolder' = NoWorker
           \/ UNCHANGED leaseHolder /\ cycleStatus # "running",
           cycleStatus' \in {cycleStatus, "queued"}, cycleFaults' \in 0..MaxCycleFaults
    PROVE  GenerationCycleInv'
<1>1. CycleShape /\ Numbered /\ Distinct /\ usage' = usage /\ sent' = sent
  BY DEF GenerationCycleInv, usageVars
<1>2. leaseHolder' = NoWorker
  BY <1>1 DEF Numbered
<1>3. CycleShape'
  BY <1>1, <1>2 DEF CycleShape
<1>4. Numbered'
  <2>1. \A k \in Invocations \cup {0} : Spent(k)' <=> Spent(k)
    BY <1>1 DEF Spent
  <2>2. \A k \in Invocations \cup {0} : Spent(k)' => k <= cycleAttempts' + 1
    BY <1>1, <2>1 DEF Numbered
  <2>3. ASSUME NEW w \in CycleWorkers
        PROVE  /\ cycle'[w].at \notin {"idle", "claimed"} =>
                     cycle'[w].invocation \in 1..(cycleAttempts' + 1)
               /\ leaseHolder' # w
               /\ Inside(cycle'[w]) => cycle'[w].invocation # recorded'.invocation
    BY <1>1, <1>2, GenerationCycleAssumption DEF Numbered
  <2> QED
    BY <1>2, <2>2, <2>3 DEF Numbered, Inside
<1>5. Distinct'
  BY <1>1 DEF Distinct, Inside
<1>6. \A w \in CycleWorkers : Local(cycle'[w], usage', sent', route')
  BY <1>1, CycleInvariant
<1>7. /\ \A i \in sent' : KeptRow(usage'[i])
      /\ Explained(recorded'.kind, recorded'.audit, recorded'.checked)
      /\ recorded'.kind = "drafted" => recorded'.invocation \in Invocations
                                       /\ DoneRow(usage'[recorded'.invocation], route')
  BY <1>1 DEF GenerationCycleInv
<1> QED
  BY <1>3, <1>4, <1>5, <1>6, <1>7, CycleNext

LEMMA LeaseExpiresGood ==
    ASSUME GenerationCycleInv, LeaseExpires PROVE GenerationCycleInv'
<1>1. cycleFaults' \in 0..MaxCycleFaults
  BY GenerationCycleAssumption DEF LeaseExpires, GenerationCycleInv, CycleShape
<1> QED
  BY <1>1, LeaseStep DEF LeaseExpires

LEMMA RetryJobGood ==
    ASSUME GenerationCycleInv, RetryJob PROVE GenerationCycleInv'
<1>1. cycleFaults' \in 0..MaxCycleFaults
  BY DEF RetryJob, GenerationCycleInv, CycleShape
<1> QED
  BY <1>1, LeaseStep DEF RetryJob

LEMMA CycleWorkerDiesGood ==
    ASSUME GenerationCycleInv, NEW w \in CycleWorkers, CycleWorkerDies(w)
    PROVE  GenerationCycleInv'
<1>1. cycleFaults' \in 0..MaxCycleFaults
  BY GenerationCycleAssumption DEF CycleWorkerDies, GenerationCycleInv, CycleShape
<1> QED
  BY <1>1, IdleStep DEF CycleWorkerDies

\* What the cycle has come to, and its row, become the record.
LEMMA SettleGood ==
    ASSUME GenerationCycleInv, NEW w \in CycleWorkers, Settle(w) PROVE GenerationCycleInv'
<1> DEFINE i == cycle[w].invocation
<1>1. /\ CycleShape /\ Numbered /\ Distinct /\ cycle[w] \in Cycles
      /\ cycle \in [CycleWorkers -> Cycles]
  BY CycleFacts DEF GenerationCycleInv
<1>2. cycle[w].at = "settling" /\ Inside(cycle[w]) /\ cycle' = [cycle EXCEPT ![w] = Idle]
  BY DEF Settle, Inside, EarlySteps
<1>3. /\ usage' = usage /\ sent' = sent /\ route' = route /\ cycleAttempts' = cycleAttempts
      /\ cycleFaults' = cycleFaults
  BY DEF Settle, usageVars
<1>4. CASE leaseHolder # w
  <2>1. UNCHANGED <<route, cycleJobVars, usageVars>> /\ cycleFaults' \in 0..MaxCycleFaults
    BY <1>1, <1>3, <1>4 DEF Settle, cycleJobVars, usageVars, CycleShape
  <2> QED
    BY <1>2, <2>1, IdleStep
<1>5. CASE leaseHolder = w
  <2>1. /\ leaseHolder' = NoWorker
        /\ cycleStatus' \in {"rendering", "needs_clarification", "failed"}
        /\ recorded' = [kind |-> cycle[w].result, invocation |-> i,
                        audit |-> cycle[w].audit, checked |-> cycle[w].checked]
    BY <1>5 DEF Settle
  <2>2. /\ i \in Invocations /\ i <= cycleAttempts + 1
        /\ \A v \in CycleWorkers : v # w /\ Inside(cycle[v]) => cycle[v].invocation # i
    BY <1>2, InsideFacts
  <2>3. /\ cycle[w].result \in Endings
        /\ Explained(cycle[w].result, cycle[w].audit, cycle[w].checked)
        /\ cycle[w].result = "drafted" => DoneRow(usage[i], route)
    BY <1>2, CycleFacts DEF Concludes
  <2>4. /\ recorded'.kind = cycle[w].result /\ recorded'.invocation = i
        /\ recorded'.audit = cycle[w].audit /\ recorded'.checked = cycle[w].checked
        /\ recorded' \in Records
    BY <1>1, <2>1, <2>3 DEF Records, Cycles
  <2>5. Idle \in Cycles /\ Audited(Idle) /\ ~Inside(Idle) /\ Idle.at = "idle"
    BY IdleFits
  <2>6. /\ \A v \in CycleWorkers : v # w => cycle'[v] = cycle[v]
        /\ cycle'[w] = Idle
    BY <1>1, <1>2
  <2> HIDE DEF i
  <2>7. CycleShape'
    BY <1>1, <1>2, <1>3, <2>1, <2>4, <2>5 DEF CycleShape
  <2>8. Numbered'
    <3>1. \A k \in Invocations \cup {0} : Spent(k)' => Spent(k) \/ k = i
      BY <1>3, <2>4 DEF Spent
    <3>2. \A k \in Invocations \cup {0} : Spent(k)' => k <= cycleAttempts' + 1
      BY <1>1, <1>3, <2>2, <3>1 DEF Numbered
    <3>3. ASSUME NEW v \in CycleWorkers
          PROVE  /\ cycle'[v].at \notin {"idle", "claimed"} =>
                       cycle'[v].invocation \in 1..(cycleAttempts' + 1)
                 /\ leaseHolder' # v
                 /\ Inside(cycle'[v]) => cycle'[v].invocation # recorded'.invocation
      <4>1. leaseHolder' # v
        BY <2>1, GenerationCycleAssumption
      <4>2. CASE v = w
        BY <2>5, <2>6, <4>1, <4>2
      <4>3. CASE v # w
        BY <1>1, <1>3, <2>2, <2>4, <2>6, <4>1, <4>3 DEF Numbered
      <4> QED
        BY <4>2, <4>3
    <3> QED
      BY <2>1, <3>2, <3>3 DEF Numbered, Inside
  <2>9. Distinct'
    <3> SUFFICES ASSUME NEW v \in CycleWorkers, NEW x \in CycleWorkers, v # x,
                        Inside(cycle'[v]), Inside(cycle'[x])
                 PROVE  cycle'[v].invocation # cycle'[x].invocation
      BY DEF Distinct, Inside
    <3>1. v # w /\ x # w
      BY <2>5, <2>6
    <3> QED
      BY <1>1, <2>6, <3>1 DEF Distinct
  <2>10. ASSUME NEW v \in CycleWorkers PROVE Local(cycle'[v], usage', sent', route')
    <3>1. CASE v = w
      BY <2>5, <2>6, <3>1 DEF Local
    <3>2. CASE v # w
      BY <1>3, <2>6, <3>2, CycleInvariant
    <3> QED
      BY <3>1, <3>2
  <2>11. \A k \in sent' : KeptRow(usage'[k])
    BY <1>3 DEF GenerationCycleInv
  <2> QED
    BY <1>3, <2>2, <2>3, <2>4, <2>7, <2>8, <2>9, <2>10, <2>11, CycleNext
<1> QED
  BY <1>4, <1>5

LEMMA GenerationCycleBegins == GenerationCycleInit => GenerationCycleInv
<1> SUFFICES ASSUME GenerationCycleInit PROVE GenerationCycleInv
  OBVIOUS
<1>1. Idle \in Cycles /\ Audited(Idle) /\ ~Inside(Idle) /\ Idle.at = "idle"
      /\ Explained("none", createAudit, "pending")
  BY IdleFits
<1>2. /\ cycle = [w \in CycleWorkers |-> Idle] /\ sent = {} /\ leaseHolder = NoWorker
      /\ cycleAttempts = 0 /\ recorded = NoOutcome /\ cycleStatus = "queued"
      /\ usage = [i \in Invocations |-> NoUsage] /\ route \in {"llm", "deterministic"}
      /\ cycleFaults = 0
  BY DEF GenerationCycleInit
<1>3. NoUsage \in UsageRows
  BY DEF NoUsage, UsageRows, UsageStatuses
<1>4. /\ recorded \in Records /\ recorded.kind = "none" /\ recorded.invocation = 0
      /\ recorded.audit = createAudit /\ recorded.checked = "pending"
  <2>1. createAudit \in [CycleStages -> AuditMarks] /\ 0 \in 0..(MaxClaims + 1)
    BY GenerationCycleAssumption DEF createAudit, AuditMarks
  <2> QED
    BY <1>2, <2>1 DEF NoOutcome, Records, CheckMarks
<1>5. CycleShape
  <2>1. 0 \in 0..MaxClaims /\ 0 \in 0..MaxCycleFaults
    BY GenerationCycleAssumption
  <2> QED
    BY <1>1, <1>2, <1>3, <1>4, <2>1 DEF CycleShape
<1>6. Numbered
  <2>1. \A i \in Invocations \cup {0} : Spent(i) => i = 0
    BY <1>2, <1>4 DEF Spent
  <2> QED
    BY <1>1, <1>2, <2>1 DEF Numbered, Inside
<1>7. Distinct
  BY <1>1, <1>2 DEF Distinct, Inside
<1>8. \A w \in CycleWorkers : Local(cycle[w], usage, sent, route)
  BY <1>1, <1>2 DEF Local
<1> QED
  BY <1>1, <1>2, <1>4, <1>5, <1>6, <1>7, <1>8, CycleInvariant

LEMMA CycleStutters ==
    ASSUME GenerationCycleInv, UNCHANGED generationCycleVars PROVE GenerationCycleInv'
<1>1. /\ usage' = usage /\ sent' = sent /\ route' = route /\ cycleAttempts' = cycleAttempts
      /\ cycleFaults' = cycleFaults /\ cycle' = cycle /\ recorded' = recorded
      /\ leaseHolder' = leaseHolder /\ cycleStatus' = cycleStatus
  BY DEF generationCycleVars
<1>2. CycleShape' /\ Numbered' /\ Distinct'
  BY <1>1 DEF GenerationCycleInv, CycleShape, Numbered, Distinct, Inside, Spent
<1>3. \A w \in CycleWorkers : Local(cycle'[w], usage', sent', route')
  BY <1>1, CycleInvariant
<1>4. /\ \A i \in sent' : KeptRow(usage'[i])
      /\ Explained(recorded'.kind, recorded'.audit, recorded'.checked)
      /\ recorded'.kind = "drafted" => recorded'.invocation \in Invocations
                                       /\ DoneRow(usage'[recorded'.invocation], route')
  BY <1>1 DEF GenerationCycleInv
<1> QED
  BY <1>2, <1>3, <1>4, CycleNext

LEMMA CycleStepGood ==
    ASSUME GenerationCycleInv, NEW w \in CycleWorkers, CycleStep(w) PROVE GenerationCycleInv'
<1>1. CASE Claim(w) \/ ReadClaimed(w) \/ EnterProfiling(w) \/ RefuseInputs(w) \/ Settle(w)
  BY <1>1, ClaimGood, ReadClaimedGood, EnterProfilingGood, RefuseInputsGood, SettleGood
<1>2. CASE Prepare(w) \/ AnswerOffline(w) \/ RefuseAdmission(w) \/ Admit(w)
  BY <1>2, PrepareGood, AnswerOfflineGood, RefuseAdmissionGood, AdmitGood
<1>3. CASE RefuseRebuilt(w) \/ RefuseSending(w) \/ TimeOutUnsent(w) \/ ReceiveAnswer(w)
           \/ SendRequest(w)
  BY <1>3, AnswerGood, SendRequestGood
<1>4. CASE CompleteUsage(w) \/ DiscardUsage(w) \/ UsageFails(w) \/ RecordFailed(w)
           \/ RecordFails(w)
  BY <1>4, CompleteUsageGood, DiscardUsageGood, UsageFailsGood, RecordFailedGood,
     RecordFailsGood
<1>5. CASE TakeAnswer(w) \/ Transform(w) \/ Compile(w) \/ Validate(w) \/ Repair(w)
  BY <1>5, TakeAnswerGood, TransformGood, CompileGood, ValidateGood, RepairGood
<1>6. CASE CycleWorkerDies(w)
  BY <1>6, CycleWorkerDiesGood
<1> QED
  BY <1>1, <1>2, <1>3, <1>4, <1>5, <1>6 DEF CycleStep

\* No two cycles of a job ever have the same invocation, so that each writes only its own
\* rows in the usage tables; a cycle knows of its row and of its audit what its step says
\* (apps/generation-worker/src/index.ts and memory-invocation-gateway.ts).
THEOREM GenerationCycleInvariance == GenerationCycleSpec => []GenerationCycleInv
<1>1. GenerationCycleInit => GenerationCycleInv
  BY GenerationCycleBegins
<1>2. GenerationCycleInv /\ [GenerationCycleNext]_generationCycleVars => GenerationCycleInv'
  <2> SUFFICES ASSUME GenerationCycleInv, [GenerationCycleNext]_generationCycleVars
               PROVE  GenerationCycleInv'
    OBVIOUS
  <2>1. CASE LeaseExpires \/ RetryJob
    BY <2>1, LeaseExpiresGood, RetryJobGood
  <2>2. ASSUME NEW w \in CycleWorkers, CycleStep(w) PROVE GenerationCycleInv'
    BY <2>2, CycleStepGood
  <2>3. CASE UNCHANGED generationCycleVars
    BY <2>3, CycleStutters
  <2> QED
    BY <2>1, <2>2, <2>3 DEF GenerationCycleNext
<1> QED
  BY <1>1, <1>2, PTL DEF GenerationCycleSpec

\* A request that has reached the provider stays on record in both usage tables, and the
\* record of a settled job agrees with what happened, whatever the number of workers, claims,
\* faults and failed writes (memory-invocation-gateway.ts, packages/generation/src/index.ts).
THEOREM CycleStaysOnRecord == GenerationCycleSpec => []CycleIsOnRecord
<1>1. GenerationCycleInv => CycleIsOnRecord
  <2> SUFFICES ASSUME GenerationCycleInv PROVE CycleIsOnRecord
    OBVIOUS
  <2> DEFINE marks == recorded.audit
             failed == {s \in CycleStages : marks[s] = "failed"}
  <2>1. UsageNeverLost
    BY DEF GenerationCycleInv, KeptRow, UsageNeverLost
  <2>2. /\ Explained(recorded.kind, marks, recorded.checked)
        /\ recorded \in Records /\ marks \in [CycleStages -> AuditMarks]
    BY DEF GenerationCycleInv, CycleShape, Records
  <2>3. ASSUME recorded.kind = "drafted"
        PROVE  /\ marks = [s \in CycleStages |-> "succeeded"] /\ recorded.checked = "passed"
               /\ route = "llm" =>
                     \A t \in UsageTables : usage[recorded.invocation][t] = "succeeded"
    <3>1. (\A s \in CycleStages : marks[s] = "succeeded") /\ recorded.checked = "passed"
      BY <2>2, <2>3 DEF Explained
    <3>2. DoneRow(usage[recorded.invocation], route)
      BY <2>3 DEF GenerationCycleInv
    <3> HIDE DEF marks
    <3> QED
      BY <2>2, <3>1, <3>2 DEF DoneRow
  <2>4. ASSUME recorded.kind = "failed"
        PROVE  Cardinality(failed) = 1 /\ recorded.checked = "failed"
    <3>1. PICK s \in CycleStages : failed = {s}
      BY <2>2, <2>4 DEF Explained
    <3> QED
      BY <2>2, <2>4, <3>1, FS_Singleton DEF Explained
  <2>5. ASSUME recorded.kind \notin {"drafted", "failed"} PROVE failed = {}
    BY <2>2, <2>5 DEF Explained
  <2>6. OutcomeIsExplained
    <3>1. CASE recorded.kind = "drafted"
      BY <2>3, <3>1 DEF OutcomeIsExplained
    <3>2. CASE recorded.kind = "failed"
      BY <2>4, <3>2 DEF OutcomeIsExplained
    <3>3. CASE recorded.kind \notin {"drafted", "failed"}
      BY <2>5, <3>3 DEF OutcomeIsExplained
    <3> QED
      BY <3>1, <3>2, <3>3
  <2> QED
    BY <2>1, <2>6 DEF CycleIsOnRecord
<1> QED
  BY <1>1, GenerationCycleInvariance, PTL

\* What is on record of a job's requests and its stages is what happened, and the requests
\* carry a key that is no older than the job knew of (RequestsAreOnRecord).
THEOREM RequestsStayOnRecord == GenerationCycleSpec /\ ModelRouteSpec => []RequestsAreOnRecord
  BY CycleStaysOnRecord, SavedKeyIsUsed, PTL DEF RequestsAreOnRecord

-----------------------------------------------------------------------------
(* Data assets: the inductive invariant *)

Stored(u, kind) == <<u, kind>> \in objects
Coming(u, kind) == <<"put", u, kind>> \in inflight
Leaving(u, kind) == <<"delete", u, kind>> \in inflight
Listed(u, kind) == <<u, kind>> \in auditedOrphans \cup silentOrphans \cup lateOrphans

\* No step, and no request that is still in flight, removes the result of u; unless its worker
\* looked for it too early.
ResultKept(u) ==
    \/ uploadRoute[u] = "table" /\ u \in overtaken
    \/ Stored(u, "normalized") /\ ~Leaving(u, "normalized") /\ workerStage[u] # "removeResult"
SourceKept(u) == Stored(u, "source") /\ ~Leaving(u, "source")

\* What was published has been settled and is in the store: no later step of its upload or
\* its worker removes it.
InPublication(s, a) ==
    /\ assetOf[s] = a /\ uploadRoute[s] # "none" /\ ResultKept(s)
    /\ uploadRoute[s] = "local" => SourceKept(s) /\ uploadStage[s] = "over"
    /\ uploadRoute[s] = "table" => intakeJob[s] = "succeeded"

BeforeCommit == {"idle", "readSource", "import", "putResult", "commit"}

\* Where an upload is, and what is in the store and in the audit of it.
UploadKnows(u) ==
    /\ uploadStage[u] = "idle" =>
          /\ uploadRoute[u] = "none" /\ intakeJob[u] = "none"
          /\ \A kind \in Kinds : ~Stored(u, kind) /\ ~Coming(u, kind) /\ ~Leaving(u, kind)
    /\ uploadStage[u] \in LocalStages =>
          /\ uploadRoute[u] = "local"
          /\ \A kind \in Kinds : Stored(u, kind) \/ Coming(u, kind) => kind \in written[u]
    /\ uploadStage[u] \in {"parse", "putSource", "putNormalized", "persist"} =>
          \A kind \in Kinds : ~Leaving(u, kind)
    /\ uploadStage[u] \in TableStages => uploadRoute[u] = "table"
    /\ uploadStage[u] \in {"putTable", "enqueue"} => intakeJob[u] = "none"
    /\ uploadStage[u] \in {"putNormalized", "persist"} => Stored(u, "source")
    /\ uploadStage[u] = "persist" => Stored(u, "normalized")
    /\ uploadStage[u] \in {"cleanSource", "markFailed"} /\ Stored(u, "normalized") =>
          Listed(u, "normalized")
    /\ uploadStage[u] = "markFailed" /\ Stored(u, "source") => Listed(u, "source")
    /\ intakeJob[u] # "none" => uploadRoute[u] = "table"
    /\ workerStage[u] = "idle" <=> intakeJob[u] \in {"none", "queued"}
    /\ uploadRoute[u] = "table" /\ workerStage[u] \in BeforeCommit => ~Leaving(u, "normalized")
    /\ workerStage[u] = "commit" => Stored(u, "normalized")
    /\ u \in undecided =>
          /\ uploadStage[u] \in {"over", "compensate"} /\ uploadRoute[u] # "none"
          /\ intakeJob[u] \in {"none", "running"}
          /\ uploadRoute[u] = "local" => uploadStage[u] = "over" /\ SourceKept(u)
          /\ ~Enqueueing(u) => ResultKept(u)
          /\ intakeJob[u] # "none" => workerStage[u] \notin BeforeCommit

\* Nobody but an upload itself can publish the asset that it creates before it is ready.
AssetAwaits(u) ==
    /\ uploadStage[u] = "idle" => assetStatus[u] = "none"
    /\ uploadStage[u] # "idle" =>
          assetOf[u] = u \/ (assetOf[u] \in Uploads /\ assetStatus[assetOf[u]] = "ready")
    /\ assetOf[u] = u =>
          /\ uploadStage[u] \in LocalStages => assetStatus[u] = "processing"
          /\ uploadStage[u] \in {"putTable", "enqueue"} => assetStatus[u] = "none"
          /\ u \in undecided =>
                assetStatus[u] \in IF Enqueueing(u) THEN {"none"} ELSE {"processing", "ready"}

ReadyIfPublished(a) == assetStatus[a] = "ready" <=> snapshots[a] # <<>>

DataAssetInv ==
    /\ DataAssetTypeOK
    /\ \A u \in Uploads : UploadKnows(u) /\ AssetAwaits(u) /\ ReadyIfPublished(u)
    /\ \A a \in Uploads : \A s \in ToSet(snapshots[a]) : InPublication(s, a)

\* What a sequence of uploads holds, and what it holds with one more.
LEMMA ListedUploads ==
    ASSUME NEW seq \in Seq(Uploads), NEW u \in Uploads
    PROVE  /\ Append(seq, u) \in Seq(Uploads) /\ Append(seq, u) # <<>>
           /\ ToSet(Append(seq, u)) = ToSet(seq) \cup {u} /\ ToSet(seq) \subseteq Uploads
           /\ \A s : Contains(seq, s) <=> s \in ToSet(seq)
           /\ seq # <<>> => seq[Len(seq)] \in ToSet(seq)
<1>1. /\ Append(seq, u) \in Seq(Uploads) /\ Len(Append(seq, u)) = Len(seq) + 1
      /\ \A i \in 1..Len(seq) : Append(seq, u)[i] = seq[i]
      /\ Append(seq, u)[Len(seq) + 1] = u
      /\ Len(seq) \in Nat /\ DOMAIN seq = 1..Len(seq)
      /\ DOMAIN Append(seq, u) = 1..(Len(seq) + 1)
  OBVIOUS
<1> DEFINE longer == Append(seq, u)
<1> HIDE DEF longer
<1>2. ToSet(longer) = ToSet(seq) \cup {u}
  <2>1. \A s \in ToSet(longer) : s \in ToSet(seq) \cup {u}
    BY <1>1 DEF ToSet, longer
  <2>2. \A s \in ToSet(seq) : s \in ToSet(longer)
    BY <1>1 DEF ToSet, longer
  <2>3. u \in ToSet(longer)
    BY <1>1 DEF ToSet, longer
  <2> QED
    BY <2>1, <2>2, <2>3
<1>3. longer # <<>>
  BY <1>1 DEF longer
<1>4. \A i \in 1..Len(seq) : seq[i] \in Uploads
  OBVIOUS
<1>5. ToSet(seq) \subseteq Uploads
  BY <1>1, <1>4 DEF ToSet
<1>6. \A s : Contains(seq, s) <=> s \in ToSet(seq)
  BY <1>1 DEF Contains, ToSet
<1>7. seq # <<>> => seq[Len(seq)] \in ToSet(seq)
  <2>1. seq # <<>> => Len(seq) \in 1..Len(seq)
    BY <1>1
  <2> QED
    BY <1>1, <2>1 DEF ToSet
<1> QED
  BY <1>1, <1>2, <1>3, <1>5, <1>6, <1>7 DEF longer

StoredAsBefore(v, kind) ==
    /\ Stored(v, kind)' <=> Stored(v, kind)
    /\ Coming(v, kind)' <=> Coming(v, kind)
    /\ Leaving(v, kind)' <=> Leaving(v, kind)
    /\ Listed(v, kind) => Listed(v, kind)'

\* A step of u: what belongs to the other uploads stays, and ready and failed are final.
OnlyUpload(u) ==
    /\ \A v \in Uploads \ {u} :
          /\ uploadStage'[v] = uploadStage[v] /\ workerStage'[v] = workerStage[v]
          /\ uploadRoute'[v] = uploadRoute[v] /\ assetOf'[v] = assetOf[v]
          /\ written'[v] = written[v] /\ intakeJob'[v] = intakeJob[v]
          /\ assetStatus'[v] = assetStatus[v]
          /\ v \in undecided' <=> v \in undecided
          /\ v \in overtaken' <=> v \in overtaken
          /\ \A kind \in Kinds : StoredAsBefore(v, kind)
    /\ assetStatus[u] \in {"ready", "failed"} => assetStatus'[u] = assetStatus[u]

Same(v) == /\ uploadStage'[v] = uploadStage[v] /\ workerStage'[v] = workerStage[v]
           /\ uploadRoute'[v] = uploadRoute[v] /\ written'[v] = written[v]
           /\ intakeJob'[v] = intakeJob[v]
           /\ v \in undecided' <=> v \in undecided
           /\ v \in overtaken' <=> v \in overtaken
           /\ \A kind \in Kinds : StoredAsBefore(v, kind)

LEMMA SameKnows ==
    ASSUME NEW v \in Uploads, UploadKnows(v), Same(v) PROVE UploadKnows(v)'
<1>1. (ResultKept(v)' <=> ResultKept(v)) /\ (SourceKept(v)' <=> SourceKept(v))
  BY DEF ResultKept, SourceKept, Same, StoredAsBefore, Kinds
<1>2. Enqueueing(v)' <=> Enqueueing(v)
  BY DEF Enqueueing, Same
<1> QED
  BY <1>1, <1>2 DEF UploadKnows, Same, StoredAsBefore, Kinds

\* A step that adds no snapshot but for u.
LEMMA UploadStep ==
    ASSUME DataAssetInv, NEW u \in Uploads, OnlyUpload(u), DataAssetTypeOK', UploadKnows(u)',
           AssetAwaits(u)', ReadyIfPublished(u)',
           \/ snapshots' = snapshots
           \/ /\ assetOf[u] \in Uploads
              /\ snapshots' = [snapshots EXCEPT ![assetOf[u]] = Append(@, u)]
              /\ assetStatus'[assetOf[u]] = "ready",
           \A a \in Uploads : u \in ToSet(snapshots'[a]) => InPublication(u, a)'
    PROVE  DataAssetInv'
<1>1. /\ DataAssetTypeOK
      /\ \A v \in Uploads : UploadKnows(v) /\ AssetAwaits(v) /\ ReadyIfPublished(v)
      /\ \A a \in Uploads : \A s \in ToSet(snapshots[a]) : InPublication(s, a)
      /\ \A a \in Uploads : snapshots[a] \in Seq(Uploads)
  BY DEF DataAssetInv, DataAssetTypeOK
<1>2. \A a \in Uploads : \/ snapshots'[a] = snapshots[a]
                         \/ /\ snapshots'[a] = Append(snapshots[a], u) /\ a = assetOf[u]
                            /\ assetStatus'[a] = "ready"
  BY <1>1 DEF DataAssetTypeOK
<1>3. \A a \in Uploads : ToSet(snapshots'[a]) \subseteq ToSet(snapshots[a]) \cup {u}
  BY <1>1, <1>2, ListedUploads
<1>4. ASSUME NEW a \in Uploads PROVE ReadyIfPublished(a)'
  <2>1. CASE a = u
    BY <2>1
  <2>2. CASE a # u
    <3>1. assetStatus'[a] = assetStatus[a]
      BY <2>2 DEF OnlyUpload
    <3>2. CASE snapshots'[a] = snapshots[a]
      BY <1>1, <3>1, <3>2 DEF ReadyIfPublished
    <3>3. CASE snapshots'[a] = Append(snapshots[a], u) /\ assetStatus'[a] = "ready"
      BY <1>1, <3>3, ListedUploads DEF ReadyIfPublished
    <3> QED
      BY <1>2, <3>2, <3>3
  <2> QED
    BY <2>1, <2>2
<1>5. ASSUME NEW v \in Uploads PROVE UploadKnows(v)'
  <2>1. v # u => Same(v)
    BY DEF OnlyUpload, Same
  <2> QED
    BY <1>1, <2>1, SameKnows
<1>6. ASSUME NEW v \in Uploads PROVE AssetAwaits(v)'
  <2>1. CASE v = u
    BY <2>1
  <2>2. CASE v # u
    <3>1. /\ uploadStage'[v] = uploadStage[v] /\ assetOf'[v] = assetOf[v]
          /\ assetStatus'[v] = assetStatus[v] /\ (v \in undecided' => v \in undecided)
          /\ Enqueueing(v)' <=> Enqueueing(v)
      BY <2>2 DEF OnlyUpload, Enqueueing
    <3>2. \A a \in Uploads : assetStatus[a] = "ready" => assetStatus'[a] = "ready"
      BY DEF OnlyUpload
    <3>3. /\ uploadStage'[v] = "idle" => assetStatus'[v] = "none"
          /\ uploadStage'[v] # "idle" =>
                assetOf'[v] = v \/ (assetOf'[v] \in Uploads /\ assetStatus'[assetOf'[v]] = "ready")
      BY <1>1, <3>1, <3>2 DEF AssetAwaits
    <3>4. assetOf'[v] = v =>
             /\ uploadStage'[v] \in LocalStages => assetStatus'[v] = "processing"
             /\ uploadStage'[v] \in {"putTable", "enqueue"} => assetStatus'[v] = "none"
             /\ v \in undecided' => assetStatus'[v] \in
                   IF Enqueueing(v)' THEN {"none"} ELSE {"processing", "ready"}
      BY <1>1, <3>1 DEF AssetAwaits
    <3> QED
      BY <3>3, <3>4 DEF AssetAwaits
  <2> QED
    BY <2>1, <2>2
<1>7. ASSUME NEW a \in Uploads, NEW s \in ToSet(snapshots'[a]) PROVE InPublication(s, a)'
  <2>1. CASE s = u
    BY <1>7, <2>1
  <2>2. CASE s # u
    <3>1. s \in ToSet(snapshots[a]) /\ s \in Uploads
      BY <1>1, <1>3, <1>7, <2>2, ListedUploads
    <3>2. InPublication(s, a)
      BY <1>1, <3>1
    <3>3. /\ uploadStage'[s] = uploadStage[s] /\ assetOf'[s] = assetOf[s]
          /\ uploadRoute'[s] = uploadRoute[s] /\ intakeJob'[s] = intakeJob[s]
          /\ (ResultKept(s)' <=> ResultKept(s)) /\ (SourceKept(s)' <=> SourceKept(s))
      BY <2>2, <3>1 DEF OnlyUpload, StoredAsBefore, ResultKept, SourceKept, Kinds
    <3> QED
      BY <3>2, <3>3 DEF InPublication
  <2> QED
    BY <2>1, <2>2
<1> QED
  BY <1>4, <1>5, <1>6, <1>7 DEF DataAssetInv

LEMMA UploadFacts ==
    ASSUME DataAssetInv, NEW u \in Uploads
    PROVE  /\ DataAssetTypeOK /\ UploadKnows(u) /\ AssetAwaits(u) /\ ReadyIfPublished(u)
           /\ \A a \in Uploads : u \in ToSet(snapshots[a]) => InPublication(u, a)
           /\ assetOf[u] \in Uploads =>
                 \A a \in Uploads : u \in ToSet(snapshots[a]) => a = assetOf[u]
  BY DEF DataAssetInv, InPublication

\* A step that changes only where u is, and what is in the store and in the audit of it.
MovesOnly(u) ==
    /\ \E at \in Outside \cup LocalStages \cup TableStages :
          uploadStage' = [uploadStage EXCEPT ![u] = at]
    /\ \E at \in Outside \cup WorkerStages : workerStage' = [workerStage EXCEPT ![u] = at]
    /\ \E ks \in SUBSET Kinds : written' = [written EXCEPT ![u] = ks]
    /\ objects' \in {objects} \cup {objects \cup {<<u, kind>>} : kind \in Kinds}
                    \cup {objects \ {<<u, kind>>} : kind \in Kinds}
    /\ auditedOrphans' \in {auditedOrphans}
                           \cup {auditedOrphans \cup {<<u, kind>>} : kind \in Kinds}
    /\ silentOrphans' \in {silentOrphans} \cup {silentOrphans \cup {<<u, kind>>} : kind \in Kinds}
    /\ lateOrphans' \in {lateOrphans} \cup {lateOrphans \cup {<<u, kind>>} : kind \in Kinds}
    /\ \/ inflight' = inflight
       \/ \E op \in {"put", "delete"}, kind \in Kinds :
             inflight' \in {inflight \cup {<<op, u, kind>>}, inflight \ {<<op, u, kind>>}}
    /\ undecided' \in {undecided, undecided \cup {u}, undecided \ {u}}
    /\ overtaken' \in {overtaken, overtaken \cup {u}}
    /\ pastDeadline' \in {pastDeadline, pastDeadline \cup {u}}
    /\ runsOn' \in {runsOn, [runsOn EXCEPT ![u] = NoApi]}
    /\ UNCHANGED <<assetStatus, snapshots, intakeJob, uploadRoute, assetOf>>

LEMMA MovesOnlyFits ==
    ASSUME DataAssetInv, NEW u \in Uploads, MovesOnly(u)
    PROVE  DataAssetTypeOK' /\ OnlyUpload(u)
<1>1. DataAssetTypeOK
  BY DEF DataAssetInv
<1>2. /\ objects' \subseteq Uploads \X Kinds
      /\ \A v \in Uploads \ {u} : \A kind \in Kinds : Stored(v, kind)' <=> Stored(v, kind)
  BY <1>1 DEF MovesOnly, DataAssetTypeOK, Stored
<1>3. /\ auditedOrphans' \subseteq Uploads \X Kinds /\ auditedOrphans \subseteq auditedOrphans'
      /\ silentOrphans' \subseteq Uploads \X Kinds /\ silentOrphans \subseteq silentOrphans'
      /\ lateOrphans' \subseteq Uploads \X Kinds /\ lateOrphans \subseteq lateOrphans'
  BY <1>1 DEF MovesOnly, DataAssetTypeOK
<1>4. /\ uploadStage' \in [Uploads -> Outside \cup LocalStages \cup TableStages]
      /\ workerStage' \in [Uploads -> Outside \cup WorkerStages]
      /\ written' \in [Uploads -> SUBSET Kinds]
      /\ \A v \in Uploads \ {u} : /\ uploadStage'[v] = uploadStage[v]
                                  /\ workerStage'[v] = workerStage[v] /\ written'[v] = written[v]
  BY <1>1 DEF MovesOnly, DataAssetTypeOK
<1>5. /\ runsOn' \in [Uploads -> UploadApis \cup {NoApi}] /\ pastDeadline' \subseteq Uploads
      /\ UNCHANGED <<assetStatus, snapshots, intakeJob, uploadRoute, assetOf>>
  BY <1>1 DEF MovesOnly, DataAssetTypeOK
<1>6. /\ inflight' \subseteq {"put", "delete"} \X Uploads \X Kinds
      /\ \A v \in Uploads \ {u} : \A kind \in Kinds :
            (Coming(v, kind)' <=> Coming(v, kind)) /\ (Leaving(v, kind)' <=> Leaving(v, kind))
  <2>1. CASE inflight' = inflight
    BY <1>1, <2>1 DEF DataAssetTypeOK, Coming, Leaving
  <2>2. CASE inflight' # inflight
    <3>1. PICK op \in {"put", "delete"}, kind \in Kinds :
             inflight' \in {inflight \cup {<<op, u, kind>>}, inflight \ {<<op, u, kind>>}}
      BY <2>2 DEF MovesOnly
    <3> QED
      BY <1>1, <3>1 DEF DataAssetTypeOK, Coming, Leaving
  <2> QED
    BY <2>1, <2>2
<1>7. /\ undecided' \subseteq Uploads /\ overtaken' \subseteq Uploads
      /\ \A v \in Uploads \ {u} : /\ v \in undecided' <=> v \in undecided
                                  /\ v \in overtaken' <=> v \in overtaken
  BY <1>1 DEF MovesOnly, DataAssetTypeOK
<1>8. DataAssetTypeOK'
  BY <1>1, <1>2, <1>3, <1>4, <1>5, <1>6, <1>7 DEF DataAssetTypeOK
<1>9. \A v \in Uploads \ {u} : \A kind \in Kinds : StoredAsBefore(v, kind)
  BY <1>2, <1>3, <1>6 DEF StoredAsBefore, Listed
<1>10. OnlyUpload(u)
  BY <1>4, <1>5, <1>7, <1>9 DEF OnlyUpload
<1> QED
  BY <1>8, <1>10

LEMMA MoveStep ==
    ASSUME DataAssetInv, NEW u \in Uploads, MovesOnly(u), UploadKnows(u)',
           uploadStage[u] # "idle", uploadStage'[u] # "idle",
           assetOf[u] = u /\ uploadStage'[u] \in LocalStages => uploadStage[u] \in LocalStages,
           assetOf[u] = u /\ uploadStage'[u] \in {"putTable", "enqueue"} =>
              uploadStage[u] \in {"putTable", "enqueue"},
           assetOf[u] = u /\ u \in undecided' => \/ u \in undecided
              \/ assetStatus[u] \in IF Enqueueing(u) THEN {"none"} ELSE {"processing", "ready"},
           \A a \in Uploads : InPublication(u, a) => InPublication(u, a)'
    PROVE  DataAssetInv'
<1>1. DataAssetTypeOK' /\ OnlyUpload(u)
  BY MovesOnlyFits
<1>2. UNCHANGED <<assetStatus, snapshots, intakeJob, uploadRoute, assetOf>>
  BY DEF MovesOnly
<1>3. AssetAwaits(u)' /\ ReadyIfPublished(u)'
  BY <1>2, UploadFacts DEF AssetAwaits, ReadyIfPublished, Enqueueing
<1>4. \A a \in Uploads : u \in ToSet(snapshots'[a]) => InPublication(u, a)'
  BY <1>2, UploadFacts
<1> QED
  BY <1>1, <1>2, <1>3, <1>4, UploadStep

\* Where an upload goes, where its worker goes.
LEMMA GoingOn ==
    ASSUME DataAssetTypeOK, NEW u \in Uploads, NEW at, GoOn(u, at)
    PROVE  /\ uploadStage' = [uploadStage EXCEPT ![u] = at] /\ uploadStage'[u] = at
           /\ workerStage' = [workerStage EXCEPT ![u] = workerStage[u]]
           /\ workerStage' = workerStage
           /\ workerStage[u] \in Outside \cup WorkerStages
  BY DEF GoOn, DataAssetTypeOK

LEMMA WorkingOn ==
    ASSUME DataAssetTypeOK, NEW u \in Uploads, NEW at, WorkOn(u, at)
    PROVE  /\ workerStage' = [workerStage EXCEPT ![u] = at] /\ workerStage'[u] = at
           /\ uploadStage' = [uploadStage EXCEPT ![u] = uploadStage[u]]
           /\ uploadStage' = uploadStage
           /\ uploadStage[u] \in Outside \cup LocalStages \cup TableStages
  BY DEF WorkOn, DataAssetTypeOK

LEMMA ParseLocalGood ==
    ASSUME DataAssetInv, NEW u \in Uploads, ParseLocal(u) PROVE DataAssetInv'
<1>1. DataAssetTypeOK /\ UploadKnows(u) /\ written[u] \in SUBSET Kinds
      /\ written = [written EXCEPT ![u] = written[u]]
  BY UploadFacts DEF DataAssetTypeOK
<1>2. /\ uploadStage[u] = "parse"
      /\ UNCHANGED <<assetStatus, snapshots, intakeJob, pastDeadline, objects, inflight,
                     uploadRoute, assetOf, runsOn, written, auditedOrphans, silentOrphans,
                     lateOrphans, undecided, overtaken>>
  BY DEF ParseLocal, RowsUnchanged, Identity, storeVars, orphanVars, commitVars
<1>3. PICK at \in {"putSource", "cleanNormalized"} : GoOn(u, at)
  BY DEF ParseLocal
<1>4. /\ uploadStage' = [uploadStage EXCEPT ![u] = at] /\ uploadStage'[u] = at
      /\ workerStage' = [workerStage EXCEPT ![u] = workerStage[u]] /\ workerStage' = workerStage
      /\ workerStage[u] \in Outside \cup WorkerStages
  BY <1>1, <1>3, GoingOn
<1>5. MovesOnly(u)
  BY <1>1, <1>2, <1>4 DEF MovesOnly, LocalStages
<1>6. UploadKnows(u)'
  BY <1>1, <1>2, <1>4 DEF UploadKnows, Stored, Coming, Leaving, Listed, LocalStages, TableStages
<1>7. \A a \in Uploads : InPublication(u, a) => InPublication(u, a)'
  BY <1>1, <1>2 DEF InPublication, UploadKnows, LocalStages
<1> QED
  BY <1>2, <1>4, <1>5, <1>6, <1>7, MoveStep DEF LocalStages

\* A PUT of u's own object, and what becomes of it.
LEMMA PutFacts ==
    ASSUME NEW u, NEW kind, NEW success, NEW failure, Put(u, kind, success, failure)
    PROVE  \E at \in {success, failure} :
              /\ GoOn(u, at)
              /\ \/ at = success /\ objects' = objects \cup {<<u, kind>>} /\ inflight' = inflight
                 \/ /\ at = failure /\ objects' = objects
                    /\ inflight' = inflight \cup {<<"put", u, kind>>}
  BY DEF Put, Acknowledged, Unanswered, Performed

LEMMA PutLocalGood ==
    ASSUME DataAssetInv, NEW u \in Uploads, PutSource(u) \/ PutNormalized(u)
    PROVE  DataAssetInv'
<1>1. /\ DataAssetTypeOK /\ UploadKnows(u) /\ written[u] \in SUBSET Kinds
      /\ "source" \in Kinds /\ "normalized" \in Kinds
  BY UploadFacts DEF DataAssetTypeOK, Kinds
<1>2. PICK kind \in Kinds, next \in {"putNormalized", "persist"} :
         /\ uploadStage[u] \in {"putSource", "putNormalized"}
         /\ kind = "source" <=> uploadStage[u] = "putSource"
         /\ kind = "source" <=> next = "putNormalized"
         /\ written' = [written EXCEPT ![u] = @ \cup {kind}]
         /\ Put(u, kind, next, "cleanNormalized")
         /\ UNCHANGED <<assetStatus, snapshots, intakeJob, pastDeadline, uploadRoute, assetOf,
                        runsOn, auditedOrphans, silentOrphans, lateOrphans, undecided, overtaken>>
  BY <1>1 DEF PutSource, PutNormalized, RowsUnchanged, Identity, orphanVars, commitVars
<1>3. PICK at \in {next, "cleanNormalized"} :
         /\ GoOn(u, at)
         /\ \/ at = next /\ objects' = objects \cup {<<u, kind>>} /\ inflight' = inflight
            \/ /\ at = "cleanNormalized" /\ objects' = objects
               /\ inflight' = inflight \cup {<<"put", u, kind>>}
  BY <1>2, PutFacts
<1>4. /\ uploadStage' = [uploadStage EXCEPT ![u] = at] /\ uploadStage'[u] = at
      /\ workerStage' = [workerStage EXCEPT ![u] = workerStage[u]] /\ workerStage' = workerStage
      /\ workerStage[u] \in Outside \cup WorkerStages
  BY <1>1, <1>3, GoingOn
<1>5. written[u] \cup {kind} \in SUBSET Kinds /\ written'[u] = written[u] \cup {kind}
  BY <1>1, <1>2 DEF DataAssetTypeOK
<1>6. MovesOnly(u)
  BY <1>1, <1>2, <1>3, <1>4, <1>5 DEF MovesOnly, LocalStages
<1>7. \A k \in Kinds :
         /\ Stored(u, k) => Stored(u, k)'
         /\ Stored(u, k)' \/ Coming(u, k)' => Stored(u, k) \/ Coming(u, k) \/ k = kind
         /\ Leaving(u, k)' => Leaving(u, k)
  BY <1>3 DEF Stored, Coming, Leaving
<1>8. UploadKnows(u)'
  <2>1. /\ uploadRoute'[u] = "local"
        /\ \A k \in Kinds : Stored(u, k)' \/ Coming(u, k)' => k \in written'[u]
        /\ \A k \in Kinds : ~Leaving(u, k)'
    BY <1>1, <1>2, <1>5, <1>7 DEF UploadKnows, LocalStages
  <2>2. /\ at \in {"putNormalized", "persist"} => Stored(u, "source")'
        /\ at = "persist" => Stored(u, "normalized")'
    BY <1>1, <1>2, <1>3, <1>7 DEF UploadKnows, Stored, Kinds
  <2>3. intakeJob'[u] = "none" /\ workerStage'[u] = "idle" /\ u \notin undecided'
    BY <1>1, <1>2, <1>4 DEF UploadKnows, LocalStages
  <2> QED
    BY <1>2, <1>4, <2>1, <2>2, <2>3 DEF UploadKnows, LocalStages, TableStages
<1>9. \A a \in Uploads : InPublication(u, a) => InPublication(u, a)'
  BY <1>1, <1>2 DEF InPublication, UploadKnows, LocalStages
<1> QED
  BY <1>2, <1>4, <1>6, <1>8, <1>9, MoveStep DEF LocalStages

LEMMA CleanGood ==
    ASSUME DataAssetInv, NEW u \in Uploads, CleanNormalized(u) \/ CleanSource(u)
    PROVE  DataAssetInv'
<1>1. /\ DataAssetTypeOK /\ UploadKnows(u) /\ written[u] \in SUBSET Kinds
      /\ "source" \in Kinds /\ "normalized" \in Kinds
      /\ written = [written EXCEPT ![u] = written[u]]
  BY UploadFacts DEF DataAssetTypeOK, Kinds
<1>2. PICK kind \in Kinds, next \in {"cleanSource", "markFailed"} :
         /\ uploadStage[u] \in {"cleanNormalized", "cleanSource"}
         /\ kind = "normalized" <=> uploadStage[u] = "cleanNormalized"
         /\ kind = "normalized" <=> next = "cleanSource"
         /\ Discard(u, kind) /\ GoOn(u, next)
         /\ UNCHANGED <<assetStatus, snapshots, intakeJob, pastDeadline, uploadRoute, assetOf,
                        runsOn, written, undecided, overtaken>>
  BY <1>1 DEF CleanNormalized, CleanSource, RowsUnchanged, Identity, commitVars
<1>3. /\ uploadStage' = [uploadStage EXCEPT ![u] = next] /\ uploadStage'[u] = next
      /\ workerStage' = [workerStage EXCEPT ![u] = workerStage[u]] /\ workerStage' = workerStage
      /\ workerStage[u] \in Outside \cup WorkerStages
  BY <1>1, <1>2, GoingOn
<1>4. /\ \/ kind \notin written[u] /\ objects' = objects
         \/ objects' = objects \ {<<u, kind>>}
         \/ /\ objects' = objects
            /\ <<u, kind>> \in auditedOrphans' \cup silentOrphans' \cup lateOrphans'
      /\ inflight' \in {inflight, inflight \cup {<<"delete", u, kind>>}}
      /\ auditedOrphans' \in {auditedOrphans, auditedOrphans \cup {<<u, kind>>}}
      /\ silentOrphans' \in {silentOrphans, silentOrphans \cup {<<u, kind>>}}
      /\ lateOrphans' = lateOrphans
  BY <1>2 DEF Discard, Acknowledged, Unanswered, Performed, storeVars, orphanVars
<1>5. MovesOnly(u)
  BY <1>1, <1>2, <1>3, <1>4 DEF MovesOnly, LocalStages
<1>6. /\ \A k \in Kinds : /\ Stored(u, k)' => Stored(u, k)
                          /\ Coming(u, k)' => Coming(u, k)
                          /\ Listed(u, k) => Listed(u, k)'
      /\ Stored(u, kind)' => Listed(u, kind)'
  <2>1. Stored(u, kind) => kind \in written[u]
    BY <1>1, <1>2 DEF UploadKnows, LocalStages
  <2> QED
    BY <1>4, <2>1 DEF Stored, Coming, Listed
<1>7. UploadKnows(u)'
  <2>1. /\ uploadRoute[u] = "local" /\ intakeJob[u] = "none" /\ workerStage[u] = "idle"
        /\ \A k \in Kinds : Stored(u, k) \/ Coming(u, k) => k \in written[u]
        /\ u \notin undecided
    BY <1>1, <1>2 DEF UploadKnows, LocalStages
  <2>2. /\ Stored(u, "normalized")' => Listed(u, "normalized")'
        /\ next = "markFailed" /\ Stored(u, "source")' => Listed(u, "source")'
    BY <1>1, <1>2, <1>6 DEF UploadKnows, Kinds
  <2> QED
    BY <1>2, <1>3, <1>6, <2>1, <2>2 DEF UploadKnows, LocalStages, TableStages
<1>8. \A a \in Uploads : InPublication(u, a) => InPublication(u, a)'
  BY <1>1, <1>2 DEF InPublication, UploadKnows, LocalStages
<1> QED
  BY <1>2, <1>3, <1>5, <1>7, <1>8, MoveStep DEF LocalStages

\* The uploads that go through a worker.
LEMMA PutTableGood ==
    ASSUME DataAssetInv, NEW u \in Uploads, PutTable(u) PROVE DataAssetInv'
<1>1. /\ DataAssetTypeOK /\ UploadKnows(u) /\ written[u] \in SUBSET Kinds
      /\ "source" \in Kinds /\ written = [written EXCEPT ![u] = written[u]]
  BY UploadFacts DEF DataAssetTypeOK, Kinds
<1>2. /\ uploadStage[u] = "putTable" /\ Put(u, "source", "enqueue", "compensate")
      /\ UNCHANGED <<assetStatus, snapshots, intakeJob, pastDeadline, uploadRoute, assetOf,
                     runsOn, written, auditedOrphans, silentOrphans, lateOrphans, undecided,
                     overtaken>>
  BY DEF PutTable, RowsUnchanged, Identity, orphanVars, commitVars
<1>3. PICK at \in {"enqueue", "compensate"} :
         /\ GoOn(u, at)
         /\ \/ objects' = objects \cup {<<u, "source">>} /\ inflight' = inflight
            \/ objects' = objects /\ inflight' = inflight \cup {<<"put", u, "source">>}
  BY <1>2, PutFacts
<1>4. /\ uploadStage' = [uploadStage EXCEPT ![u] = at] /\ uploadStage'[u] = at
      /\ workerStage' = [workerStage EXCEPT ![u] = workerStage[u]] /\ workerStage' = workerStage
      /\ workerStage[u] \in Outside \cup WorkerStages
  BY <1>1, <1>3, GoingOn
<1>5. MovesOnly(u)
  BY <1>1, <1>2, <1>3, <1>4 DEF MovesOnly, TableStages
<1>6. Leaving(u, "normalized")' <=> Leaving(u, "normalized")
  BY <1>3 DEF Leaving
<1>7. /\ intakeJob[u] = "none" /\ uploadRoute[u] = "table"
      /\ workerStage[u] = "idle" /\ u \notin undecided
  BY <1>1, <1>2 DEF UploadKnows, TableStages
<1>8. UploadKnows(u)'
  BY <1>1, <1>2, <1>4, <1>6, <1>7 DEF UploadKnows, LocalStages, TableStages, BeforeCommit
<1>9. \A a \in Uploads : InPublication(u, a) => InPublication(u, a)'
  BY <1>7 DEF InPublication
<1> QED
  BY <1>2, <1>4, <1>5, <1>8, <1>9, MoveStep DEF LocalStages

LEMMA CompensateGood ==
    ASSUME DataAssetInv, NEW u \in Uploads, Compensate(u) PROVE DataAssetInv'
<1>1. /\ DataAssetTypeOK /\ UploadKnows(u) /\ written[u] \in SUBSET Kinds
      /\ "source" \in Kinds /\ written = [written EXCEPT ![u] = written[u]]
  BY UploadFacts DEF DataAssetTypeOK, Kinds
<1>2. /\ uploadStage[u] = "compensate" /\ GoOn(u, "over")
      /\ objects' \in {objects, objects \ {<<u, "source">>}}
      /\ inflight' \in {inflight, inflight \cup {<<"delete", u, "source">>}}
      /\ UNCHANGED <<assetStatus, snapshots, intakeJob, pastDeadline, uploadRoute, assetOf,
                     runsOn, written, auditedOrphans, silentOrphans, lateOrphans, undecided,
                     overtaken>>
  BY DEF Compensate, Acknowledged, Unanswered, Performed, RowsUnchanged, Identity, orphanVars,
     commitVars
<1>3. /\ uploadStage' = [uploadStage EXCEPT ![u] = "over"] /\ uploadStage'[u] = "over"
      /\ workerStage' = [workerStage EXCEPT ![u] = workerStage[u]] /\ workerStage' = workerStage
      /\ workerStage[u] \in Outside \cup WorkerStages
  BY <1>1, <1>2, GoingOn
<1>4. MovesOnly(u)
  BY <1>1, <1>2, <1>3 DEF MovesOnly, Outside
<1>5. /\ Stored(u, "normalized")' <=> Stored(u, "normalized")
      /\ Leaving(u, "normalized")' <=> Leaving(u, "normalized")
  BY <1>2 DEF Stored, Leaving
<1>6. /\ uploadRoute[u] = "table" /\ (ResultKept(u)' <=> ResultKept(u))
      /\ Enqueueing(u)' <=> Enqueueing(u)
  BY <1>1, <1>2, <1>3, <1>5 DEF UploadKnows, TableStages, ResultKept, Enqueueing
<1>7. UploadKnows(u)'
  BY <1>1, <1>2, <1>3, <1>5, <1>6 DEF UploadKnows, LocalStages, TableStages
<1>8. \A a \in Uploads : InPublication(u, a) => InPublication(u, a)'
  BY <1>2, <1>6 DEF InPublication
<1> QED
  BY <1>2, <1>3, <1>4, <1>7, <1>8, MoveStep DEF LocalStages

\* A worker that has a job: its upload is on the table route, and has begun.
LEMMA WorkerFacts ==
    ASSUME DataAssetInv, NEW u \in Uploads, intakeJob[u] # "none"
    PROVE  /\ uploadRoute[u] = "table" /\ uploadStage[u] \in {"over", "compensate"}
           /\ assetOf[u] \in Uploads
<1>1. DataAssetTypeOK /\ UploadKnows(u) /\ AssetAwaits(u)
  BY UploadFacts
<1>2. uploadRoute[u] = "table" /\ uploadStage[u] \in {"over", "compensate"}
  BY <1>1 DEF UploadKnows, DataAssetTypeOK, Outside, LocalStages, TableStages
<1> QED
  BY <1>1, <1>2 DEF AssetAwaits

LEMMA ImportStep ==
    ASSUME DataAssetInv, NEW u \in Uploads, workerStage[u] \in WorkerStages,
           NEW at \in (WorkerStages \cup {"over"}), WorkOn(u, at),
           at \in BeforeCommit => workerStage[u] \in BeforeCommit,
           at = "commit" => Stored(u, "normalized")',
           at = "removeResult" => ~Published(u) /\ (u \in undecided => u \in overtaken'),
           NEW ks \in SUBSET Kinds, written' = [written EXCEPT ![u] = ks],
           \/ /\ objects' \in {objects, objects \cup {<<u, "normalized">>}}
              /\ inflight' \in {inflight, inflight \cup {<<"put", u, "normalized">>}}
           \/ /\ workerStage[u] = "removeResult"
              /\ objects' \in {objects, objects \ {<<u, "normalized">>}}
              /\ inflight' \in {inflight, inflight \cup {<<"delete", u, "normalized">>}},
           overtaken' \in {overtaken, overtaken \cup {u}},
           \/ undecided' = undecided
           \/ /\ undecided' = undecided \cup {u} /\ workerStage[u] = "commit" /\ at = "failJob"
              /\ intakeJob[u] = "running" /\ Persistable(u),
           UNCHANGED <<assetStatus, snapshots, intakeJob, pastDeadline, uploadRoute, assetOf,
                       runsOn, auditedOrphans, silentOrphans, lateOrphans>>
    PROVE  DataAssetInv'
<1>1. DataAssetTypeOK /\ UploadKnows(u) /\ AssetAwaits(u) /\ "normalized" \in Kinds
  BY UploadFacts DEF Kinds
<1>2. intakeJob[u] \notin {"none", "queued"}
  BY <1>1 DEF UploadKnows, WorkerStages
<1>3. /\ uploadRoute[u] = "table" /\ uploadStage[u] \in {"over", "compensate"}
      /\ assetOf[u] \in Uploads
  BY <1>2, WorkerFacts
<1>4. /\ workerStage' = [workerStage EXCEPT ![u] = at] /\ workerStage'[u] = at
      /\ uploadStage' = [uploadStage EXCEPT ![u] = uploadStage[u]] /\ uploadStage' = uploadStage
      /\ uploadStage[u] \in Outside \cup LocalStages \cup TableStages
  BY <1>1, WorkingOn
<1>5. MovesOnly(u)
  BY <1>1, <1>4 DEF MovesOnly, Outside
<1>6. at # "idle"
  BY DEF WorkerStages
<1>7. ResultKept(u) /\ (at = "removeResult" => u \in overtaken') => ResultKept(u)'
  BY <1>3, <1>4 DEF ResultKept, Stored, Leaving
<1>8. at \in BeforeCommit => ~Leaving(u, "normalized")'
  <2>1. "removeResult" \notin BeforeCommit
    BY DEF BeforeCommit
  <2> QED
    BY <1>1, <1>3, <2>1 DEF UploadKnows, Leaving
<1>9. workerStage[u] = "commit" => ResultKept(u)
  BY <1>1, <1>3 DEF UploadKnows, ResultKept, BeforeCommit
<1>10. u \in undecided' => /\ intakeJob[u] = "running" /\ ResultKept(u)' /\ at \notin BeforeCommit
                           /\ u \in undecided \/ Persistable(u)
  <2>1. CASE u \in undecided
    <3>1. ResultKept(u) /\ workerStage[u] \notin BeforeCommit /\ intakeJob[u] = "running"
      BY <1>1, <1>2, <2>1 DEF UploadKnows, Enqueueing
    <3> QED
      BY <1>7, <2>1, <3>1
  <2>2. CASE u \notin undecided /\ u \in undecided'
    <3>1. at = "failJob" /\ workerStage[u] = "commit" /\ intakeJob[u] = "running" /\ Persistable(u)
      BY <2>2
    <3> QED
      BY <1>7, <1>9, <3>1 DEF BeforeCommit
  <2> QED
    BY <2>1, <2>2
<1>11. UploadKnows(u)'
  <2>1. /\ uploadRoute'[u] = "table" /\ uploadStage'[u] \in {"over", "compensate"}
        /\ intakeJob'[u] \notin {"none", "queued"} /\ workerStage'[u] # "idle"
        /\ workerStage'[u] = "commit" => Stored(u, "normalized")'
        /\ workerStage'[u] \in BeforeCommit => ~Leaving(u, "normalized")'
    BY <1>2, <1>3, <1>4, <1>6, <1>8
  <2>2. u \in undecided' => /\ intakeJob'[u] = "running" /\ ResultKept(u)'
                            /\ workerStage'[u] \notin BeforeCommit
    BY <1>4, <1>10
  <2> QED
    BY <2>1, <2>2 DEF UploadKnows, LocalStages, TableStages
<1>12. ASSUME NEW a \in Uploads, u \in ToSet(snapshots[a]) PROVE InPublication(u, a)'
  <2>1. InPublication(u, a) /\ a = assetOf[u]
    BY <1>3, <1>12, UploadFacts
  <2>2. Published(u)
    BY <1>1, <1>12, <2>1, ListedUploads DEF Published, DataAssetTypeOK
  <2>3. ResultKept(u)'
    BY <1>7, <2>1, <2>2 DEF InPublication
  <2> QED
    BY <1>3, <2>1, <2>3 DEF InPublication
<1>13. DataAssetTypeOK' /\ OnlyUpload(u)
  BY <1>5, MovesOnlyFits
<1>14. ReadyIfPublished(u)'
  BY UploadFacts DEF ReadyIfPublished
<1>15. AssetAwaits(u)'
  <2>1. assetOf[u] = u /\ u \in undecided' => assetStatus[u] \in {"processing", "ready"}
    BY <1>1, <1>2, <1>10 DEF AssetAwaits, Persistable, Enqueueing
  <2>2. ~Enqueueing(u)'
    BY <1>2 DEF Enqueueing
  <2> QED
    BY <1>1, <1>3, <1>4, <2>1, <2>2 DEF AssetAwaits, LocalStages
<1> QED
  BY <1>11, <1>12, <1>13, <1>14, <1>15, UploadStep

LEMMA WorkerMovesGood ==
    ASSUME DataAssetInv, NEW u \in Uploads,
           \/ ReadSource(u) \/ ImportTable(u) \/ PutResult(u) \/ LookForSnapshot(u)
           \/ RemoveResult(u) \/ WorkerDies(u)
    PROVE  DataAssetInv'
<1>1. DataAssetTypeOK /\ UploadKnows(u) /\ written[u] \in SUBSET Kinds
      /\ written = [written EXCEPT ![u] = written[u]]
      /\ {"normalized"} \in SUBSET Kinds /\ {} \in SUBSET Kinds
  BY UploadFacts DEF DataAssetTypeOK, Kinds
<1>2. /\ UNCHANGED <<assetStatus, snapshots, intakeJob, pastDeadline, uploadRoute, assetOf,
                     runsOn, auditedOrphans, silentOrphans, lateOrphans, undecided>>
      /\ workerStage[u] \in WorkerStages
  BY DEF ReadSource, ImportTable, PutResult, LookForSnapshot, RemoveResult, WorkerDies,
     RowsUnchanged, Identity, orphanVars, commitVars, WorkerStages
<1>3. CASE ReadSource(u) \/ ImportTable(u)
  <2>1. /\ objects' = objects /\ inflight' = inflight /\ written' = written
        /\ overtaken' = overtaken /\ workerStage[u] \in BeforeCommit
        /\ \E at \in {"import", "putResult", "failJob"} : WorkOn(u, at)
    BY <1>3 DEF ReadSource, ImportTable, storeVars, RowsUnchanged, commitVars, BeforeCommit
  <2>2. PICK at \in {"import", "putResult", "failJob"} : WorkOn(u, at)
    BY <2>1
  <2>3. at \in WorkerStages \cup {"over"} /\ at # "commit" /\ at # "removeResult"
    BY DEF WorkerStages
  <2> QED
    BY <1>1, <1>2, <2>1, <2>2, <2>3, ImportStep
<1>4. CASE PutResult(u)
  <2>1. /\ overtaken' = overtaken /\ workerStage[u] \in BeforeCommit
        /\ written' = [written EXCEPT ![u] = {"normalized"}]
    BY <1>4 DEF PutResult, RowsUnchanged, commitVars, BeforeCommit
  <2>2. PICK at \in {"commit", "failJob"} :
           /\ WorkOn(u, at)
           /\ objects' \in {objects, objects \cup {<<u, "normalized">>}}
           /\ inflight' \in {inflight, inflight \cup {<<"put", u, "normalized">>}}
           /\ at = "commit" => Stored(u, "normalized")'
    BY <1>4 DEF PutResult, Acknowledged, Unanswered, Performed, Stored
  <2>3. at \in WorkerStages \cup {"over"} /\ at # "removeResult"
    BY DEF WorkerStages
  <2> QED
    BY <1>1, <1>2, <2>1, <2>2, <2>3, ImportStep
<1>5. CASE LookForSnapshot(u)
  <2>1. objects' = objects /\ inflight' = inflight
    BY <1>5 DEF LookForSnapshot, storeVars
  <2>2. PICK at \in {"over", "removeResult"}, ks \in SUBSET Kinds :
           /\ WorkOn(u, at) /\ written' = [written EXCEPT ![u] = ks]
           /\ overtaken' \in {overtaken, overtaken \cup {u}}
           /\ at = "removeResult" => ~Published(u) /\ (u \in undecided => u \in overtaken')
    <3>1. CASE /\ ~Published(u) /\ WorkOn(u, "removeResult") /\ UNCHANGED written
               /\ overtaken' = overtaken \cup ({u} \cap undecided)
      <4>1. /\ overtaken' \in {overtaken, overtaken \cup {u}}
            /\ u \in undecided => u \in overtaken'
        BY <3>1
      <4> QED
        BY <1>1, <3>1, <4>1
    <3>2. CASE WorkOn(u, "over") /\ written' = [written EXCEPT ![u] = {}] /\ UNCHANGED overtaken
      BY <1>1, <3>2
    <3> QED
      BY <1>5, <3>1, <3>2 DEF LookForSnapshot
  <2>3. at \in WorkerStages \cup {"over"} /\ at \notin BeforeCommit /\ at # "commit"
    BY DEF WorkerStages, BeforeCommit
  <2> QED
    BY <1>2, <2>1, <2>2, <2>3, ImportStep
<1>6. CASE RemoveResult(u) \/ WorkerDies(u)
  <2>1. /\ WorkOn(u, "over") /\ written' = [written EXCEPT ![u] = {}]
        /\ overtaken' = overtaken
        /\ \/ objects' = objects /\ inflight' = inflight
           \/ /\ workerStage[u] = "removeResult"
              /\ objects' \in {objects, objects \ {<<u, "normalized">>}}
              /\ inflight' \in {inflight, inflight \cup {<<"delete", u, "normalized">>}}
    BY <1>6 DEF RemoveResult, WorkerDies, Acknowledged, Unanswered, Performed, storeVars,
       RowsUnchanged, commitVars
  <2>2. PICK at \in {"over"} : WorkOn(u, at)
    BY <2>1
  <2>3. /\ at \in WorkerStages \cup {"over"} /\ at # "commit" /\ at # "removeResult"
        /\ at \notin BeforeCommit
    BY DEF BeforeCommit
  <2> QED
    BY <1>1, <1>2, <2>1, <2>2, <2>3, ImportStep
<1> QED
  BY <1>3, <1>4, <1>5, <1>6

LEMMA DeadlinePassesGood ==
    ASSUME DataAssetInv, NEW u \in Uploads, DeadlinePasses(u) PROVE DataAssetInv'
<1>1. /\ DataAssetTypeOK
      /\ \A v \in Uploads : UploadKnows(v) /\ AssetAwaits(v) /\ ReadyIfPublished(v)
      /\ \A a \in Uploads : \A s \in ToSet(snapshots[a]) : InPublication(s, a)
  BY DEF DataAssetInv
<1>2. /\ UNCHANGED <<assetStatus, snapshots, objects, inflight, undecided, uploadStage,
                     workerStage, uploadRoute, assetOf, runsOn, written, auditedOrphans,
                     silentOrphans, lateOrphans, overtaken, intakeJob>>
      /\ pastDeadline' = pastDeadline \cup {u}
  BY DEF DeadlinePasses, uploadVars, storeVars, orphanVars, commitVars
<1>3. DataAssetTypeOK'
  BY <1>1, <1>2 DEF DataAssetTypeOK
<1>4. \A v \in Uploads : UploadKnows(v)' /\ AssetAwaits(v)' /\ ReadyIfPublished(v)'
  <2>1. \A v \in Uploads : Same(v)
    BY <1>2 DEF Same, StoredAsBefore, Stored, Coming, Leaving, Listed
  <2>2. \A v \in Uploads : AssetAwaits(v)'
    BY <1>1, <1>2 DEF AssetAwaits, Enqueueing
  <2> QED
    BY <1>1, <1>2, <2>1, <2>2, SameKnows DEF ReadyIfPublished
<1>5. \A a \in Uploads : \A s \in ToSet(snapshots'[a]) : InPublication(s, a)'
  BY <1>1, <1>2 DEF InPublication, ResultKept, SourceKept, Stored, Leaving
<1> QED
  BY <1>3, <1>4, <1>5 DEF DataAssetInv

LEMMA ApiDiesGood ==
    ASSUME DataAssetInv, NEW u \in Uploads, ApiDies(u) PROVE DataAssetInv'
<1>1. DataAssetTypeOK /\ UploadKnows(u)
  BY UploadFacts
<1>2. /\ uploadStage[u] \in LocalStages \cup TableStages /\ GoOn(u, "over")
      /\ written' = [written EXCEPT ![u] = {}] /\ runsOn' = [runsOn EXCEPT ![u] = NoApi]
      /\ UNCHANGED <<assetStatus, snapshots, intakeJob, pastDeadline, uploadRoute, assetOf,
                     objects, inflight, auditedOrphans, silentOrphans, lateOrphans, undecided,
                     overtaken>>
  BY DEF ApiDies, EndUpload, RowsUnchanged, storeVars, orphanVars, commitVars
<1>3. /\ uploadStage' = [uploadStage EXCEPT ![u] = "over"] /\ uploadStage'[u] = "over"
      /\ workerStage' = [workerStage EXCEPT ![u] = workerStage[u]] /\ workerStage' = workerStage
      /\ workerStage[u] \in Outside \cup WorkerStages
  BY <1>1, <1>2, GoingOn
<1>4. MovesOnly(u)
  BY <1>2, <1>3 DEF MovesOnly, Outside
<1>5. /\ (ResultKept(u)' <=> ResultKept(u)) /\ (SourceKept(u)' <=> SourceKept(u))
      /\ Enqueueing(u)' <=> Enqueueing(u)
  BY <1>2, <1>3 DEF ResultKept, SourceKept, Enqueueing, Stored, Leaving
<1>6. UploadKnows(u)'
  BY <1>1, <1>2, <1>3, <1>5 DEF UploadKnows, LocalStages, TableStages, Stored, Leaving
<1>7. \A a \in Uploads : InPublication(u, a) => InPublication(u, a)'
  BY <1>1, <1>2, <1>3, <1>5 DEF InPublication
<1> QED
  BY <1>2, <1>3, <1>4, <1>6, <1>7, MoveStep DEF LocalStages, TableStages

\* An upload that begins, on an asset of its own or on one that is ready.
LEMMA UploadBegins ==
    ASSUME DataAssetInv, NEW u \in Uploads, AdmitLocal(u) \/ AcceptTable(u) PROVE DataAssetInv'
<1>1. DataAssetTypeOK /\ UploadKnows(u) /\ AssetAwaits(u) /\ ReadyIfPublished(u)
  BY UploadFacts
<1>2. /\ uploadStage[u] = "idle" /\ assetStatus[u] = "none" /\ uploadRoute[u] = "none"
      /\ intakeJob[u] = "none" /\ u \notin undecided
      /\ \A kind \in Kinds : ~Stored(u, kind) /\ ~Coming(u, kind) /\ ~Leaving(u, kind)
  BY <1>1 DEF AdmitLocal, AcceptTable, UploadKnows, AssetAwaits
<1>3. UNCHANGED <<snapshots, objects, inflight, written, auditedOrphans, silentOrphans,
                  lateOrphans, undecided, overtaken, intakeJob, pastDeadline>>
  BY DEF AdmitLocal, AcceptTable, storeVars, orphanVars, commitVars
<1>4. PICK at \in {"parse", "putTable"} :
         /\ GoOn(u, at)
         /\ uploadRoute' = [uploadRoute EXCEPT ![u] = IF at = "parse" THEN "local" ELSE "table"]
  BY DEF AdmitLocal, AcceptTable
<1>5. /\ uploadStage' = [uploadStage EXCEPT ![u] = at] /\ uploadStage'[u] = at
      /\ workerStage' = workerStage
  BY <1>1, <1>4, GoingOn
<1>6. PICK a \in Targets(u) :
         /\ assetOf' = [assetOf EXCEPT ![u] = a]
         /\ \/ assetStatus' = assetStatus /\ (a = u => at # "parse")
            \/ a = u /\ at = "parse" /\ assetStatus' = [assetStatus EXCEPT ![u] = "processing"]
  <2>1. CASE AdmitLocal(u)
    <3>1. at = "parse"
      BY <1>1, <1>5, <2>1, GoingOn DEF AdmitLocal
    <3> QED
      BY <2>1, <3>1 DEF AdmitLocal
  <2>2. CASE AcceptTable(u)
    <3>1. at = "putTable"
      BY <1>1, <1>5, <2>2, GoingOn DEF AcceptTable
    <3> QED
      BY <2>2, <3>1 DEF AcceptTable
  <2> QED
    BY <2>1, <2>2
<1>7. a \in Uploads /\ (a # u => assetStatus[a] = "ready")
  BY DEF Targets
<1>8. runsOn' \in [Uploads -> UploadApis \cup {NoApi}]
  BY <1>1 DEF AdmitLocal, AcceptTable, DataAssetTypeOK
<1>9. /\ assetOf' \in [Uploads -> Uploads \cup {NoAsset}] /\ assetOf'[u] = a
      /\ \A v \in Uploads \ {u} : assetOf'[v] = assetOf[v]
  BY <1>1, <1>6, <1>7 DEF DataAssetTypeOK
<1>10. /\ assetStatus' \in [Uploads -> {"none", "processing", "ready", "failed"}]
       /\ \A v \in Uploads \ {u} : assetStatus'[v] = assetStatus[v]
       /\ assetStatus'[u] # "ready"
       /\ a = u => assetStatus'[u] = IF at = "parse" THEN "processing" ELSE "none"
  BY <1>1, <1>2, <1>6 DEF DataAssetTypeOK
<1>11. /\ uploadStage' \in [Uploads -> Outside \cup LocalStages \cup TableStages]
       /\ uploadRoute' \in [Uploads -> {"none", "local", "table"}]
       /\ uploadRoute'[u] = IF at = "parse" THEN "local" ELSE "table"
       /\ \A v \in Uploads \ {u} : /\ uploadStage'[v] = uploadStage[v]
                                   /\ uploadRoute'[v] = uploadRoute[v]
  BY <1>1, <1>4, <1>5 DEF DataAssetTypeOK, LocalStages, TableStages
<1>12. DataAssetTypeOK'
  BY <1>1, <1>3, <1>5, <1>8, <1>9, <1>10, <1>11 DEF DataAssetTypeOK
<1>13. OnlyUpload(u)
  BY <1>2, <1>3, <1>5, <1>9, <1>10, <1>11 DEF OnlyUpload, StoredAsBefore, Stored, Coming, Leaving,
     Listed
<1>14. UploadKnows(u)'
  BY <1>1, <1>2, <1>3, <1>5, <1>11 DEF UploadKnows, LocalStages, TableStages, Stored, Coming,
     Leaving, Kinds
<1>15. AssetAwaits(u)'
  BY <1>2, <1>3, <1>5, <1>7, <1>9, <1>10 DEF AssetAwaits, LocalStages
<1>16. snapshots[u] = <<>> /\ ReadyIfPublished(u)'
  BY <1>1, <1>2, <1>3, <1>10 DEF ReadyIfPublished
<1>17. \A b \in Uploads : u \notin ToSet(snapshots[b])
  BY <1>2, UploadFacts DEF InPublication
<1> QED
  BY <1>3, <1>12, <1>13, <1>14, <1>15, <1>16, <1>17, UploadStep

\* A step that changes the state of u's job or of the asset that it creates, which is not
\* published.
ChangesStatus(u) ==
    /\ \E at \in Outside \cup LocalStages \cup TableStages :
          uploadStage' = [uploadStage EXCEPT ![u] = at]
    /\ \E at \in Outside \cup WorkerStages : workerStage' = [workerStage EXCEPT ![u] = at]
    /\ \E ks \in SUBSET Kinds : written' = [written EXCEPT ![u] = ks]
    /\ \E job \in {"none", "queued", "running", "succeeded", "failed"} :
          intakeJob' = [intakeJob EXCEPT ![u] = job]
    /\ \/ assetStatus' = assetStatus
       \/ /\ assetStatus[u] \in {"none", "processing"} /\ uploadStage'[u] \notin LocalStages
          /\ uploadStage'[u] \notin {"putTable", "enqueue"}
          /\ \E status \in {"none", "processing", "failed"} :
                assetStatus' = [assetStatus EXCEPT ![u] = status]
    /\ runsOn' \in {runsOn, [runsOn EXCEPT ![u] = NoApi]}
    /\ undecided' \in {undecided, undecided \ {u}}
    /\ UNCHANGED <<snapshots, objects, inflight, uploadRoute, assetOf, auditedOrphans,
                   silentOrphans, lateOrphans, overtaken, pastDeadline>>

LEMMA StatusStep ==
    ASSUME DataAssetInv, NEW u \in Uploads, ChangesStatus(u), UploadKnows(u)',
           uploadStage[u] # "idle", uploadStage'[u] # "idle",
           uploadStage'[u] \in LocalStages => uploadStage[u] \in LocalStages,
           uploadStage'[u] \in {"putTable", "enqueue"} =>
              uploadStage[u] \in {"putTable", "enqueue"},
           u \in undecided' => assetStatus' = assetStatus /\ intakeJob' = intakeJob,
           \A a \in Uploads : u \in ToSet(snapshots[a]) => InPublication(u, a)'
    PROVE  DataAssetInv'
<1>1. DataAssetTypeOK /\ AssetAwaits(u) /\ ReadyIfPublished(u)
  BY UploadFacts
<1>2. /\ uploadStage' \in [Uploads -> Outside \cup LocalStages \cup TableStages]
      /\ workerStage' \in [Uploads -> Outside \cup WorkerStages]
      /\ \A v \in Uploads \ {u} :
            uploadStage'[v] = uploadStage[v] /\ workerStage'[v] = workerStage[v]
  BY <1>1 DEF DataAssetTypeOK, ChangesStatus
<1>3. /\ written' \in [Uploads -> SUBSET Kinds]
      /\ intakeJob' \in [Uploads -> {"none", "queued", "running", "succeeded", "failed"}]
      /\ \A v \in Uploads \ {u} : written'[v] = written[v] /\ intakeJob'[v] = intakeJob[v]
  BY <1>1 DEF DataAssetTypeOK, ChangesStatus
<1>4. /\ assetStatus' \in [Uploads -> {"none", "processing", "ready", "failed"}]
      /\ \A v \in Uploads \ {u} : assetStatus'[v] = assetStatus[v]
      /\ assetStatus'[u] = "ready" <=> assetStatus[u] = "ready"
      /\ assetStatus[u] \in {"ready", "failed"} => assetStatus'[u] = assetStatus[u]
      /\ uploadStage'[u] \in LocalStages \cup {"putTable", "enqueue"} =>
            assetStatus'[u] = assetStatus[u]
  <2>0. assetStatus \in [Uploads -> {"none", "processing", "ready", "failed"}]
    BY <1>1 DEF DataAssetTypeOK
  <2>1. CASE assetStatus' = assetStatus
    BY <2>0, <2>1
  <2>2. CASE assetStatus' # assetStatus
    <3>1. /\ assetStatus[u] \in {"none", "processing"} /\ uploadStage'[u] \notin LocalStages
          /\ uploadStage'[u] \notin {"putTable", "enqueue"}
      BY <2>2 DEF ChangesStatus
    <3>2. PICK status \in {"none", "processing", "failed"} :
             assetStatus' = [assetStatus EXCEPT ![u] = status]
      BY <2>2 DEF ChangesStatus
    <3> QED
      BY <2>0, <3>1, <3>2
  <2> QED
    BY <2>1, <2>2
<1>5. /\ runsOn' \in [Uploads -> UploadApis \cup {NoApi}]
      /\ undecided' \subseteq undecided /\ undecided' \subseteq Uploads
      /\ \A v \in Uploads \ {u} : v \in undecided' <=> v \in undecided
      /\ UNCHANGED <<snapshots, objects, inflight, uploadRoute, assetOf, auditedOrphans,
                     silentOrphans, lateOrphans, overtaken, pastDeadline>>
  BY <1>1 DEF DataAssetTypeOK, ChangesStatus
<1>6. DataAssetTypeOK'
  BY <1>1, <1>2, <1>3, <1>4, <1>5 DEF DataAssetTypeOK
<1>7. OnlyUpload(u)
  BY <1>2, <1>3, <1>4, <1>5 DEF OnlyUpload, StoredAsBefore, Stored, Coming, Leaving, Listed
<1>8. AssetAwaits(u)'
  <2>1. u \in undecided' => u \in undecided /\ (Enqueueing(u)' <=> Enqueueing(u))
    BY <1>5 DEF Enqueueing
  <2> QED
    BY <1>1, <1>2, <1>4, <1>5, <2>1 DEF AssetAwaits
<1>9. ReadyIfPublished(u)'
  BY <1>1, <1>4, <1>5 DEF ReadyIfPublished
<1>10. \A a \in Uploads : u \in ToSet(snapshots'[a]) => InPublication(u, a)'
  BY <1>5
<1> QED
  BY <1>5, <1>6, <1>7, <1>8, <1>9, <1>10, UploadStep

LEMMA UploadParts ==
    ASSUME DataAssetInv, NEW u \in Uploads
    PROVE  /\ uploadStage[u] \in Outside \cup LocalStages \cup TableStages
           /\ workerStage[u] \in Outside \cup WorkerStages /\ written[u] \in SUBSET Kinds
           /\ intakeJob[u] \in {"none", "queued", "running", "succeeded", "failed"}
           /\ uploadStage = [uploadStage EXCEPT ![u] = uploadStage[u]]
           /\ workerStage = [workerStage EXCEPT ![u] = workerStage[u]]
           /\ written = [written EXCEPT ![u] = written[u]]
           /\ intakeJob = [intakeJob EXCEPT ![u] = intakeJob[u]]
           /\ \A job : [intakeJob EXCEPT ![u] = job][u] = job
  BY UploadFacts DEF DataAssetTypeOK

LEMMA MarkFailedGood ==
    ASSUME DataAssetInv, NEW u \in Uploads, MarkFailed(u) PROVE DataAssetInv'
<1>1. DataAssetTypeOK /\ UploadKnows(u) /\ AssetAwaits(u)
  BY UploadFacts
<1>2. /\ uploadStage[u] = "markFailed" /\ GoOn(u, "over")
      /\ written' = [written EXCEPT ![u] = {}] /\ runsOn' = [runsOn EXCEPT ![u] = NoApi]
      /\ UNCHANGED <<snapshots, intakeJob, pastDeadline, uploadRoute, assetOf, objects, inflight,
                     auditedOrphans, silentOrphans, lateOrphans, undecided, overtaken>>
      /\ \/ assetStatus' = assetStatus
         \/ assetOf[u] = u /\ assetStatus' = [assetStatus EXCEPT ![u] = "failed"]
  BY DEF MarkFailed, EndUpload, storeVars, orphanVars, commitVars, IsNew
<1>3. /\ uploadStage' = [uploadStage EXCEPT ![u] = "over"] /\ uploadStage'[u] = "over"
      /\ workerStage' = [workerStage EXCEPT ![u] = workerStage[u]] /\ workerStage' = workerStage
      /\ workerStage[u] \in Outside \cup WorkerStages
  BY <1>1, <1>2, GoingOn
<1>4. uploadStage[u] \in LocalStages /\ uploadRoute[u] = "local" /\ u \notin undecided
  BY <1>1, <1>2 DEF UploadKnows, LocalStages
<1>5. \/ assetStatus' = assetStatus
      \/ /\ assetStatus[u] \in {"none", "processing"}
         /\ assetStatus' = [assetStatus EXCEPT ![u] = "failed"]
  BY <1>1, <1>2, <1>4 DEF AssetAwaits
<1>6. UploadKnows(u)'
  BY <1>1, <1>2, <1>3, <1>4 DEF UploadKnows, LocalStages, TableStages, Stored, Leaving
<1>7. \A a \in Uploads : u \in ToSet(snapshots[a]) => InPublication(u, a)'
  BY <1>2, <1>4, UploadFacts DEF InPublication
<1>8. ChangesStatus(u)
  BY <1>2, <1>3, <1>5, UploadParts DEF ChangesStatus, Outside, LocalStages
<1> QED
  BY <1>2, <1>3, <1>4, <1>6, <1>7, <1>8, StatusStep DEF LocalStages

LEMMA EnqueueTableGood ==
    ASSUME DataAssetInv, NEW u \in Uploads, EnqueueTable(u) PROVE DataAssetInv'
<1>1. DataAssetTypeOK /\ UploadKnows(u) /\ AssetAwaits(u)
  BY UploadFacts
<1>2. /\ uploadStage[u] = "enqueue" /\ uploadRoute[u] = "table" /\ intakeJob[u] = "none"
      /\ workerStage[u] = "idle" /\ u \notin undecided
      /\ assetOf[u] = u => assetStatus[u] = "none"
  BY <1>1 DEF EnqueueTable, UploadKnows, AssetAwaits, TableStages
<1>3. /\ UNCHANGED <<snapshots, pastDeadline, uploadRoute, assetOf, objects, inflight, runsOn,
                     written, auditedOrphans, silentOrphans, lateOrphans>>
  BY DEF EnqueueTable, Identity, storeVars, orphanVars
<1>4. \A a \in Uploads : u \notin ToSet(snapshots[a])
  BY <1>2, UploadFacts DEF InPublication
<1>5. CASE EnqueueJob(u) /\ UNCHANGED commitVars /\ GoOn(u, "over")
  <2>1. /\ uploadStage' = [uploadStage EXCEPT ![u] = "over"] /\ uploadStage'[u] = "over"
        /\ workerStage' = [workerStage EXCEPT ![u] = workerStage[u]]
        /\ workerStage' = workerStage /\ workerStage[u] \in Outside \cup WorkerStages
    BY <1>1, <1>5, GoingOn
  <2>2. /\ intakeJob' = [intakeJob EXCEPT ![u] = "queued"] /\ intakeJob'[u] = "queued"
        /\ undecided' = undecided /\ overtaken' = overtaken
        /\ \/ assetStatus' = assetStatus
           \/ /\ assetStatus[u] \in {"none", "processing"}
              /\ assetStatus' = [assetStatus EXCEPT ![u] = "processing"]
    BY <1>2, <1>5, UploadParts DEF EnqueueJob, IsNew, commitVars
  <2>3. UploadKnows(u)'
    BY <1>1, <1>2, <1>3, <2>1, <2>2 DEF UploadKnows, LocalStages, TableStages, Stored, Leaving
  <2>4. ChangesStatus(u)
    BY <1>3, <2>1, <2>2, UploadParts DEF ChangesStatus, Outside, LocalStages
  <2> QED
    BY <1>2, <1>4, <2>1, <2>2, <2>3, <2>4, StatusStep DEF LocalStages
<1>6. CASE /\ UNCHANGED <<intakeJob, assetStatus>> /\ GoOn(u, "compensate")
           /\ LosesAnswer(u) \/ UNCHANGED commitVars
  <2>1. /\ uploadStage' = [uploadStage EXCEPT ![u] = "compensate"]
        /\ uploadStage'[u] = "compensate"
        /\ workerStage' = [workerStage EXCEPT ![u] = workerStage[u]]
        /\ workerStage' = workerStage /\ workerStage[u] \in Outside \cup WorkerStages
    BY <1>1, <1>6, GoingOn
  <2>2. undecided' \in {undecided, undecided \cup {u}} /\ overtaken' = overtaken
    BY <1>6 DEF LosesAnswer, commitVars
  <2>3. Enqueueing(u) /\ Enqueueing(u)'
    BY <1>2, <1>3, <1>6 DEF Enqueueing
  <2>4. UploadKnows(u)'
    BY <1>1, <1>2, <1>3, <1>6, <2>1, <2>3 DEF UploadKnows, LocalStages, TableStages, Stored, Leaving
  <2>5. MovesOnly(u)
    BY <1>3, <1>6, <2>1, <2>2, UploadParts DEF MovesOnly, TableStages
  <2>6. \A a \in Uploads : ~InPublication(u, a)
    BY <1>2 DEF InPublication
  <2> QED
    BY <1>2, <2>1, <2>3, <2>4, <2>5, <2>6, MoveStep DEF LocalStages
<1> QED
  BY <1>5, <1>6 DEF EnqueueTable

LEMMA ClaimTableGood ==
    ASSUME DataAssetInv, NEW u \in Uploads, ClaimTable(u) PROVE DataAssetInv'
<1>1. DataAssetTypeOK /\ UploadKnows(u) /\ AssetAwaits(u)
  BY UploadFacts
<1>2. /\ intakeJob[u] = "queued" /\ intakeJob' = [intakeJob EXCEPT ![u] = "running"]
      /\ WorkOn(u, "readSource")
      /\ UNCHANGED <<assetStatus, snapshots, pastDeadline, uploadRoute, assetOf, objects,
                     inflight, runsOn, written, auditedOrphans, silentOrphans, lateOrphans,
                     undecided, overtaken>>
  BY DEF ClaimTable, Identity, storeVars, orphanVars, commitVars
<1>3. /\ uploadRoute[u] = "table" /\ uploadStage[u] \in {"over", "compensate"}
      /\ u \notin undecided /\ ~Leaving(u, "normalized")
  BY <1>1, <1>2, WorkerFacts DEF UploadKnows, BeforeCommit
<1>4. /\ workerStage' = [workerStage EXCEPT ![u] = "readSource"]
      /\ workerStage'[u] = "readSource" /\ uploadStage' = uploadStage
      /\ uploadStage' = [uploadStage EXCEPT ![u] = uploadStage[u]]
      /\ uploadStage[u] \in Outside \cup LocalStages \cup TableStages
  BY <1>1, <1>2, WorkingOn
<1>5. intakeJob'[u] = "running"
  BY <1>2, UploadParts
<1>6. UploadKnows(u)'
  BY <1>1, <1>2, <1>3, <1>4, <1>5 DEF UploadKnows, LocalStages, TableStages, Stored, Leaving
<1>7. \A a \in Uploads : u \notin ToSet(snapshots[a])
  BY <1>2, <1>3, UploadFacts DEF InPublication
<1>8. ChangesStatus(u)
  BY <1>2, <1>4, UploadParts DEF ChangesStatus, WorkerStages
<1> QED
  BY <1>2, <1>3, <1>4, <1>6, <1>7, <1>8, StatusStep

\* The worker's catch, and the sweep.
LEMMA FailJobGood ==
    ASSUME DataAssetInv, NEW u \in Uploads, FailJob(u) \/ ExpireTable(u) PROVE DataAssetInv'
<1>1. DataAssetTypeOK /\ UploadKnows(u) /\ AssetAwaits(u)
  BY UploadFacts
<1>2. UNCHANGED <<snapshots, pastDeadline, uploadRoute, assetOf, objects, inflight, runsOn,
                  written, auditedOrphans, silentOrphans, lateOrphans, undecided, overtaken>>
  BY DEF FailJob, ExpireTable, Identity, storeVars, orphanVars, commitVars, uploadVars
<1>3. intakeJob[u] \notin {"none", "queued"} /\ workerStage[u] # "idle"
  BY <1>1 DEF FailJob, ExpireTable, UploadKnows
<1>4. uploadRoute[u] = "table" /\ uploadStage[u] \in {"over", "compensate"}
  BY <1>3, WorkerFacts
<1>5. PICK at \in {workerStage[u], "finally"} :
         uploadStage' = uploadStage /\ workerStage' = [workerStage EXCEPT ![u] = at]
  <2>1. CASE FailJob(u)
    BY <1>1, <2>1, WorkingOn DEF FailJob
  <2>2. CASE ExpireTable(u)
    BY <2>2, UploadParts DEF ExpireTable, uploadVars
  <2> QED
    BY <2>1, <2>2
<1>6. /\ at \in Outside \cup WorkerStages /\ at # "idle" /\ workerStage'[u] = at
      /\ at \in BeforeCommit \cup {"removeResult"} => workerStage[u] = at
  BY <1>1, <1>3, <1>5, UploadParts DEF WorkerStages, BeforeCommit, DataAssetTypeOK
<1>7. PICK job \in {intakeJob[u], "failed"} :
         /\ intakeJob' = [intakeJob EXCEPT ![u] = job]
         /\ job # intakeJob[u] => intakeJob[u] = "running"
         /\ \/ assetStatus' = assetStatus
            \/ /\ assetStatus[u] = "processing"
               /\ assetStatus' = [assetStatus EXCEPT ![u] = "failed"]
         /\ u \in undecided => job = intakeJob[u] /\ assetStatus' = assetStatus
  <2>1. CASE u \notin undecided /\ intakeJob[u] = "running" /\ FailTableJob(u)
    BY <2>1 DEF FailTableJob
  <2>2. CASE UNCHANGED <<intakeJob, assetStatus>>
    BY <2>2, UploadParts
  <2> QED
    BY <2>1, <2>2 DEF FailJob, ExpireTable
<1>8. /\ job \in {"none", "queued", "running", "succeeded", "failed"} /\ intakeJob'[u] = job
      /\ job \notin {"none", "queued"}
      /\ u \in undecided => intakeJob' = intakeJob
  BY <1>3, <1>7, UploadParts
<1>9. ResultKept(u) => ResultKept(u)'
  BY <1>2, <1>6 DEF ResultKept, Stored, Leaving
<1>10. UploadKnows(u)'
  <2>1. /\ uploadRoute'[u] = "table" /\ uploadStage'[u] \in {"over", "compensate"}
        /\ intakeJob'[u] \notin {"none", "queued"} /\ workerStage'[u] # "idle"
        /\ workerStage'[u] = "commit" => Stored(u, "normalized")'
        /\ workerStage'[u] \in BeforeCommit => ~Leaving(u, "normalized")'
    BY <1>1, <1>2, <1>4, <1>5, <1>6, <1>8 DEF UploadKnows, BeforeCommit, Stored, Leaving
  <2>2. u \in undecided' => /\ intakeJob'[u] = "running" /\ ResultKept(u)'
                            /\ workerStage'[u] \notin BeforeCommit
    BY <1>1, <1>2, <1>3, <1>6, <1>8, <1>9 DEF UploadKnows, Enqueueing
  <2> QED
    BY <2>1, <2>2 DEF UploadKnows, LocalStages, TableStages
<1>11. \A a \in Uploads : u \in ToSet(snapshots[a]) => InPublication(u, a)'
  <2> SUFFICES ASSUME NEW a \in Uploads, u \in ToSet(snapshots[a]) PROVE InPublication(u, a)'
    OBVIOUS
  <2>1. InPublication(u, a)
    BY UploadFacts
  <2>2. intakeJob'[u] = "succeeded"
    BY <1>4, <1>7, <1>8, <2>1 DEF InPublication
  <2> QED
    BY <1>2, <1>4, <1>9, <2>1, <2>2 DEF InPublication
<1>12. /\ uploadStage'[u] \notin LocalStages /\ uploadStage'[u] \notin {"putTable", "enqueue"}
       /\ uploadStage[u] # "idle" /\ uploadStage'[u] # "idle"
  BY <1>4, <1>5 DEF LocalStages
<1>13. ChangesStatus(u)
  BY <1>2, <1>5, <1>6, <1>7, <1>8, <1>12, UploadParts DEF ChangesStatus
<1> QED
  BY <1>2, <1>7, <1>8, <1>10, <1>11, <1>12, <1>13, StatusStep

\* A publication: the asset was processing and this upload's own, or was ready.
LEMMA PublishStep ==
    ASSUME DataAssetInv, NEW u \in Uploads, uploadStage[u] # "idle", Persistable(u),
           PersistSnapshot(u),
           NEW at \in (Outside \cup LocalStages \cup TableStages), at \notin LocalStages,
           at \notin {"idle", "putTable", "enqueue"},
           uploadStage' = [uploadStage EXCEPT ![u] = at],
           NEW work \in (Outside \cup WorkerStages),
           workerStage' = [workerStage EXCEPT ![u] = work],
           NEW ks \in SUBSET Kinds, written' = [written EXCEPT ![u] = ks],
           NEW job \in {"none", "queued", "running", "succeeded", "failed"},
           intakeJob' = [intakeJob EXCEPT ![u] = job],
           runsOn' \in {runsOn, [runsOn EXCEPT ![u] = NoApi]},
           undecided' \in {undecided, undecided \ {u}}, u \notin undecided',
           UNCHANGED <<objects, inflight, uploadRoute, assetOf, auditedOrphans, silentOrphans,
                       lateOrphans, overtaken, pastDeadline>>,
           UploadKnows(u)', InPublication(u, assetOf[u])',
           \A a \in Uploads : u \in ToSet(snapshots[a]) => a = assetOf[u]
    PROVE  DataAssetInv'
<1> DEFINE mine == assetOf[u]
<1>1. DataAssetTypeOK /\ AssetAwaits(u) /\ ReadyIfPublished(u)
  BY UploadFacts
<1>2. mine \in Uploads /\ (mine # u => assetStatus[mine] = "ready")
      /\ assetStatus[mine] \in {"processing", "ready"}
  BY <1>1 DEF AssetAwaits, Persistable
<1>3. /\ uploadStage' \in [Uploads -> Outside \cup LocalStages \cup TableStages]
      /\ workerStage' \in [Uploads -> Outside \cup WorkerStages]
      /\ written' \in [Uploads -> SUBSET Kinds] /\ uploadStage'[u] = at
      /\ intakeJob' \in [Uploads -> {"none", "queued", "running", "succeeded", "failed"}]
      /\ \A v \in Uploads \ {u} :
            /\ uploadStage'[v] = uploadStage[v] /\ workerStage'[v] = workerStage[v]
            /\ written'[v] = written[v] /\ intakeJob'[v] = intakeJob[v]
  BY <1>1 DEF DataAssetTypeOK
<1> HIDE DEF mine
<1>4. /\ assetStatus' = [assetStatus EXCEPT ![mine] = "ready"]
      /\ snapshots' = [snapshots EXCEPT ![mine] = Append(@, u)]
  BY DEF PersistSnapshot, mine
<1>5. /\ assetStatus' \in [Uploads -> {"none", "processing", "ready", "failed"}]
      /\ \A v \in Uploads \ {u} : assetStatus'[v] = assetStatus[v]
      /\ assetStatus'[mine] = "ready"
      /\ assetStatus[u] \in {"ready", "failed"} => assetStatus'[u] = assetStatus[u]
  BY <1>1, <1>2, <1>4 DEF DataAssetTypeOK
<1>6. snapshots \in [Uploads -> Seq(Uploads)] /\ Append(snapshots[mine], u) \in Seq(Uploads)
  BY <1>1, <1>2, ListedUploads DEF DataAssetTypeOK
<1>7. /\ snapshots' \in [Uploads -> Seq(Uploads)]
      /\ snapshots'[mine] = Append(snapshots[mine], u)
      /\ \A a \in Uploads \ {mine} : snapshots'[a] = snapshots[a]
  BY <1>2, <1>4, <1>6
<1>8. /\ runsOn' \in [Uploads -> UploadApis \cup {NoApi}] /\ undecided' \subseteq Uploads
      /\ \A v \in Uploads \ {u} : v \in undecided' <=> v \in undecided
  BY <1>1 DEF DataAssetTypeOK
<1>9. DataAssetTypeOK'
  BY <1>1, <1>3, <1>5, <1>7, <1>8 DEF DataAssetTypeOK
<1>10. OnlyUpload(u)
  BY <1>3, <1>5, <1>8 DEF OnlyUpload, StoredAsBefore, Stored, Coming, Leaving, Listed
<1>11. AssetAwaits(u)'
  BY <1>2, <1>3, <1>5 DEF AssetAwaits, mine
<1>12. ReadyIfPublished(u)'
  <2>1. CASE mine = u
    BY <1>2, <1>5, <1>6, <1>7, <2>1, ListedUploads DEF ReadyIfPublished
  <2>2. CASE mine # u
    BY <1>1, <1>4, <1>5, <1>7, <2>2 DEF ReadyIfPublished, DataAssetTypeOK
  <2> QED
    BY <2>1, <2>2
<1>13. \A a \in Uploads : u \in ToSet(snapshots'[a]) => InPublication(u, a)'
  <2> SUFFICES ASSUME NEW a \in Uploads, u \in ToSet(snapshots'[a]) PROVE a = mine
    BY DEF mine
  <2> QED
    BY <1>7 DEF mine
<1> QED
  BY <1>2, <1>4, <1>5, <1>9, <1>10, <1>11, <1>12, <1>13, UploadStep DEF mine

LEMMA PersistLocalGood ==
    ASSUME DataAssetInv, NEW u \in Uploads, PersistLocal(u) PROVE DataAssetInv'
<1>1. DataAssetTypeOK /\ UploadKnows(u) /\ AssetAwaits(u)
  BY UploadFacts
<1>2. /\ uploadStage[u] = "persist" /\ uploadRoute[u] = "local" /\ assetOf[u] \in Uploads
      /\ intakeJob[u] = "none" /\ workerStage[u] = "idle" /\ u \notin undecided
      /\ Stored(u, "source") /\ Stored(u, "normalized")
      /\ ~Leaving(u, "source") /\ ~Leaving(u, "normalized")
      /\ \A kind \in Kinds : Stored(u, kind) \/ Coming(u, kind) => kind \in written[u]
  BY <1>1 DEF PersistLocal, UploadKnows, AssetAwaits, LocalStages, Kinds
<1>3. /\ UNCHANGED <<intakeJob, pastDeadline, uploadRoute, assetOf, objects, inflight,
                     auditedOrphans, silentOrphans, lateOrphans>>
      /\ runsOn' \in {runsOn, [runsOn EXCEPT ![u] = NoApi]}
  BY DEF PersistLocal, EndUpload, storeVars, orphanVars, Identity
<1>4. \A a \in Uploads : u \notin ToSet(snapshots[a])
  BY <1>2, UploadFacts DEF InPublication
<1>5. PICK at \in {"over", "cleanNormalized"} :
         /\ GoOn(u, at)
         /\ \/ at = "over" /\ written' = [written EXCEPT ![u] = {}]
            \/ at = "cleanNormalized" /\ written' = written
         /\ overtaken' = overtaken
         /\ \/ /\ at = "over" /\ Persistable(u) /\ PersistSnapshot(u)
               /\ undecided' = undecided
            \/ /\ UNCHANGED <<assetStatus, snapshots>>
               /\ undecided' \in {undecided, undecided \cup {u}}
               /\ u \in undecided' => at = "over" /\ Persistable(u)
  BY <1>2 DEF PersistLocal, EndUpload, LosesAnswer, commitVars
<1>6. /\ uploadStage' = [uploadStage EXCEPT ![u] = at] /\ uploadStage'[u] = at
      /\ workerStage' = [workerStage EXCEPT ![u] = workerStage[u]] /\ workerStage' = workerStage
      /\ workerStage[u] \in Outside \cup WorkerStages
  BY <1>1, <1>5, GoingOn
<1>7. PICK ks \in SUBSET Kinds : written' = [written EXCEPT ![u] = ks]
  BY <1>5, UploadParts
<1>8. ResultKept(u)' /\ SourceKept(u)' /\ ~Enqueueing(u)'
  BY <1>2, <1>3, <1>6 DEF ResultKept, SourceKept, Enqueueing, Stored, Leaving
<1>9. UploadKnows(u)'
  <2>1. /\ u \in undecided' => at = "over"
        /\ at = "cleanNormalized" => written' = written
    BY <1>2, <1>5
  <2> QED
    BY <1>2, <1>3, <1>6, <1>8, <2>1 DEF UploadKnows, LocalStages, TableStages, Stored, Coming,
                                              Leaving
<1>10. at \in Outside \cup LocalStages \cup TableStages /\ at # "idle"
      /\ at \notin {"putTable", "enqueue"}
  BY DEF Outside, LocalStages
<1>11. CASE /\ UNCHANGED <<assetStatus, snapshots>>
            /\ undecided' \in {undecided, undecided \cup {u}}
            /\ u \in undecided' => at = "over" /\ Persistable(u)
  <2>1. MovesOnly(u)
    BY <1>3, <1>5, <1>6, <1>7, <1>10, <1>11 DEF MovesOnly
  <2>2. \A a \in Uploads : ~InPublication(u, a)
    BY <1>2 DEF InPublication
  <2>3. assetOf[u] = u /\ u \in undecided' => assetStatus[u] \in {"processing", "ready"}
    BY <1>11 DEF Persistable
  <2>4. ~Enqueueing(u)
    BY <1>2 DEF Enqueueing
  <2> QED
    BY <1>2, <1>6, <1>9, <1>10, <2>1, <2>2, <2>3, <2>4, MoveStep DEF LocalStages
<1>12. CASE at = "over" /\ Persistable(u) /\ PersistSnapshot(u) /\ undecided' = undecided
  <2>1. InPublication(u, assetOf[u])'
    BY <1>2, <1>3, <1>6, <1>8, <1>12 DEF InPublication
  <2>2. uploadStage[u] # "idle" /\ at \notin LocalStages
    BY <1>2, <1>12 DEF LocalStages
  <2> QED
    BY <1>2, <1>3, <1>4, <1>5, <1>6, <1>7, <1>9, <1>10, <1>12, <2>1, <2>2, UploadParts, PublishStep
<1> QED
  BY <1>5, <1>11, <1>12

LEMMA CommitTableGood ==
    ASSUME DataAssetInv, NEW u \in Uploads, CommitTable(u) PROVE DataAssetInv'
<1>1. DataAssetTypeOK /\ UploadKnows(u) /\ AssetAwaits(u)
  BY UploadFacts
<1>2. /\ workerStage[u] = "commit" /\ Stored(u, "normalized")
      /\ intakeJob[u] \notin {"none", "queued"} /\ u \notin undecided
  BY <1>1 DEF CommitTable, UploadKnows, BeforeCommit
<1>3. /\ uploadRoute[u] = "table" /\ uploadStage[u] \in {"over", "compensate"}
      /\ assetOf[u] \in Uploads /\ ~Leaving(u, "normalized")
  BY <1>1, <1>2, WorkerFacts DEF UploadKnows, BeforeCommit
<1>4. UNCHANGED <<pastDeadline, uploadRoute, assetOf, runsOn, objects, inflight, auditedOrphans,
                  silentOrphans, lateOrphans>>
  BY DEF CommitTable, Identity, storeVars, orphanVars
<1>5. CASE /\ UNCHANGED <<assetStatus, snapshots, intakeJob, written>> /\ WorkOn(u, "failJob")
           /\ UNCHANGED commitVars \/ (LosesAnswer(u) /\ StillRunning(u) /\ Persistable(u))
  <2>1. PICK at \in {"failJob"} : WorkOn(u, at)
    BY <1>5
  <2>2. /\ at \in WorkerStages \cup {"over"} /\ at # "commit" /\ at # "removeResult"
        /\ at \notin BeforeCommit /\ workerStage[u] \in WorkerStages
    BY <1>2 DEF WorkerStages, BeforeCommit
  <2>3. /\ overtaken' = overtaken
        /\ \/ undecided' = undecided
           \/ undecided' = undecided \cup {u} /\ intakeJob[u] = "running" /\ Persistable(u)
    BY <1>5 DEF commitVars, LosesAnswer, StillRunning
  <2> QED
    BY <1>2, <1>4, <1>5, <2>1, <2>2, <2>3, UploadParts, ImportStep
<1>6. CASE /\ StillRunning(u) /\ Persistable(u) /\ PersistSnapshot(u)
           /\ intakeJob' = [intakeJob EXCEPT ![u] = "succeeded"]
           /\ WorkOn(u, "over") /\ written' = [written EXCEPT ![u] = {}] /\ UNCHANGED commitVars
  <2>1. PICK at \in {"over"}, ks \in SUBSET Kinds :
           WorkOn(u, at) /\ written' = [written EXCEPT ![u] = ks]
    BY <1>6
  <2>2. /\ workerStage' = [workerStage EXCEPT ![u] = at] /\ workerStage'[u] = at
        /\ uploadStage' = [uploadStage EXCEPT ![u] = uploadStage[u]]
        /\ uploadStage' = uploadStage
        /\ uploadStage[u] \in Outside \cup LocalStages \cup TableStages
    BY <1>1, <2>1, WorkingOn
  <2>3. PICK job \in {"none", "queued", "running", "succeeded", "failed"} :
           job = "succeeded" /\ intakeJob' = [intakeJob EXCEPT ![u] = job]
    BY <1>6
  <2>4. intakeJob'[u] = "succeeded" /\ undecided' = undecided /\ overtaken' = overtaken
    BY <1>6, <2>3, UploadParts DEF commitVars
  <2>5. UploadKnows(u)'
    BY <1>2, <1>3, <1>4, <2>2, <2>4 DEF UploadKnows, LocalStages, TableStages, BeforeCommit
  <2>6. InPublication(u, assetOf[u])'
    BY <1>2, <1>3, <1>4, <2>2, <2>4 DEF InPublication, ResultKept, Stored, Leaving
  <2>7. \A a \in Uploads : u \in ToSet(snapshots[a]) => a = assetOf[u]
    BY <1>3, UploadFacts
  <2>8. /\ at \in Outside \cup WorkerStages /\ uploadStage[u] \notin LocalStages
        /\ uploadStage[u] \notin {"idle", "putTable", "enqueue"}
    BY <1>3 DEF Outside, LocalStages
  <2> QED
    BY <1>2, <1>4, <1>6, <2>1, <2>2, <2>3, <2>4, <2>5, <2>6, <2>7, <2>8, PublishStep
<1> QED
  BY <1>5, <1>6 DEF CommitTable

\* What a COMMIT whose answer was lost comes to.
LEMMA CommitTakesEffectGood ==
    ASSUME DataAssetInv, NEW u \in Uploads, CommitTakesEffect(u) PROVE DataAssetInv'
<1>1. DataAssetTypeOK /\ UploadKnows(u) /\ AssetAwaits(u)
  BY UploadFacts
<1>2. /\ u \in undecided /\ undecided' = undecided \ {u} /\ u \notin undecided'
      /\ UNCHANGED <<objects, inflight, uploadStage, workerStage, uploadRoute, assetOf, runsOn,
                     written, auditedOrphans, silentOrphans, lateOrphans, overtaken,
                     pastDeadline>>
  BY DEF CommitTakesEffect, storeVars, uploadVars, orphanVars
<1>3. /\ uploadStage[u] \in {"over", "compensate"} /\ uploadRoute[u] # "none"
      /\ intakeJob[u] \in {"none", "running"}
      /\ uploadRoute[u] = "local" => uploadStage[u] = "over" /\ SourceKept(u)
      /\ ~Enqueueing(u) => ResultKept(u)
      /\ intakeJob[u] # "none" => uploadRoute[u] = "table" /\ workerStage[u] \notin BeforeCommit
      /\ workerStage[u] = "idle" <=> intakeJob[u] = "none"
      /\ uploadRoute[u] = "table" /\ workerStage[u] = "idle" => ~Leaving(u, "normalized")
      /\ assetOf[u] \in Uploads
  BY <1>1, <1>2 DEF UploadKnows, AssetAwaits, BeforeCommit
<1>4. /\ uploadStage[u] \in Outside \cup LocalStages \cup TableStages
      /\ uploadStage[u] \notin LocalStages /\ uploadStage[u] \notin {"idle", "putTable", "enqueue"}
  BY <1>3, UploadParts DEF LocalStages
<1>5. CASE Enqueueing(u)
  <2>1. /\ intakeJob[u] = "none" /\ uploadRoute[u] = "table"
        /\ assetOf[u] = u => assetStatus[u] = "none"
    BY <1>1, <1>2, <1>5 DEF Enqueueing, AssetAwaits
  <2>2. /\ intakeJob' = [intakeJob EXCEPT ![u] = "queued"] /\ intakeJob'[u] = "queued"
        /\ snapshots' = snapshots
        /\ \/ assetStatus' = assetStatus
           \/ /\ assetStatus[u] \in {"none", "processing"}
              /\ assetStatus' = [assetStatus EXCEPT ![u] = "processing"]
    BY <1>5, <2>1, UploadParts DEF CommitTakesEffect, EnqueueJob, IsNew
  <2>3. UploadKnows(u)'
    BY <1>2, <1>3, <2>1, <2>2 DEF UploadKnows, LocalStages, TableStages, Leaving
  <2>4. ChangesStatus(u)
    BY <1>2, <1>4, <2>2, UploadParts DEF ChangesStatus
  <2>5. \A a \in Uploads : u \notin ToSet(snapshots[a])
    BY <2>1, UploadFacts DEF InPublication
  <2> QED
    BY <1>2, <1>4, <2>3, <2>4, <2>5, StatusStep
<1>6. CASE ~Enqueueing(u)
  <2>1. Persistable(u) /\ PersistSnapshot(u)
    BY <1>1, <1>2, <1>3, <1>4, <1>6 DEF CommitTakesEffect, AssetAwaits, Persistable
  <2>2. PICK job \in {"none", "queued", "running", "succeeded", "failed"} :
           /\ intakeJob' = [intakeJob EXCEPT ![u] = job]
           /\ job = IF uploadRoute[u] = "table" THEN "succeeded" ELSE intakeJob[u]
    BY <1>6, UploadParts DEF CommitTakesEffect
  <2>3. intakeJob'[u] = job
    BY <2>2, UploadParts
  <2>4. /\ uploadRoute[u] = "local" => intakeJob[u] = "none"
        /\ uploadRoute[u] = "table" => intakeJob[u] = "running"
    BY <1>3, <1>6 DEF Enqueueing
  <2>5. /\ ResultKept(u)' /\ (SourceKept(u)' <=> SourceKept(u))
        /\ uploadRoute[u] \in {"local", "table"}
    BY <1>1, <1>2, <1>3, <1>6 DEF ResultKept, SourceKept, Stored, Leaving, DataAssetTypeOK
  <2>6. UploadKnows(u)'
    BY <1>2, <1>3, <1>4, <2>2, <2>3, <2>4, <2>5
       DEF UploadKnows, LocalStages, TableStages, Leaving, BeforeCommit
  <2>7. InPublication(u, assetOf[u])'
    BY <1>2, <1>3, <2>2, <2>3, <2>5 DEF InPublication
  <2>8. \A a \in Uploads : u \in ToSet(snapshots[a]) => a = assetOf[u]
    BY <1>3, UploadFacts
  <2>9. /\ uploadStage' = [uploadStage EXCEPT ![u] = uploadStage[u]]
        /\ workerStage' = [workerStage EXCEPT ![u] = workerStage[u]]
        /\ workerStage[u] \in Outside \cup WorkerStages /\ written[u] \in SUBSET Kinds
        /\ written' = [written EXCEPT ![u] = written[u]] /\ uploadStage[u] # "idle"
    BY <1>2, <1>4, UploadParts
  <2> QED
    BY <1>2, <1>4, <2>1, <2>2, <2>6, <2>7, <2>8, <2>9, PublishStep
<1> QED
  BY <1>5, <1>6

LEMMA CommitRollsBackGood ==
    ASSUME DataAssetInv, NEW u \in Uploads, CommitRollsBack(u) PROVE DataAssetInv'
<1>1. DataAssetTypeOK /\ UploadKnows(u)
  BY UploadFacts
<1>2. /\ u \in undecided /\ undecided' = undecided \ {u}
      /\ UNCHANGED <<assetStatus, snapshots, objects, inflight, uploadStage, workerStage,
                     uploadRoute, assetOf, runsOn, written, auditedOrphans, silentOrphans,
                     lateOrphans, overtaken, intakeJob, pastDeadline>>
  BY DEF CommitRollsBack, storeVars, uploadVars, orphanVars
<1>3. MovesOnly(u)
  BY <1>2, UploadParts DEF MovesOnly
<1>4. UploadKnows(u)'
  BY <1>1, <1>2 DEF UploadKnows, Stored, Coming, Leaving, Listed
<1>5. \A a \in Uploads : InPublication(u, a) => InPublication(u, a)'
  BY <1>2 DEF InPublication, ResultKept, SourceKept, Stored, Leaving
<1>6. uploadStage[u] \in {"over", "compensate"}
  BY <1>1, <1>2 DEF UploadKnows
<1> QED
  BY <1>2, <1>3, <1>4, <1>5, <1>6, MoveStep DEF LocalStages

\* A PUT or a deletion that is applied after whoever sent it has gone on.
LEMMA RequestLandsGood ==
    ASSUME DataAssetInv, NEW u \in Uploads, NEW op \in {"put", "delete"}, NEW kind \in Kinds,
           RequestLands(op, u, kind)
    PROVE  DataAssetInv'
<1>1. DataAssetTypeOK /\ UploadKnows(u)
  BY UploadFacts
<1>2. /\ <<op, u, kind>> \in inflight /\ inflight' = inflight \ {<<op, u, kind>>}
      /\ objects' = IF op = "put" THEN objects \cup {<<u, kind>>} ELSE objects \ {<<u, kind>>}
      /\ lateOrphans' = IF op = "put" /\ CleanedUp(u, kind)
                        THEN lateOrphans \cup {<<u, kind>>} ELSE lateOrphans
      /\ UNCHANGED <<assetStatus, snapshots, intakeJob, pastDeadline, uploadStage, workerStage,
                     uploadRoute, assetOf, runsOn, written, auditedOrphans, silentOrphans,
                     undecided, overtaken>>
  BY DEF RequestLands, Performed, RowsUnchanged, uploadVars, commitVars
<1>3. (op = "put" /\ Coming(u, kind)) \/ (op = "delete" /\ Leaving(u, kind))
  BY <1>2 DEF Coming, Leaving
<1>4. uploadStage[u] # "idle"
  BY <1>1, <1>3 DEF UploadKnows
<1>5. /\ objects' \in {objects} \cup {objects \cup {<<u, k>>} : k \in Kinds}
                      \cup {objects \ {<<u, k>>} : k \in Kinds}
      /\ lateOrphans' \in {lateOrphans} \cup {lateOrphans \cup {<<u, k>>} : k \in Kinds}
      /\ \E o \in {"put", "delete"}, k \in Kinds :
            inflight' \in {inflight \cup {<<o, u, k>>}, inflight \ {<<o, u, k>>}}
  BY <1>2
<1>6. MovesOnly(u)
  BY <1>2, <1>5, UploadParts DEF MovesOnly
<1>7. \A k \in Kinds : /\ Coming(u, k)' => Coming(u, k)
                       /\ Leaving(u, k)' => Leaving(u, k)
                       /\ Listed(u, k) => Listed(u, k)'
                       /\ Stored(u, k)' => Stored(u, k) \/ Coming(u, k)
                       /\ Stored(u, k)' => Stored(u, k) \/ (k = kind /\ op = "put")
                       /\ Stored(u, k) => Stored(u, k)' \/ Leaving(u, k)
  BY <1>2, <1>3 DEF Coming, Leaving, Listed, Stored
<1>8. op = "put" /\ CleanedUp(u, kind) => Listed(u, kind)'
  BY <1>2 DEF Listed
<1>9. (ResultKept(u) => ResultKept(u)') /\ (SourceKept(u) => SourceKept(u)')
  BY <1>2, <1>7 DEF ResultKept, SourceKept, Kinds
<1>10. UploadKnows(u)'
  <2>1. /\ uploadStage[u] \in {"cleanSource", "markFailed"} /\ Stored(u, "normalized")' =>
              Listed(u, "normalized")'
        /\ uploadStage[u] = "markFailed" /\ Stored(u, "source")' => Listed(u, "source")'
    BY <1>1, <1>7, <1>8 DEF UploadKnows, CleanedUp, LocalStages, Kinds
  <2>2. /\ uploadStage[u] \in LocalStages =>
              /\ uploadRoute[u] = "local"
              /\ \A k \in Kinds : Stored(u, k)' \/ Coming(u, k)' => k \in written[u]
        /\ uploadStage[u] \in {"parse", "putSource", "putNormalized", "persist"} =>
              \A k \in Kinds : ~Leaving(u, k)'
    BY <1>1, <1>7 DEF UploadKnows
  <2>3. /\ uploadStage[u] \in {"putNormalized", "persist"} => Stored(u, "source")'
        /\ uploadStage[u] = "persist" => Stored(u, "normalized")'
    BY <1>1, <1>7 DEF UploadKnows, Kinds
  <2>4. /\ uploadRoute[u] = "table" /\ workerStage[u] \in BeforeCommit => ~Leaving(u, "normalized")'
        /\ workerStage[u] = "commit" => Stored(u, "normalized")'
    BY <1>1, <1>7 DEF UploadKnows, BeforeCommit, Kinds
  <2>5. Enqueueing(u)' <=> Enqueueing(u)
    BY <1>2 DEF Enqueueing
  <2>6. u \in undecided' =>
           /\ uploadStage'[u] \in {"over", "compensate"} /\ uploadRoute'[u] # "none"
           /\ intakeJob'[u] \in {"none", "running"}
           /\ uploadRoute'[u] = "local" => uploadStage'[u] = "over" /\ SourceKept(u)'
           /\ ~Enqueueing(u)' => ResultKept(u)'
           /\ intakeJob'[u] # "none" => workerStage'[u] \notin BeforeCommit
    BY <1>1, <1>2, <1>9, <2>5 DEF UploadKnows
  <2> QED
    BY <1>1, <1>2, <1>4, <2>1, <2>2, <2>3, <2>4, <2>6 DEF UploadKnows
<1>11. \A a \in Uploads : InPublication(u, a) => InPublication(u, a)'
  BY <1>2, <1>9 DEF InPublication
<1> QED
  BY <1>1, <1>2, <1>4, <1>6, <1>10, <1>11, UploadFacts, MoveStep DEF AssetAwaits

LEMMA DataAssetBegins == DataAssetInit => DataAssetInv
<1> SUFFICES ASSUME DataAssetInit PROVE DataAssetInv
  OBVIOUS
<1> USE DEF DataAssetInit
<1>1. DataAssetTypeOK
  BY DataAssetIntakeAssumption DEF DataAssetTypeOK, Outside, LocalStages, TableStages, Kinds
<1>2. ASSUME NEW u \in Uploads PROVE UploadKnows(u) /\ AssetAwaits(u) /\ ReadyIfPublished(u)
  <2>1. <<u>> # <<>> /\ uploadStage[u] \in {"idle", "over"}
    OBVIOUS
  <2>2. \A kind \in Kinds : /\ Stored(u, kind) => u \in Earlier
                            /\ ~Coming(u, kind) /\ ~Leaving(u, kind)
    BY DEF Stored, Coming, Leaving
  <2>3. UploadKnows(u)
    BY <2>1, <2>2 DEF UploadKnows, LocalStages, TableStages, Kinds
  <2>4. AssetAwaits(u)
    BY <2>1, DataAssetIntakeAssumption DEF AssetAwaits, LocalStages
  <2> QED
    BY <2>1, <2>3, <2>4 DEF ReadyIfPublished
<1>3. ASSUME NEW a \in Uploads, NEW s \in ToSet(snapshots[a]) PROVE InPublication(s, a)
  <2>1. a \in Earlier /\ s = a
    BY <1>3 DEF ToSet
  <2> QED
    BY <2>1, DataAssetIntakeAssumption DEF InPublication, ResultKept, SourceKept, Stored, Leaving,
                                           Kinds
<1> QED
  BY <1>1, <1>2, <1>3 DEF DataAssetInv

LEMMA DataAssetStutters ==
    ASSUME DataAssetInv, UNCHANGED dataAssetVars PROVE DataAssetInv'
<1>1. UNCHANGED <<assetStatus, snapshots, objects, inflight, undecided, uploadStage, workerStage,
                  uploadRoute, assetOf, runsOn, written, auditedOrphans, silentOrphans,
                  lateOrphans, overtaken, intakeJob, pastDeadline>>
  BY DEF dataAssetVars, uploadVars, storeVars, orphanVars, commitVars
<1>2. \A v \in Uploads : Same(v)
  BY <1>1 DEF Same, StoredAsBefore, Stored, Coming, Leaving, Listed
<1>3. DataAssetTypeOK' /\ \A v \in Uploads : AssetAwaits(v)' /\ ReadyIfPublished(v)'
  BY <1>1 DEF DataAssetInv, DataAssetTypeOK, AssetAwaits, Enqueueing, ReadyIfPublished
<1>4. \A a \in Uploads : \A s \in ToSet(snapshots'[a]) : InPublication(s, a)'
  BY <1>1 DEF DataAssetInv, InPublication, ResultKept, SourceKept, Stored, Leaving
<1> QED
  BY <1>2, <1>3, <1>4, SameKnows DEF DataAssetInv

LEMMA DataAssetStep ==
    ASSUME DataAssetInv, [DataAssetNext]_dataAssetVars PROVE DataAssetInv'
<1>1. CASE UNCHANGED dataAssetVars
  BY <1>1, DataAssetStutters
<1>2. ASSUME NEW u \in Uploads,
             \/ AdmitLocal(u) \/ ParseLocal(u) \/ PutSource(u) \/ PutNormalized(u)
             \/ PersistLocal(u) \/ CleanNormalized(u) \/ CleanSource(u) \/ MarkFailed(u)
             \/ ApiDies(u)
      PROVE  DataAssetInv'
  BY <1>2, UploadBegins, ParseLocalGood, PutLocalGood, PersistLocalGood, CleanGood, MarkFailedGood,
     ApiDiesGood
<1>3. ASSUME NEW u \in Uploads,
             \/ AcceptTable(u) \/ PutTable(u) \/ EnqueueTable(u) \/ Compensate(u)
             \/ ClaimTable(u) \/ CommitTable(u) \/ FailJob(u) \/ ExpireTable(u)
             \/ DeadlinePasses(u)
      PROVE  DataAssetInv'
  BY <1>3, UploadBegins, PutTableGood, EnqueueTableGood, CompensateGood, ClaimTableGood,
     CommitTableGood, FailJobGood, DeadlinePassesGood
<1>4. ASSUME NEW u \in Uploads,
             \/ ReadSource(u) \/ ImportTable(u) \/ PutResult(u) \/ LookForSnapshot(u)
             \/ RemoveResult(u) \/ WorkerDies(u)
      PROVE  DataAssetInv'
  BY <1>4, WorkerMovesGood
<1>5. ASSUME NEW u \in Uploads,
             \/ CommitTakesEffect(u) \/ CommitRollsBack(u)
             \/ \E op \in {"put", "delete"}, kind \in Kinds : RequestLands(op, u, kind)
      PROVE  DataAssetInv'
  BY <1>5, CommitTakesEffectGood, CommitRollsBackGood, RequestLandsGood
<1> QED
  BY <1>1, <1>2, <1>3, <1>4, <1>5 DEF DataAssetNext

\* Ready and failed are the ends of an asset, and failed is one of a job.
LEMMA EndsStay ==
    ASSUME DataAssetInv, DataAssetNext
    PROVE  /\ \A a \in Uploads : assetStatus[a] \in {"ready", "failed"} =>
                 assetStatus'[a] = assetStatus[a]
           /\ \A v \in Uploads : intakeJob[v] = "failed" => intakeJob'[v] = "failed"
<1>1. PICK u \in Uploads :
         \/ AdmitLocal(u) \/ ParseLocal(u) \/ PutSource(u) \/ PutNormalized(u) \/ PersistLocal(u)
         \/ CleanNormalized(u) \/ CleanSource(u) \/ MarkFailed(u)
         \/ AcceptTable(u) \/ PutTable(u) \/ EnqueueTable(u) \/ Compensate(u)
         \/ ClaimTable(u) \/ ReadSource(u) \/ ImportTable(u) \/ PutResult(u) \/ CommitTable(u)
         \/ FailJob(u) \/ LookForSnapshot(u) \/ RemoveResult(u)
         \/ DeadlinePasses(u) \/ ExpireTable(u) \/ ApiDies(u) \/ WorkerDies(u)
         \/ CommitTakesEffect(u) \/ CommitRollsBack(u)
         \/ \E op \in {"put", "delete"}, kind \in Kinds : RequestLands(op, u, kind)
  BY DEF DataAssetNext
<1>2. DataAssetTypeOK /\ UploadKnows(u) /\ AssetAwaits(u)
  BY UploadFacts
<1>3. \/ assetStatus' = assetStatus
      \/ /\ assetStatus[u] \in {"none", "processing"}
         /\ \E status : assetStatus' = [assetStatus EXCEPT ![u] = status]
      \/ assetStatus' = [assetStatus EXCEPT ![assetOf[u]] = "ready"] /\ Persistable(u)
  <2>1. CASE AdmitLocal(u)
    <3>1. assetStatus[u] = "none"
      BY <1>2, <2>1 DEF AdmitLocal, AssetAwaits
    <3> QED
      BY <2>1, <3>1 DEF AdmitLocal
  <2>2. CASE MarkFailed(u)
    <3>1. assetOf[u] = u => assetStatus[u] = "processing"
      BY <1>2, <2>2 DEF MarkFailed, AssetAwaits, LocalStages
    <3> QED
      BY <2>2, <3>1 DEF MarkFailed, IsNew
  <2>3. CASE EnqueueTable(u)
    <3>1. assetOf[u] = u => assetStatus[u] = "none"
      BY <1>2, <2>3 DEF EnqueueTable, AssetAwaits
    <3> QED
      BY <2>3, <3>1 DEF EnqueueTable, EnqueueJob, IsNew
  <2>4. CASE FailJob(u) \/ ExpireTable(u)
    BY <2>4 DEF FailJob, ExpireTable, FailTableJob
  <2>5. CASE PersistLocal(u) \/ CommitTable(u)
    BY <2>5 DEF PersistLocal, CommitTable, PersistSnapshot
  <2>6. CASE ParseLocal(u) \/ PutSource(u) \/ PutNormalized(u) \/ CleanNormalized(u)
             \/ CleanSource(u) \/ AcceptTable(u) \/ PutTable(u) \/ Compensate(u)
    BY <2>6 DEF ParseLocal, PutSource, PutNormalized, CleanNormalized, CleanSource, AcceptTable,
       PutTable, Compensate, RowsUnchanged
  <2>7. CASE ClaimTable(u) \/ ReadSource(u) \/ ImportTable(u) \/ PutResult(u)
             \/ LookForSnapshot(u) \/ RemoveResult(u) \/ DeadlinePasses(u) \/ ApiDies(u)
             \/ WorkerDies(u)
    BY <2>7 DEF ClaimTable, ReadSource, ImportTable, PutResult, LookForSnapshot, RemoveResult,
       DeadlinePasses, ApiDies, WorkerDies, RowsUnchanged
  <2>8. CASE CommitTakesEffect(u)
    <3>1. Enqueueing(u) /\ assetOf[u] = u => assetStatus[u] = "none"
      BY <1>2, <2>8 DEF CommitTakesEffect, AssetAwaits
    <3>2. ~Enqueueing(u) => Persistable(u)
      BY <1>2, <2>8 DEF CommitTakesEffect, UploadKnows, AssetAwaits, Persistable
    <3> QED
      BY <2>8, <3>1, <3>2 DEF CommitTakesEffect, EnqueueJob, PersistSnapshot, IsNew
  <2>9. CASE CommitRollsBack(u)
             \/ \E op \in {"put", "delete"}, kind \in Kinds : RequestLands(op, u, kind)
    BY <2>9 DEF CommitRollsBack, RequestLands, RowsUnchanged
  <2> QED
    BY <1>1, <2>1, <2>2, <2>3, <2>4, <2>5, <2>6, <2>7, <2>8, <2>9
<1>4. \/ intakeJob' = intakeJob
      \/ /\ intakeJob[u] # "failed"
         /\ \E job : intakeJob' = [intakeJob EXCEPT ![u] = job]
  <2>1. CASE EnqueueTable(u)
    <3>1. intakeJob[u] = "none"
      BY <1>2, <2>1 DEF EnqueueTable, UploadKnows
    <3> QED
      BY <2>1, <3>1 DEF EnqueueTable, EnqueueJob
  <2>2. CASE ClaimTable(u) \/ CommitTable(u) \/ FailJob(u) \/ ExpireTable(u)
    BY <2>2 DEF ClaimTable, CommitTable, FailJob, ExpireTable, FailTableJob, StillRunning
  <2>3. CASE AdmitLocal(u) \/ ParseLocal(u) \/ PutSource(u) \/ PutNormalized(u)
             \/ PersistLocal(u) \/ CleanNormalized(u) \/ CleanSource(u) \/ MarkFailed(u)
             \/ ApiDies(u)
    BY <2>3 DEF AdmitLocal, ParseLocal, PutSource, PutNormalized, PersistLocal, CleanNormalized,
       CleanSource, MarkFailed, ApiDies, RowsUnchanged
  <2>4. CASE AcceptTable(u) \/ PutTable(u) \/ Compensate(u) \/ ReadSource(u) \/ ImportTable(u)
             \/ PutResult(u) \/ LookForSnapshot(u) \/ RemoveResult(u) \/ DeadlinePasses(u)
             \/ WorkerDies(u)
    BY <2>4 DEF AcceptTable, PutTable, Compensate, ReadSource, ImportTable, PutResult,
       LookForSnapshot, RemoveResult, DeadlinePasses, WorkerDies, RowsUnchanged
  <2>5. CASE CommitTakesEffect(u)
    <3>1. intakeJob[u] # "failed"
      BY <1>2, <2>5 DEF CommitTakesEffect, UploadKnows
    <3> QED
      BY <2>5, <3>1 DEF CommitTakesEffect, EnqueueJob
  <2>6. CASE CommitRollsBack(u)
             \/ \E op \in {"put", "delete"}, kind \in Kinds : RequestLands(op, u, kind)
    BY <2>6 DEF CommitRollsBack, RequestLands, RowsUnchanged
  <2> QED
    BY <1>1, <2>1, <2>2, <2>3, <2>4, <2>5, <2>6
<1>5. \A a \in Uploads : assetStatus[a] \in {"ready", "failed"} =>
         assetStatus'[a] = assetStatus[a]
  <2> SUFFICES ASSUME NEW a \in Uploads, assetStatus[a] \in {"ready", "failed"}
               PROVE  assetStatus'[a] = assetStatus[a]
    OBVIOUS
  <2>1. CASE assetStatus' = [assetStatus EXCEPT ![assetOf[u]] = "ready"] /\ Persistable(u)
    BY <1>2, <2>1 DEF Persistable, DataAssetTypeOK
  <2> QED
    BY <1>2, <1>3, <2>1 DEF DataAssetTypeOK
<1>6. \A v \in Uploads : intakeJob[v] = "failed" => intakeJob'[v] = "failed"
  BY <1>2, <1>4 DEF DataAssetTypeOK
<1> QED
  BY <1>5, <1>6

\* What each upload has come to is in step with its asset, its job, the store, the audit and
\* with what is still in flight: a PUT, a deletion or a COMMIT whose answer was lost, applied
\* at any time after, undoes nothing that was published; but for a COMMIT that its worker's
\* look for a snapshot has overtaken (data-assets.ts, table-intake.ts).
THEOREM DataAssetInvariance == DataAssetSpec => []DataAssetInv
  BY DataAssetBegins, DataAssetStep, PTL DEF DataAssetSpec

\* Published snapshots are in the store, but for those overtaken, and what a refused upload
\* has left there is in the audit or arrived after its clean-up, for any uploads and however
\* PUTs, deletions and COMMITs fail or are applied late (the first part of
\* StoredDataIsReadable).
THEOREM StoreStaysInStep == DataAssetSpec => []StoreMatchesRecords
<1>1. DataAssetInv => StoreMatchesRecords
  <2> SUFFICES ASSUME DataAssetInv PROVE StoreMatchesRecords
    OBVIOUS
  <2>1. SnapshotsReadable
    <3>1. ASSUME NEW a \in Uploads, NEW s \in ToSet(snapshots[a])
          PROVE  /\ Stored(s, "normalized") \/ (uploadRoute[s] = "table" /\ s \in overtaken)
                 /\ uploadRoute[s] = "local" => Stored(s, "source")
      BY <3>1 DEF DataAssetInv, InPublication, ResultKept, SourceKept
    <3> QED
      BY <3>1 DEF DataAssetInv, SnapshotsReadable, ReadyIfPublished, Stored
  <2>2. LeftoversAreAudited
    BY DEF DataAssetInv, LeftoversAreAudited, UploadKnows, Stored, Listed, Kinds
  <2> QED
    BY <2>1, <2>2 DEF StoreMatchesRecords
<1> QED
  BY <1>1, DataAssetInvariance, PTL

\* A ready asset stays ready and a failed job unpublished (OutcomesAreFinal): markFailed finds
\* only assets that nobody else can have published, and a job that is not running any more
\* is refused by every write of its worker.
THEOREM OutcomesStayFinal == DataAssetSpec => OutcomesAreFinal
<1>1. ASSUME DataAssetInv, DataAssetInv', [DataAssetNext]_dataAssetVars
      PROVE  [/\ \A a \in Uploads : assetStatus[a] = "ready" => assetStatus'[a] = "ready"
              /\ \A u \in Uploads : intakeJob[u] = "failed" =>
                    intakeJob'[u] = "failed" /\ ~Published(u)']_dataAssetVars
  <2> SUFFICES ASSUME DataAssetNext
               PROVE  /\ \A a \in Uploads : assetStatus[a] = "ready" => assetStatus'[a] = "ready"
                      /\ \A u \in Uploads : intakeJob[u] = "failed" =>
                            intakeJob'[u] = "failed" /\ ~Published(u)'
    BY <1>1
  <2>1. /\ \A a \in Uploads : assetStatus[a] = "ready" => assetStatus'[a] = "ready"
        /\ \A u \in Uploads : intakeJob[u] = "failed" => intakeJob'[u] = "failed"
    BY <1>1, EndsStay
  <2>2. ASSUME NEW u \in Uploads, intakeJob'[u] = "failed" PROVE ~Published(u)'
    <3>1. /\ DataAssetTypeOK' /\ UploadKnows(u)' /\ AssetAwaits(u)'
          /\ \A a \in Uploads : u \in ToSet(snapshots'[a]) => InPublication(u, a)'
      BY <1>1 DEF DataAssetInv
    <3>2. uploadRoute'[u] = "table" /\ uploadStage'[u] # "idle"
      BY <2>2, <3>1 DEF UploadKnows
    <3>3. assetOf'[u] \in Uploads
      BY <3>1, <3>2 DEF AssetAwaits
    <3>4. u \notin ToSet(snapshots'[assetOf'[u]])
      BY <2>2, <3>1, <3>2, <3>3 DEF InPublication
    <3>5. snapshots'[assetOf'[u]] \in Seq(Uploads)
      BY <3>1, <3>3 DEF DataAssetTypeOK
    <3> QED
      BY <3>4, <3>5, ListedUploads DEF Published
  <2> QED
    BY <2>1, <2>2
<1> QED
  BY <1>1, DataAssetInvariance, PTL DEF DataAssetSpec, OutcomesAreFinal

-----------------------------------------------------------------------------
(* Reading assets: the inductive invariant *)

\* A row that was read as ready or failed is still so, and a snapshot that is shown is one
\* of its asset.
AssetReadsInv ==
    /\ DataAssetInv
    /\ \A a \in DOMAIN assetRows :
          /\ a \in Uploads
          /\ assetRows[a] \in {"ready", "failed"} => assetStatus[a] = assetRows[a]
    /\ shownAsset.latest # NoSnapshot =>
          /\ shownAsset.asset \in Uploads
          /\ shownAsset.latest \in ToSet(snapshots[shownAsset.asset])
    /\ ShownAssetsAreUsable

LEMMA SnapshotsGrow ==
    ASSUME DataAssetInv, DataAssetNext, NEW a \in Uploads
    PROVE  ToSet(snapshots[a]) \subseteq ToSet(snapshots'[a])
<1>1. PICK u \in Uploads :
         \/ AdmitLocal(u) \/ ParseLocal(u) \/ PutSource(u) \/ PutNormalized(u) \/ PersistLocal(u)
         \/ CleanNormalized(u) \/ CleanSource(u) \/ MarkFailed(u)
         \/ AcceptTable(u) \/ PutTable(u) \/ EnqueueTable(u) \/ Compensate(u)
         \/ ClaimTable(u) \/ ReadSource(u) \/ ImportTable(u) \/ PutResult(u) \/ CommitTable(u)
         \/ FailJob(u) \/ LookForSnapshot(u) \/ RemoveResult(u)
         \/ DeadlinePasses(u) \/ ExpireTable(u) \/ ApiDies(u) \/ WorkerDies(u)
         \/ CommitTakesEffect(u) \/ CommitRollsBack(u)
         \/ \E op \in {"put", "delete"}, kind \in Kinds : RequestLands(op, u, kind)
  BY DEF DataAssetNext
<1>2. snapshots' = snapshots \/ PersistSnapshot(u)
  <2>1. CASE AdmitLocal(u) \/ ParseLocal(u) \/ PutSource(u) \/ PutNormalized(u)
             \/ PersistLocal(u) \/ CleanNormalized(u) \/ CleanSource(u) \/ MarkFailed(u)
             \/ ApiDies(u)
    BY <2>1 DEF AdmitLocal, ParseLocal, PutSource, PutNormalized, PersistLocal, CleanNormalized,
       CleanSource, MarkFailed, ApiDies, RowsUnchanged
  <2>2. CASE AcceptTable(u) \/ PutTable(u) \/ EnqueueTable(u) \/ Compensate(u) \/ ClaimTable(u)
             \/ CommitTable(u) \/ FailJob(u) \/ ExpireTable(u)
    BY <2>2 DEF AcceptTable, PutTable, EnqueueTable, Compensate, ClaimTable, CommitTable,
       FailJob, ExpireTable, RowsUnchanged
  <2>3. CASE ReadSource(u) \/ ImportTable(u) \/ PutResult(u) \/ LookForSnapshot(u)
             \/ RemoveResult(u) \/ DeadlinePasses(u) \/ WorkerDies(u)
    BY <2>3 DEF ReadSource, ImportTable, PutResult, LookForSnapshot, RemoveResult,
       DeadlinePasses, WorkerDies, RowsUnchanged
  <2>4. CASE CommitTakesEffect(u) \/ CommitRollsBack(u)
             \/ \E op \in {"put", "delete"}, kind \in Kinds : RequestLands(op, u, kind)
    BY <2>4 DEF CommitTakesEffect, CommitRollsBack, RequestLands, RowsUnchanged
  <2> QED
    BY <1>1, <2>1, <2>2, <2>3, <2>4
<1>3. snapshots \in [Uploads -> Seq(Uploads)]
  BY DEF DataAssetInv, DataAssetTypeOK
<1>4. snapshots'[a] = snapshots[a] \/ snapshots'[a] = Append(snapshots[a], u)
  BY <1>2, <1>3 DEF PersistSnapshot
<1>5. ToSet(Append(snapshots[a], u)) = ToSet(snapshots[a]) \cup {u}
  BY <1>3, ListedUploads
<1> QED
  BY <1>4, <1>5

LEMMA OvertakenStay ==
    ASSUME DataAssetNext PROVE overtaken \subseteq overtaken'
<1>1. PICK u \in Uploads :
         \/ AdmitLocal(u) \/ ParseLocal(u) \/ PutSource(u) \/ PutNormalized(u) \/ PersistLocal(u)
         \/ CleanNormalized(u) \/ CleanSource(u) \/ MarkFailed(u)
         \/ AcceptTable(u) \/ PutTable(u) \/ EnqueueTable(u) \/ Compensate(u)
         \/ ClaimTable(u) \/ ReadSource(u) \/ ImportTable(u) \/ PutResult(u) \/ CommitTable(u)
         \/ FailJob(u) \/ LookForSnapshot(u) \/ RemoveResult(u)
         \/ DeadlinePasses(u) \/ ExpireTable(u) \/ ApiDies(u) \/ WorkerDies(u)
         \/ CommitTakesEffect(u) \/ CommitRollsBack(u)
         \/ \E op \in {"put", "delete"}, kind \in Kinds : RequestLands(op, u, kind)
  BY DEF DataAssetNext
<1>2. CASE AdmitLocal(u) \/ ParseLocal(u) \/ PutSource(u) \/ PutNormalized(u)
           \/ PersistLocal(u) \/ CleanNormalized(u) \/ CleanSource(u) \/ MarkFailed(u)
           \/ ApiDies(u)
  BY <1>2 DEF AdmitLocal, ParseLocal, PutSource, PutNormalized, PersistLocal, CleanNormalized,
     CleanSource, MarkFailed, ApiDies, LosesAnswer, RowsUnchanged, commitVars
<1>3. CASE AcceptTable(u) \/ PutTable(u) \/ EnqueueTable(u) \/ Compensate(u) \/ ClaimTable(u)
           \/ CommitTable(u) \/ FailJob(u) \/ ExpireTable(u)
  BY <1>3 DEF AcceptTable, PutTable, EnqueueTable, Compensate, ClaimTable, CommitTable,
     FailJob, ExpireTable, LosesAnswer, RowsUnchanged, commitVars
<1>4. CASE ReadSource(u) \/ ImportTable(u) \/ PutResult(u) \/ LookForSnapshot(u)
           \/ RemoveResult(u) \/ DeadlinePasses(u) \/ WorkerDies(u)
  BY <1>4 DEF ReadSource, ImportTable, PutResult, LookForSnapshot, RemoveResult,
     DeadlinePasses, WorkerDies, RowsUnchanged, commitVars
<1>5. CASE CommitTakesEffect(u) \/ CommitRollsBack(u)
           \/ \E op \in {"put", "delete"}, kind \in Kinds : RequestLands(op, u, kind)
  BY <1>5 DEF CommitTakesEffect, CommitRollsBack, RequestLands, RowsUnchanged, commitVars
<1> QED
  BY <1>1, <1>2, <1>3, <1>4, <1>5

\* What is shown of an asset whose row was read.
LEMMA ShowAssetGood ==
    ASSUME AssetReadsInv, NEW a, ShowAsset(a), UNCHANGED dataAssetVars, DataAssetInv'
    PROVE  AssetReadsInv'
<1>1. /\ a \in DOMAIN assetRows /\ a \in Uploads
      /\ assetRows[a] \in {"ready", "failed"} => assetStatus[a] = assetRows[a]
      /\ ReadyIfPublished(a) /\ snapshots[a] \in Seq(Uploads)
  BY DEF AssetReadsInv, ShowAsset, DataAssetInv, DataAssetTypeOK
<1>2. /\ shownAsset'.asset = a /\ shownAsset'.status = assetRows[a]
      /\ shownAsset'.latest = Latest(a) /\ readResult' = "none"
  BY DEF ShowAsset
<1>3. /\ DOMAIN assetRows' = DOMAIN assetRows \ {a}
      /\ \A b \in DOMAIN assetRows' : assetRows'[b] = assetRows[b]
  BY DEF ShowAsset, Restrict
<1>4. /\ snapshots[a] # <<>> => Latest(a) \in ToSet(snapshots[a]) /\ Latest(a) # NoSnapshot
      /\ snapshots[a] = <<>> => Latest(a) = NoSnapshot
  BY <1>1, ListedUploads, AssetReadsAssumption DEF Latest, Last
<1>5. snapshots' = snapshots /\ assetStatus' = assetStatus
  BY DEF dataAssetVars
<1>6. ShownAssetsAreUsable'
  BY <1>1, <1>2, <1>4 DEF ShownAssetsAreUsable, ReadyIfPublished
<1>7. \A b \in DOMAIN assetRows' :
         b \in Uploads /\ (assetRows'[b] \in {"ready", "failed"} => assetStatus'[b] = assetRows'[b])
  BY <1>3, <1>5 DEF AssetReadsInv
<1>8. shownAsset'.latest # NoSnapshot =>
         /\ shownAsset'.asset \in Uploads
         /\ shownAsset'.latest \in ToSet(snapshots'[shownAsset'.asset])
  BY <1>1, <1>2, <1>4, <1>5
<1> QED
  BY <1>6, <1>7, <1>8 DEF AssetReadsInv

\* Whatever the page asks for with what it was shown is found.
LEMMA RequestGood ==
    ASSUME AssetReadsInv, ListSnapshots \/ OpenSnapshot \/ LoadSnapshot, UNCHANGED dataAssetVars,
           DataAssetInv'
    PROVE  AssetReadsInv'
<1> DEFINE a == shownAsset.asset
           s == shownAsset.latest
<1>1. /\ shownAsset' = shownAsset /\ assetRows' = assetRows
      /\ snapshots' = snapshots /\ assetStatus' = assetStatus
  BY DEF ListSnapshots, OpenSnapshot, LoadSnapshot, Ends, dataAssetVars
<1>2. a \in Uploads /\ s \in ToSet(snapshots[a])
  BY DEF ListSnapshots, OpenSnapshot, LoadSnapshot, Shows, AssetReadsInv
<1>3. /\ snapshots[a] \in Seq(Uploads) /\ ReadyIfPublished(a) /\ InPublication(s, a)
  BY <1>2 DEF AssetReadsInv, DataAssetInv, DataAssetTypeOK
<1>4. Contains(snapshots[a], s) /\ snapshots[a] # <<>> /\ assetStatus[a] = "ready"
  <2>1. ToSet(<<>>) = {}
    BY DEF ToSet
  <2>2. \A x : Contains(snapshots[a], x) <=> x \in ToSet(snapshots[a])
    BY <1>2, <1>3, ListedUploads
  <2>3. snapshots[a] # <<>>
    BY <1>2, <2>1
  <2> QED
    BY <1>2, <1>3, <2>2, <2>3 DEF ReadyIfPublished
<1>5. /\ Related(a, s) /\ KeyOf(s) = <<SourceConversation(a), a, s>>
      /\ <<s, "normalized">> \in objects \/ s \in overtaken
  BY <1>3, <1>4 DEF Related, KeyOf, SourceConversation, InPublication, ResultKept, Stored
<1>6. /\ readResult' \in {"found", "readFailed", "objectMissing"}
      /\ readResult' = "objectMissing" => s \in overtaken'
  <2>1. overtaken' = overtaken
    BY DEF dataAssetVars, commitVars
  <2>2. CASE ListSnapshots \/ OpenSnapshot
    BY <1>2, <1>4, <2>2 DEF ListSnapshots, OpenSnapshot, Ends
  <2>3. CASE LoadSnapshot
    BY <1>5, <2>1, <2>3 DEF LoadSnapshot, Ends
  <2> QED
    BY <2>2, <2>3
<1>7. ShownAssetsAreUsable'
  BY <1>1, <1>6 DEF AssetReadsInv, ShownAssetsAreUsable
<1> QED
  BY <1>1, <1>7 DEF AssetReadsInv

\* A page is shown what can be used, for any assets and uploads and however they end while
\* its rows and snapshots are read; only the object of a snapshot that was overtaken can be
\* missing (ShownAssetsAreUsable, the second part of StoredDataIsReadable).
THEOREM ShownStaysUsable == AssetReadsSpec => []ShownAssetsAreUsable
<1>1. AssetReadsInit => AssetReadsInv
  <2> SUFFICES ASSUME AssetReadsInit PROVE AssetReadsInv
    OBVIOUS
  <2>1. DataAssetInv
    BY DataAssetBegins DEF AssetReadsInit
  <2>2. /\ DOMAIN assetRows = {} /\ shownAsset.latest = NoSnapshot
        /\ shownAsset.status = "none" /\ readResult = "none"
    BY DEF AssetReadsInit, NoRows, NotShown
  <2> QED
    BY <2>1, <2>2 DEF AssetReadsInv, ShownAssetsAreUsable
<1>2. ASSUME AssetReadsInv, [AssetReadsNext]_assetReadsVars PROVE AssetReadsInv'
  <2>1. CASE DataAssetNext /\ UNCHANGED assetReadVars
    <3>1. DataAssetInv /\ DataAssetInv'
      BY <1>2, <2>1, DataAssetStep DEF AssetReadsInv
    <3>2. shownAsset' = shownAsset /\ assetRows' = assetRows /\ readResult' = readResult
      BY <2>1 DEF assetReadVars
    <3>3. \A a \in Uploads : /\ ToSet(snapshots[a]) \subseteq ToSet(snapshots'[a])
                             /\ assetStatus[a] \in {"ready", "failed"} =>
                                   assetStatus'[a] = assetStatus[a]
      BY <2>1, <3>1, SnapshotsGrow, EndsStay
    <3>4. overtaken \subseteq overtaken'
      BY <2>1, OvertakenStay
    <3> QED
      BY <1>2, <3>1, <3>2, <3>3, <3>4 DEF AssetReadsInv, ShownAssetsAreUsable
  <2>2. CASE UNCHANGED dataAssetVars
    <3>1. /\ DataAssetInv' /\ assetStatus' = assetStatus /\ snapshots' = snapshots
          /\ overtaken' = overtaken
      BY <1>2, <2>2, DataAssetStutters DEF AssetReadsInv, dataAssetVars, commitVars
    <3>2. CASE \E a \in Uploads : ReadAsset(a)
      BY <1>2, <3>1, <3>2 DEF ReadAsset, AssetsThere, AssetReadsInv, ShownAssetsAreUsable
    <3>3. CASE ReadAssets
      BY <1>2, <3>1, <3>3 DEF ReadAssets, AssetsThere, AssetReadsInv, ShownAssetsAreUsable
    <3>4. CASE \E a \in Uploads : ShowAsset(a)
      BY <1>2, <2>2, <3>1, <3>4, ShowAssetGood
    <3>5. CASE ListSnapshots \/ OpenSnapshot \/ LoadSnapshot
      BY <1>2, <2>2, <3>1, <3>5, RequestGood
    <3>6. CASE UNCHANGED assetReadVars
      BY <1>2, <3>1, <3>6 DEF assetReadVars, AssetReadsInv, ShownAssetsAreUsable
    <3> QED
      BY <1>2, <2>2, <3>2, <3>3, <3>4, <3>5, <3>6 DEF AssetReadsNext, assetReadsVars
  <2> QED
    BY <1>2, <2>1, <2>2 DEF AssetReadsNext, assetReadsVars
<1>3. AssetReadsInv => ShownAssetsAreUsable
  BY DEF AssetReadsInv
<1> QED
  BY <1>1, <1>2, <1>3, PTL DEF AssetReadsSpec

\* What is in the store can be found, shown and read, and is what was uploaded, but for the
\* results of COMMITs that were decided after their worker had looked (StoredDataIsReadable).
THEOREM StoredDataStaysReadable ==
    DataAssetSpec /\ AssetReadsSpec /\ TableNormalizationSpec => []StoredDataIsReadable
  BY StoreStaysInStep, ShownStaysUsable, TablesLoad, PTL DEF StoredDataIsReadable

-----------------------------------------------------------------------------
(* Manifests: what a theme resolves to *)

Declared == Ids(manifest.themes)
Parent(id) == ThemeNamed(id).extends

\* The first of the themes with an id has that id.
LEMMA NamedFits ==
    ASSUME manifest \in Submitted, NEW id \in Declared
    PROVE  /\ ThemeNamed(id) \in Elements(manifest.themes) /\ ThemeNamed(id).id = id
           /\ id \in ThemeIds /\ Parent(id) \in ThemeIds \cup BuiltinThemes \cup {NoRef}
           /\ ThemeNamed(id).sets \subseteq Settings
<1> DEFINE themes == manifest.themes
           S == {i \in DOMAIN themes : themes[i].id = id}
<1>1. DOMAIN themes \subseteq Nat
  BY PluginManifestAssumption DEF IsManifest, IsList
<1>2. S \in SUBSET Nat /\ S # {}
  BY <1>1 DEF Declared, Ids, Elements
<1> HIDE DEF S
<1>3. PICK n \in S : \A m \in S : n <= m
  BY <1>2, LeastOf
<1>4. \E i \in DOMAIN themes : themes[i].id = id /\ \A j \in 1 .. i - 1 : themes[j].id # id
  <2>1. DOMAIN themes = 1..Len(themes) /\ Len(themes) \in Nat
    BY PluginManifestAssumption DEF IsManifest, IsList
  <2>2. n \in 1..Len(themes) /\ themes[n].id = id
    BY <1>3, <2>1 DEF S
  <2>3. \A j \in 1 .. n - 1 : j \in DOMAIN themes /\ ~(n <= j)
    BY <2>1, <2>2
  <2>4. \A j \in 1 .. n - 1 : themes[j].id # id
    BY <1>3, <2>3 DEF S
  <2> QED
    BY <2>1, <2>2, <2>4
<1>5. PICK i \in DOMAIN themes : ThemeNamed(id) = themes[i] /\ themes[i].id = id
  BY <1>4 DEF ThemeNamed
<1>6. /\ themes[i].id \in ThemeIds /\ themes[i].sets \subseteq Settings
      /\ themes[i].extends \in ThemeIds \cup BuiltinThemes \cup {NoRef}
  BY PluginManifestAssumption DEF IsManifest
<1> QED
  BY <1>5, <1>6 DEF Elements, Parent

\* What a visit finds, of what the next ones find.
Visit(nodes, visiting, id) ==
    IF id \in visiting THEN Fails("cycle")
    ELSE IF Cardinality(visiting) >= MaxThemeDepth THEN Fails("depth")
    ELSE IF id \notin Ids(manifest.themes) THEN Blank
    ELSE LET item == ThemeNamed(id)
             base == IF item.extends \in ThemeIds
                     THEN nodes[visiting \cup {id}][item.extends] ELSE Blank
         IN IF base.failed = {} THEN Override(base, item) ELSE base

LEMMA Visiting ==
    ASSUME NEW visiting \in SUBSET ThemeIds
    PROVE  /\ IsFiniteSet(visiting) /\ Cardinality(visiting) \in Nat
           /\ \A id \in ThemeIds \ visiting :
                 /\ visiting \cup {id} \in SUBSET ThemeIds
                 /\ Cardinality(visiting \cup {id}) = Cardinality(visiting) + 1
<1>1. IsFiniteSet(visiting)
  BY PluginManifestAssumption, FS_Subset
<1> QED
  BY <1>1, FS_CardinalityType, FS_AddElement

\* A visit looks at nothing but the visit of the parent.
LEMMA VisitUses ==
    ASSUME manifest \in Submitted, NEW f, NEW g,
           NEW visiting \in SUBSET ThemeIds, NEW id \in ThemeIds,
           /\ id \in Declared \ visiting /\ Cardinality(visiting) < MaxThemeDepth
           /\ Parent(id) \in ThemeIds
           => f[visiting \cup {id}][Parent(id)] = g[visiting \cup {id}][Parent(id)]
    PROVE  Visit(f, visiting, id) = Visit(g, visiting, id)
<1>1. Cardinality(visiting) \in Nat /\ MaxThemeDepth \in Nat
  BY Visiting, PluginManifestAssumption
<1>2. CASE id \in visiting \/ Cardinality(visiting) >= MaxThemeDepth \/ id \notin Declared
             \/ Parent(id) \notin ThemeIds
  BY <1>2 DEF Visit, Declared, Parent
<1>3. CASE /\ id \notin visiting /\ ~(Cardinality(visiting) >= MaxThemeDepth) /\ id \in Declared
           /\ Parent(id) \in ThemeIds
  <2>1. f[visiting \cup {id}][Parent(id)] = g[visiting \cup {id}][Parent(id)]
    BY <1>1, <1>3
  <2> QED
    BY <1>3, <2>1 DEF Visit, Declared, Parent
<1> QED
  BY <1>2, <1>3

IsNodes(f) ==
    f = [visiting \in SUBSET ThemeIds |-> [id \in ThemeIds |-> Visit(f, visiting, id)]]

\* Every visit visits one more, so that they end.
LEMMA NodesExist ==
    ASSUME manifest \in Submitted
    PROVE  \E f : IsNodes(f)
<1> DEFINE Once(f) ==
              [visiting \in SUBSET ThemeIds |-> [id \in ThemeIds |-> Visit(f, visiting, id)]]
           Holds(m, f) == \A visiting \in SUBSET ThemeIds : \A id \in ThemeIds :
                 Cardinality(visiting) + m >= MaxThemeDepth =>
                     f[visiting][id] = Visit(f, visiting, id)
           S == {m \in Nat : \E f : Holds(m, f)}
<1>0. MaxThemeDepth \in Nat
  BY PluginManifestAssumption
<1>a. ASSUME NEW f, NEW visiting \in SUBSET ThemeIds, NEW id \in ThemeIds
      PROVE  Once(f)[visiting][id] = Visit(f, visiting, id)
  OBVIOUS
<1>1. 0 \in S
  <2> DEFINE f == Once(<<>>)
  <2>1. ASSUME NEW visiting \in SUBSET ThemeIds, NEW id \in ThemeIds,
               Cardinality(visiting) + 0 >= MaxThemeDepth
        PROVE  f[visiting][id] = Visit(f, visiting, id)
    <3>1. ~(Cardinality(visiting) < MaxThemeDepth)
      BY <1>0, <2>1, Visiting
    <3>2. Visit(<<>>, visiting, id) = Visit(f, visiting, id)
      <4> HIDE DEF f
      <4> QED
        BY <3>1, VisitUses
    <3> QED
      BY <1>a, <3>2
  <2>2. Holds(0, f)
    <3> HIDE DEF f
    <3> QED
      BY <2>1
  <2> QED
    BY <2>2
<1>2. ASSUME NEW m \in Nat, m \in S PROVE m + 1 \in S
  <2>1. PICK f : Holds(m, f)
    BY <1>2
  <2> DEFINE h == Once(f)
  <2>2. ASSUME NEW visiting \in SUBSET ThemeIds, NEW id \in ThemeIds,
               Cardinality(visiting) + (m + 1) >= MaxThemeDepth
        PROVE  h[visiting][id] = Visit(h, visiting, id)
    <3>1. ASSUME id \in Declared \ visiting, Cardinality(visiting) < MaxThemeDepth,
                 Parent(id) \in ThemeIds
          PROVE  f[visiting \cup {id}][Parent(id)] = h[visiting \cup {id}][Parent(id)]
      <4>1. /\ visiting \cup {id} \in SUBSET ThemeIds
            /\ Cardinality(visiting \cup {id}) + m >= MaxThemeDepth
        BY <1>0, <2>2, <3>1, Visiting
      <4>2. h[visiting \cup {id}][Parent(id)] = Visit(f, visiting \cup {id}, Parent(id))
        BY <1>a, <3>1, <4>1
      <4> HIDE DEF h
      <4> QED
        BY <2>1, <3>1, <4>1, <4>2
    <3>2. h[visiting][id] = Visit(f, visiting, id)
      BY <1>a
    <3> HIDE DEF h
    <3>3. Visit(f, visiting, id) = Visit(h, visiting, id)
      BY <3>1, VisitUses
    <3> QED
      BY <3>2, <3>3
  <2>3. Holds(m + 1, h)
    <3> HIDE DEF h
    <3> QED
      BY <2>2
  <2>4. \E g : Holds(m + 1, g)
    <3> HIDE DEF Holds, h
    <3> QED
      BY <2>3
  <2> HIDE DEF Holds
  <2> QED
    BY <2>4
<1>3. Nat \subseteq S
  <2> HIDE DEF S
  <2> QED
    BY <1>1, <1>2, Upwards
<1>4. PICK f : Holds(MaxThemeDepth, f)
  BY <1>0, <1>3
<1> DEFINE h == Once(f)
<1>5. ASSUME NEW visiting \in SUBSET ThemeIds, NEW id \in ThemeIds
      PROVE  f[visiting][id] = Visit(f, visiting, id)
  BY <1>0, <1>4, Visiting
<1>6. ASSUME NEW visiting \in SUBSET ThemeIds, NEW id \in ThemeIds
      PROVE  Visit(f, visiting, id) = Visit(h, visiting, id)
  <2>1. ASSUME id \in Declared \ visiting, Parent(id) \in ThemeIds
        PROVE  f[visiting \cup {id}][Parent(id)] = h[visiting \cup {id}][Parent(id)]
    BY <1>a, <1>5, <2>1
  <2> HIDE DEF h
  <2> QED
    BY <2>1, VisitUses
<1>7. h = Once(h)
  <2>1. h = [visiting \in SUBSET ThemeIds |-> [id \in ThemeIds |-> Visit(f, visiting, id)]]
    OBVIOUS
  <2> HIDE DEF h
  <2> QED
    BY <1>6, <2>1
<1> HIDE DEF h
<1> QED
  BY <1>7 DEF IsNodes

\* So what the model calls a node is what the visit of it finds.
LEMMA NodeIs ==
    ASSUME manifest \in Submitted
    PROVE  \A visiting \in SUBSET ThemeIds : \A id \in ThemeIds :
               Node[visiting][id] = Visit(Node, visiting, id)
<1>1. Node = CHOOSE f : IsNodes(f)
  BY DEF Node, IsNodes, Visit
<1>2. IsNodes(Node)
  BY <1>1, NodesExist
<1>3. Node = [visiting \in SUBSET ThemeIds |-> [id \in ThemeIds |-> Visit(Node, visiting, id)]]
  BY <1>2 DEF IsNodes
<1> QED
  BY ONLY <1>3

-----------------------------------------------------------------------------
(* Manifests: the line of a theme *)

LEMMA LineFacts ==
    ASSUME NEW id \in Declared
    PROVE  /\ id \in Line(id) /\ Line(id) \subseteq Declared
           /\ \A v \in Line(id) : Extends(v) \subseteq Line(id)
           /\ \A S \in SUBSET Declared :
                 id \in S /\ (\A v \in S : Extends(v) \subseteq S) => Line(id) \subseteq S
<1>1. \A v : Extends(v) \subseteq Declared
  BY DEF Extends, Declared
<1>2. Line(id) = {u \in Declared : \A S \in SUBSET Declared :
                     (id \in S /\ \A v \in S : Extends(v) \subseteq S) => u \in S}
  BY DEF Line, Declared
<1>3. ASSUME NEW v \in Line(id), NEW w \in Extends(v)
      PROVE  w \in Line(id)
  BY <1>1, <1>2, <1>3
<1> QED
  BY <1>2, <1>3

LEMMA LineOfChild ==
    ASSUME NEW id \in Declared, NEW p \in Declared, Extends(id) = {p}
    PROVE  Line(id) = {id} \cup Line(p)
<1>1. Line(p) \subseteq Line(id) /\ id \in Line(id)
  BY LineFacts
<1>2. Line(id) \subseteq {id} \cup Line(p)
  <2> DEFINE S == {id} \cup Line(p)
  <2>1. S \in SUBSET Declared /\ id \in S
    BY LineFacts
  <2>2. \A v \in S : Extends(v) \subseteq S
    BY LineFacts
  <2> HIDE DEF S
  <2>3. Line(id) \subseteq S
    BY <2>1, <2>2, LineFacts
  <2> QED
    BY <2>3 DEF S
<1> QED
  BY <1>1, <1>2

LEMMA LineOfRoot ==
    ASSUME NEW id \in Declared, Extends(id) = {}
    PROVE  Line(id) = {id}
<1>1. {id} \in SUBSET Declared /\ id \in {id} /\ \A v \in {id} : Extends(v) \subseteq {id}
  OBVIOUS
<1>2. Line(id) \subseteq {id}
  BY <1>1, LineFacts
<1> QED
  BY <1>2, LineFacts

\* Every parent that is not a builtin theme is declared too.
ParentsDeclared == \A id \in Declared : Parent(id) \notin ThemeIds \ Declared

LEMMA ExtendsIs ==
    ASSUME manifest \in Submitted, ParentsDeclared, NEW id \in Declared
    PROVE  IF Parent(id) \in ThemeIds
           THEN Parent(id) \in Declared /\ Extends(id) = {Parent(id)}
           ELSE Extends(id) = {}
<1>1. Extends(id) = {Parent(id)} \cap Declared
  BY DEF Extends, Parent, Declared
<1>2. Declared \subseteq ThemeIds
  BY NamedFits
<1> QED
  BY <1>1, <1>2 DEF ParentsDeclared

Nearest(id, s, from) ==
    LET having == {u \in Line(id) : s \in ThemeNamed(u).sets}
    IN IF having = {} THEN from = NoRef
       ELSE from \in having /\ \A u \in having : u \in Line(from)

ResolvesWell(visiting, id) ==
    /\ Line(id) \cap visiting = {}
    /\ IsFiniteSet(Line(id)) /\ Cardinality(Line(id)) + Cardinality(visiting) <= MaxThemeDepth
    /\ \A u \in Extends(id) : id \notin Line(u)
    /\ \A s \in Settings : Nearest(id, s, Node[visiting][id].from[s])

\* A theme that resolves was not being visited, and neither was what it extends.
LEMMA ResolvedVisit ==
    ASSUME manifest \in Submitted, NEW visiting \in SUBSET ThemeIds, NEW id \in Declared,
           Node[visiting][id].failed = {}
    PROVE  /\ id \notin visiting /\ Cardinality(visiting) < MaxThemeDepth
           /\ Parent(id) \in ThemeIds => Node[visiting \cup {id}][Parent(id)].failed = {}
           /\ \A s \in Settings :
                 Node[visiting][id].from[s] =
                    IF s \in ThemeNamed(id).sets THEN id
                    ELSE IF Parent(id) \in ThemeIds
                         THEN Node[visiting \cup {id}][Parent(id)].from[s] ELSE NoRef
<1>1. id \in ThemeIds /\ ThemeNamed(id).id = id
  BY NamedFits
<1>2. Node[visiting][id] = Visit(Node, visiting, id)
  BY <1>1, NodeIs
<1>3. Fails("cycle").failed # {} /\ Fails("depth").failed # {}
  BY DEF Fails, Blank
<1>4. id \notin visiting /\ ~(Cardinality(visiting) >= MaxThemeDepth)
  BY <1>2, <1>3 DEF Visit
<1> DEFINE base == IF Parent(id) \in ThemeIds THEN Node[visiting \cup {id}][Parent(id)] ELSE Blank
<1>5. Node[visiting][id] = IF base.failed = {} THEN Override(base, ThemeNamed(id)) ELSE base
  BY <1>2, <1>4 DEF Visit, Declared, Parent
<1>6. base.failed = {} /\ Node[visiting][id] = Override(base, ThemeNamed(id))
  <2> HIDE DEF base
  <2> QED
    BY <1>5
<1>7. \A s \in Settings : Node[visiting][id].from[s] =
                             IF s \in ThemeNamed(id).sets THEN id ELSE base.from[s]
  <2> HIDE DEF base
  <2> QED
    BY <1>1, <1>6 DEF Override, Blank
<1>8. Cardinality(visiting) < MaxThemeDepth
  BY <1>4, Visiting, PluginManifestAssumption
<1>9. \A s \in Settings : Blank.from[s] = NoRef
  BY DEF Blank
<1> QED
  BY <1>4, <1>6, <1>7, <1>8, <1>9

LEMMA NearestOfRoot ==
    ASSUME NEW id, Line(id) = {id}, NEW s, NEW from,
           from = IF s \in ThemeNamed(id).sets THEN id ELSE NoRef
    PROVE  Nearest(id, s, from)
BY DEF Nearest

LEMMA NearestOfSetter ==
    ASSUME NEW id, id \in Line(id), NEW s, s \in ThemeNamed(id).sets
    PROVE  Nearest(id, s, id)
BY DEF Nearest

LEMMA NearestOfChild ==
    ASSUME NEW id, NEW p, Line(id) = {id} \cup Line(p), NEW s, s \notin ThemeNamed(id).sets,
           NEW from, Nearest(p, s, from)
    PROVE  Nearest(id, s, from)
<1>1. {u \in Line(id) : s \in ThemeNamed(u).sets} = {u \in Line(p) : s \in ThemeNamed(u).sets}
  OBVIOUS
<1> QED
  BY <1>1 DEF Nearest

LEMMA RootResolves ==
    ASSUME manifest \in Submitted, ParentsDeclared, NEW visiting \in SUBSET ThemeIds,
           NEW id \in Declared, Node[visiting][id].failed = {}, Parent(id) \notin ThemeIds
    PROVE  ResolvesWell(visiting, id)
<1>1. Extends(id) = {} /\ Line(id) = {id}
  BY ExtendsIs, LineOfRoot
<1>2. id \notin visiting /\ Cardinality(visiting) < MaxThemeDepth
  BY ResolvedVisit
<1>3. IsFiniteSet({id}) /\ Cardinality({id}) = 1
  BY FS_Singleton
<1>4. Cardinality({id}) + Cardinality(visiting) <= MaxThemeDepth
  BY <1>2, <1>3, Visiting, PluginManifestAssumption
<1>5. ASSUME NEW s \in Settings
      PROVE  Nearest(id, s, Node[visiting][id].from[s])
  <2> DEFINE from == Node[visiting][id].from[s]
  <2>1. \A t \in Settings :
           Node[visiting][id].from[t] =
              IF t \in ThemeNamed(id).sets THEN id
              ELSE IF Parent(id) \in ThemeIds
                   THEN Node[visiting \cup {id}][Parent(id)].from[t] ELSE NoRef
    BY ResolvedVisit
  <2>2. from = IF s \in ThemeNamed(id).sets THEN id ELSE NoRef
    BY <2>1
  <2>3. Nearest(id, s, from)
    <3> HIDE DEF from
    <3> QED
      BY <1>1, <2>2, NearestOfRoot
  <2> QED
    BY <2>3
<1> QED
  BY <1>1, <1>2, <1>3, <1>4, <1>5 DEF ResolvesWell

LEMMA ChildResolves ==
    ASSUME manifest \in Submitted, ParentsDeclared, NEW visiting \in SUBSET ThemeIds,
           NEW id \in Declared, Node[visiting][id].failed = {}, Parent(id) \in ThemeIds,
           ResolvesWell(visiting \cup {id}, Parent(id))
    PROVE  ResolvesWell(visiting, id)
<1> DEFINE p == Parent(id)
<1>1. p \in Declared /\ Extends(id) = {p}
  BY ExtendsIs
<1>2. Line(id) = {id} \cup Line(p)
  BY <1>1, LineOfChild
<1>3. id \notin visiting /\ id \in ThemeIds
  BY ResolvedVisit, NamedFits
<1>4. Line(p) \cap (visiting \cup {id}) = {} /\ IsFiniteSet(Line(p))
  BY DEF ResolvesWell
<1>5. Line(id) \cap visiting = {} /\ id \notin Line(p)
  BY <1>2, <1>3, <1>4
<1>6. IsFiniteSet(Line(id)) /\ Cardinality(Line(id)) = Cardinality(Line(p)) + 1
  BY <1>2, <1>4, <1>5, FS_AddElement
<1>7. Cardinality(Line(id)) + Cardinality(visiting) <= MaxThemeDepth
  <2>1. Cardinality(visiting \cup {id}) = Cardinality(visiting) + 1
        /\ Cardinality(visiting) \in Nat
    BY <1>3, Visiting
  <2>2. Cardinality(Line(p)) + Cardinality(visiting \cup {id}) <= MaxThemeDepth
    BY DEF ResolvesWell
  <2>3. Cardinality(Line(p)) \in Nat
    BY <1>4, FS_CardinalityType
  <2> HIDE DEF p
  <2> QED
    BY <1>6, <2>1, <2>2, <2>3, PluginManifestAssumption
<1>8. ASSUME NEW s \in Settings
      PROVE  Nearest(id, s, Node[visiting][id].from[s])
  <2> DEFINE from == Node[visiting][id].from[s]
  <2>1. from = IF s \in ThemeNamed(id).sets THEN id
               ELSE IF Parent(id) \in ThemeIds
                    THEN Node[visiting \cup {id}][Parent(id)].from[s] ELSE NoRef
    <3>1. \A t \in Settings :
             Node[visiting][id].from[t] =
                IF t \in ThemeNamed(id).sets THEN id
                ELSE IF Parent(id) \in ThemeIds
                     THEN Node[visiting \cup {id}][Parent(id)].from[t] ELSE NoRef
      BY ResolvedVisit
    <3> QED
      BY <3>1
  <2>2. Nearest(p, s, Node[visiting \cup {id}][Parent(id)].from[s])
    BY DEF ResolvesWell
  <2>3. id \in Line(id)
    BY <1>2
  <2>4. Nearest(id, s, from)
    <3>1. CASE s \in ThemeNamed(id).sets
      <4>1. from = id
        BY <2>1, <3>1
      <4> HIDE DEF from
      <4> QED
        BY <2>3, <3>1, <4>1, NearestOfSetter
    <3>2. CASE s \notin ThemeNamed(id).sets
      <4>1. Nearest(p, s, from)
        BY <2>1, <2>2, <3>2
      <4> HIDE DEF from, p
      <4> QED
        BY <1>2, <3>2, <4>1, NearestOfChild
    <3> QED
      BY <3>1, <3>2
  <2> QED
    BY <2>4
<1> QED
  BY <1>1, <1>5, <1>6, <1>7, <1>8 DEF ResolvesWell

\* By induction on how deep a theme may still go, what resolves resolves well.
LEMMA ResolvedWell ==
    ASSUME manifest \in Submitted, ParentsDeclared
    PROVE  \A visiting \in SUBSET ThemeIds : \A id \in Declared :
               Node[visiting][id].failed = {} => ResolvesWell(visiting, id)
<1> DEFINE Holds(m) == \A visiting \in SUBSET ThemeIds : \A id \in Declared :
               Cardinality(visiting) + m >= MaxThemeDepth /\ Node[visiting][id].failed = {}
                  => ResolvesWell(visiting, id)
           S == {m \in Nat : Holds(m)}
<1>0. MaxThemeDepth \in Nat
  BY PluginManifestAssumption
<1>1. Holds(0)
  <2> SUFFICES ASSUME NEW visiting \in SUBSET ThemeIds, NEW id \in Declared,
                      Cardinality(visiting) + 0 >= MaxThemeDepth,
                      Node[visiting][id].failed = {}
               PROVE  FALSE
    OBVIOUS
  <2>1. Cardinality(visiting) < MaxThemeDepth
    BY ResolvedVisit
  <2> QED
    BY <1>0, <2>1, Visiting
<1>2. ASSUME NEW m \in Nat, Holds(m) PROVE Holds(m + 1)
  <2> SUFFICES ASSUME NEW visiting \in SUBSET ThemeIds, NEW id \in Declared,
                      Cardinality(visiting) + (m + 1) >= MaxThemeDepth,
                      Node[visiting][id].failed = {}
               PROVE  ResolvesWell(visiting, id)
    OBVIOUS
  <2>1. CASE Parent(id) \notin ThemeIds
    BY <2>1, RootResolves
  <2>2. CASE Parent(id) \in ThemeIds
    <3>1. Parent(id) \in Declared /\ id \in ThemeIds /\ id \notin visiting
      BY <2>2, ExtendsIs, NamedFits, ResolvedVisit
    <3>2. /\ visiting \cup {id} \in SUBSET ThemeIds
          /\ Cardinality(visiting \cup {id}) + m >= MaxThemeDepth
      BY <1>0, <3>1, Visiting
    <3>3. Node[visiting \cup {id}][Parent(id)].failed = {}
      BY <2>2, ResolvedVisit
    <3>4. ResolvesWell(visiting \cup {id}, Parent(id))
      BY <1>2, <3>1, <3>2, <3>3
    <3> QED
      BY <2>2, <3>4, ChildResolves
  <2> QED
    BY <2>1, <2>2
<1>3. 0 \in S /\ \A m \in Nat : m \in S => m + 1 \in S
  <2> HIDE DEF Holds
  <2> QED
    BY <1>1, <1>2
<1>4. MaxThemeDepth \in S
  <2> HIDE DEF S
  <2> QED
    BY <1>0, <1>3, Upwards
<1>5. Holds(MaxThemeDepth)
  BY <1>4
<1> QED
  BY <1>0, <1>5, Visiting

-----------------------------------------------------------------------------
(* Manifests: what is accepted and what is rejected *)

LEMMA ListFacts ==
    ASSUME NEW seq, IsList(seq)
    PROVE  /\ Len(seq) \in Nat /\ DOMAIN seq = 1..Len(seq)
           /\ IsFiniteSet(Ids(seq)) /\ Cardinality(Ids(seq)) \in Nat
           /\ Cardinality(Ids(seq)) <= Len(seq)
<1>1. Len(seq) \in Nat /\ DOMAIN seq = 1..Len(seq)
  BY DEF IsList
<1> DEFINE f == [i \in 1..Len(seq) |-> seq[i].id]
<1>2. IsFiniteSet(1..Len(seq)) /\ Cardinality(1..Len(seq)) = Len(seq)
  <2>1. 1 \in Int /\ Len(seq) \in Int
    BY <1>1
  <2>2. CASE 1 > Len(seq)
    <3>1. Len(seq) = 0 /\ 1..Len(seq) = {}
      BY <1>1, <2>2
    <3> QED
      BY <3>1, FS_EmptySet
  <2>3. CASE ~(1 > Len(seq))
    <3>1. IsFiniteSet(1..Len(seq)) /\ Cardinality(1..Len(seq)) = Len(seq) - 1 + 1
      BY <2>1, <2>3, FS_Interval
    <3> QED
      BY <1>1, <3>1
  <2> QED
    BY <2>2, <2>3
<1>3. Ids(seq) = {f[i] : i \in 1..Len(seq)}
  BY <1>1 DEF Ids, Elements
<1>4. f \in Surjection(1..Len(seq), Ids(seq))
  <2>1. f \in [1..Len(seq) -> Ids(seq)]
    BY <1>3
  <2>2. \A x \in Ids(seq) : \E i \in 1..Len(seq) : f[i] = x
    BY <1>3
  <2> HIDE DEF f
  <2> QED
    BY <2>1, <2>2 DEF Surjection
<1> HIDE DEF f
<1>5. IsFiniteSet(Ids(seq)) /\ Cardinality(Ids(seq)) <= Cardinality(1..Len(seq))
  BY <1>2, <1>4, FS_Surjection
<1> QED
  BY <1>1, <1>2, <1>5, FS_CardinalityType

LEMMA NamedApart ==
    ASSUME NEW seq, IsList(seq), ~Repeated(seq)
    PROVE  Cardinality(Ids(seq)) = Len(seq)
BY ListFacts DEF Repeated

\* As many pairs of a kind as there are ids.
LEMMA PairsOf ==
    ASSUME NEW kind, NEW S, IsFiniteSet(S)
    PROVE  IsFiniteSet({kind} \X S) /\ Cardinality({kind} \X S) = Cardinality(S)
<1>1. IsFiniteSet({kind}) /\ Cardinality({kind}) = 1
  BY FS_Singleton
<1>2. IsFiniteSet({kind} \X S) /\ Cardinality({kind} \X S) = 1 * Cardinality(S)
  BY <1>1, FS_Product
<1> QED
  BY <1>2, FS_CardinalityType

LEMMA DisjointSum ==
    ASSUME NEW A, NEW B, IsFiniteSet(A), IsFiniteSet(B), A \cap B = {}
    PROVE  IsFiniteSet(A \cup B) /\ Cardinality(A \cup B) = Cardinality(A) + Cardinality(B)
<1>1. Cardinality(A \cap B) = 0
  BY FS_EmptySet
<1>2. /\ IsFiniteSet(A \cup B)
      /\ Cardinality(A \cup B) = Cardinality(A) + Cardinality(B) - Cardinality(A \cap B)
  BY FS_Union
<1> QED
  BY <1>1, <1>2, FS_CardinalityType

LEMMA CapabilitiesApart ==
    ASSUME manifest \in Submitted, ~Repeated(manifest.templates), ~Repeated(manifest.themes),
           ~Repeated(manifest.validators)
    PROVE  Cardinality({c \in Capabilities : c[1] # "example"})
              = Len(manifest.templates) + Len(manifest.themes) + Len(manifest.validators)
<1> DEFINE T == {"template"} \X Ids(manifest.templates)
           H == {"theme"} \X Ids(manifest.themes)
           V == {"validator"} \X Ids(manifest.validators)
<1>1. IsList(manifest.templates) /\ IsList(manifest.themes) /\ IsList(manifest.validators)
  BY PluginManifestAssumption DEF IsManifest
<1>2. IsFiniteSet(T) /\ Cardinality(T) = Len(manifest.templates)
  BY <1>1, ListFacts, NamedApart, PairsOf
<1>3. IsFiniteSet(H) /\ Cardinality(H) = Len(manifest.themes)
  BY <1>1, ListFacts, NamedApart, PairsOf
<1>4. IsFiniteSet(V) /\ Cardinality(V) = Len(manifest.validators)
  BY <1>1, ListFacts, NamedApart, PairsOf
<1>5. {c \in Capabilities : c[1] # "example"} = (T \cup H) \cup V
  BY DEF Capabilities
<1>6. T \cap H = {} /\ (T \cup H) \cap V = {}
  OBVIOUS
<1> HIDE DEF T, H, V
<1>7. IsFiniteSet(T \cup H) /\ Cardinality(T \cup H) = Cardinality(T) + Cardinality(H)
  BY <1>2, <1>3, <1>6, DisjointSum
<1>8. Cardinality((T \cup H) \cup V) = Cardinality(T \cup H) + Cardinality(V)
  BY <1>4, <1>6, <1>7, DisjointSum
<1> QED
  BY <1>2, <1>3, <1>4, <1>5, <1>7, <1>8

\* What must not be wrong for there to be no issue.
LEMMA NoIssues ==
    ASSUME NEW knows \in BOOLEAN, Issues(knows) = {}
    PROVE  /\ manifest.renderers \subseteq Supported
           /\ ~Repeated(manifest.templates) /\ ~Repeated(manifest.themes)
           /\ ~Repeated(manifest.validators)
           /\ \A item \in Elements(manifest.themes) :
                 ThemeIssues(item) = {} /\ PayloadIssues(item, knows) = {}
           /\ \A v \in Elements(manifest.validators) : RuleIssues(v.rule) = {}
<1>1. /\ \A item \in Elements(manifest.themes) :
            ThemeIssues(item) = {} /\ PayloadIssues(item, knows) = {}
      /\ \A v \in Elements(manifest.validators) : RuleIssues(v.rule) = {}
  <2>1. ASSUME NEW item \in Elements(manifest.themes),
               NEW x \in ThemeIssues(item) \cup PayloadIssues(item, knows)
        PROVE  x \in Issues(knows)
    BY DEF Issues
  <2>2. ASSUME NEW v \in Elements(manifest.validators), NEW x \in RuleIssues(v.rule)
        PROVE  x \in Issues(knows)
    BY DEF Issues
  <2> QED
    BY <2>1, <2>2
<1>2. manifest.renderers \subseteq Supported
  BY DEF Issues
<1>3. ~(Repeated(manifest.templates) \/ Repeated(manifest.themes)
          \/ Repeated(manifest.validators))
  <2>1. (IF Repeated(manifest.templates) \/ Repeated(manifest.themes)
            \/ Repeated(manifest.validators) THEN {"duplicate"} ELSE {}) \subseteq Issues(knows)
    BY DEF Issues
  <2> QED
    BY <2>1
<1> QED
  BY <1>1, <1>2, <1>3

LEMMA SomeIssues ==
    ASSUME NEW knows \in BOOLEAN, Issues(knows) # {}
    PROVE  \/ ~(manifest.renderers \subseteq Supported)
           \/ Repeated(manifest.templates) \/ Repeated(manifest.themes)
           \/ Repeated(manifest.validators)
           \/ \E t \in Elements(manifest.templates) : \E r \in t.renderers : RendererUnusable(r)
           \/ \E item \in Elements(manifest.themes) :
                 ThemeIssues(item) # {} \/ PayloadIssues(item, knows) # {}
           \/ \E v \in Elements(manifest.validators) : RuleIssues(v.rule) # {}
           \/ \E x \in Elements(manifest.validators) \cup Elements(manifest.examples) : Dangling(x)
<1> SUFFICES ASSUME /\ manifest.renderers \subseteq Supported
                    /\ ~(Repeated(manifest.templates) \/ Repeated(manifest.themes)
                            \/ Repeated(manifest.validators))
                    /\ ~(\E t \in Elements(manifest.templates) :
                            \E r \in t.renderers : RendererUnusable(r))
                    /\ \A item \in Elements(manifest.themes) :
                          ThemeIssues(item) = {} /\ PayloadIssues(item, knows) = {}
                    /\ \A v \in Elements(manifest.validators) : RuleIssues(v.rule) = {}
                    /\ ~(\E x \in Elements(manifest.validators) \cup Elements(manifest.examples) :
                            Dangling(x))
             PROVE  FALSE
  OBVIOUS
<1>1. UNION {ThemeIssues(item) \cup PayloadIssues(item, knows) :
               item \in Elements(manifest.themes)} = {}
  OBVIOUS
<1>2. UNION {RuleIssues(v.rule) : v \in Elements(manifest.validators)} = {}
  OBVIOUS
<1>3. Issues(knows) = {}
  BY <1>1, <1>2 DEF Issues
<1> QED
  BY <1>3

\* The range of a field is a range.
LEMMA ChartFacts ==
    ASSUME NEW chart \in ChartContexts, chart.low # NoRef
    PROVE  chart.low \in Nat /\ chart.high \in Nat /\ chart.low <= chart.high
BY PluginManifestAssumption DEF IsChart

LEMMA RuleFacts ==
    ASSUME manifest \in Submitted, NEW v \in Elements(manifest.validators)
    PROVE  /\ IsRule(v.rule) /\ ChartsFor(v.rule)
           /\ NoRef \notin Nat
BY PluginManifestAssumption DEF IsManifest, Elements

\* A rule without an issue can be met.
LEMMA AcceptedRules ==
    ASSUME manifest \in Submitted, manifest.renderers \subseteq Supported,
           NEW v \in Elements(manifest.validators), RuleIssues(v.rule) = {}
    PROVE  CanBeMet(v.rule)
<1> DEFINE rule == v.rule
<1>1. IsRule(rule) /\ ChartsFor(rule) /\ NoRef \notin Nat
  BY RuleFacts
<1>2. PICK some \in Supported : TRUE
  BY PluginManifestAssumption DEF IsManifest
<1> HIDE DEF rule
<1>3. RuleIssues(rule) = {}
  BY DEF rule
<1>4. CASE rule.kind = "required-role"
  <2>1. PICK chart \in ChartContexts :
           chart.renderer = some /\ chart.low # NoRef /\ rule.role \in chart.roles
    BY <1>1, <1>2, <1>4 DEF ChartsFor
  <2>2. ~Breaks(rule, chart)
    BY <1>4, <2>1 DEF Breaks
  <2> QED
    BY <2>1, <2>2 DEF CanBeMet, rule
<1>5. CASE rule.kind = "allowed-renderer"
  <2>1. rule.renderer \in Supported
    BY <1>3, <1>5 DEF RuleIssues, RendererUnusable
  <2>2. PICK chart \in ChartContexts : chart.renderer = rule.renderer /\ chart.low # NoRef
    BY <1>1, <1>5, <2>1 DEF ChartsFor
  <2>3. ~Breaks(rule, chart)
    BY <1>5, <2>2 DEF Breaks
  <2> QED
    BY <2>1, <2>2, <2>3 DEF CanBeMet, rule
<1>6. CASE rule.kind = "numeric-range"
  <2>1. /\ rule.min # NoRef \/ rule.max # NoRef
        /\ rule.min # NoRef /\ rule.max # NoRef => ~(rule.min > rule.max)
    BY <1>3, <1>6 DEF RuleIssues
  <2>2. {rule.min, rule.max} \subseteq Nat \cup {NoRef}
    BY <1>1, <1>6 DEF IsRule
  <2>3. PICK chart \in ChartContexts :
           /\ chart.renderer = some /\ chart.low # NoRef
           /\ rule.min # NoRef => chart.low = rule.min
           /\ rule.min = NoRef /\ rule.max # NoRef => chart.low = rule.max
           /\ chart.high = chart.low
    BY <1>1, <1>2, <1>6 DEF ChartsFor
  <2>4. rule.min # NoRef => ~(chart.low < rule.min)
    BY <2>2, <2>3
  <2>5. rule.max # NoRef => ~(chart.high > rule.max)
    BY <2>1, <2>2, <2>3
  <2>6. ~Breaks(rule, chart)
    BY <1>6, <2>4, <2>5 DEF Breaks
  <2> QED
    BY <2>3, <2>6 DEF CanBeMet, rule
<1> QED
  BY <1>1, <1>4, <1>5, <1>6 DEF IsRule

\* A rule with an issue has one of the faults that are named.
LEMMA RejectedRules ==
    ASSUME manifest \in Submitted, manifest.renderers \subseteq Supported,
           NEW v \in Elements(manifest.validators), RuleIssues(v.rule) # {}
    PROVE  \/ ~CanBeMet(v.rule)
           \/ v.rule.kind = "allowed-renderer" /\ v.rule.renderer \notin manifest.renderers
           \/ v.rule.kind = "numeric-range" /\ v.rule.min = NoRef /\ v.rule.max = NoRef
<1> DEFINE rule == v.rule
<1>1. IsRule(rule) /\ NoRef \notin Nat
  BY RuleFacts
<1>2. RuleIssues(rule) # {}
  OBVIOUS
<1> HIDE DEF rule
<1>3. CASE rule.kind = "allowed-renderer" /\ RendererUnusable(rule.renderer)
  <2>1. rule.renderer \notin manifest.renderers
    BY <1>3 DEF RendererUnusable
  <2> QED
    BY <1>3, <2>1 DEF rule
<1>4. CASE rule.kind = "numeric-range" /\ rule.min = NoRef /\ rule.max = NoRef
  BY <1>4 DEF rule
<1>5. CASE rule.kind = "numeric-range" /\ rule.min # NoRef /\ rule.max # NoRef
              /\ rule.min > rule.max
  <2>1. rule.min \in Nat /\ rule.max \in Nat
    BY <1>1, <1>5 DEF IsRule
  <2>2. ASSUME NEW chart \in ChartContexts, chart.low # NoRef
        PROVE  Breaks(rule, chart)
    <3>1. chart.low \in Nat /\ chart.high \in Nat /\ chart.low <= chart.high
      BY <2>2, ChartFacts
    <3>2. chart.low < rule.min \/ chart.high > rule.max
      BY <1>5, <2>1, <3>1
    <3> QED
      BY <1>5, <2>2, <3>2 DEF Breaks
  <2> QED
    BY <2>2 DEF CanBeMet, rule
<1> QED
  BY <1>2, <1>3, <1>4, <1>5 DEF RuleIssues

LEMMA AcceptedThemes ==
    ASSUME manifest \in Submitted, NEW knows \in BOOLEAN,
           \A item \in Elements(manifest.themes) :
              ThemeIssues(item) = {} /\ PayloadIssues(item, knows) = {}
    PROVE  /\ ThemesAreTrees /\ NearestWins
           /\ \A id \in Ids(manifest.themes) : \A u \in Line(id) :
                 ThemeNamed(u).sets \cap RefusedSettings = {}
<1>1. ASSUME NEW id \in Declared
      PROVE  /\ Parent(id) \notin ThemeIds \ Declared /\ Node[{}][id].failed = {}
             /\ \A s \in RefusedSettings : Node[{}][id].from[s] = NoRef
  <2>1. ThemeNamed(id) \in Elements(manifest.themes) /\ ThemeNamed(id).id = id
    BY NamedFits
  <2>2. ThemeIssues(ThemeNamed(id)) = {} /\ PayloadIssues(ThemeNamed(id), knows) = {}
    BY <2>1
  <2>3. Parent(id) \notin ThemeIds \ Declared
    BY <2>2 DEF ThemeIssues, Parent, Declared
  <2>4. Resolved[id].failed = {}
    BY <2>1, <2>2, <2>3 DEF ThemeIssues, Parent, Declared
  <2>5. ~FlintRefuses(ThemeNamed(id), Resolved[id], knows)
    BY <2>1, <2>2, <2>4 DEF PayloadIssues
  <2> QED
    BY <2>3, <2>4, <2>5 DEF FlintRefuses, Resolved
<1>2. ParentsDeclared
  BY <1>1 DEF ParentsDeclared
<1>3. ASSUME NEW id \in Declared PROVE ResolvesWell({}, id)
  <2>1. {} \in SUBSET ThemeIds
    OBVIOUS
  <2> QED
    BY <1>1, <1>2, <2>1, ResolvedWell
<1>4. ThemesAreTrees
  <2> SUFFICES ASSUME NEW id \in Declared
               PROVE  /\ \A u \in Extends(id) : id \notin Line(u)
                      /\ Cardinality(Line(id)) <= MaxThemeDepth
                      /\ ThemeNamed(id).extends \notin ThemeIds \ Declared
    BY DEF ThemesAreTrees, Declared
  <2>1. Cardinality({}) = 0
    BY FS_EmptySet
  <2>2. Cardinality(Line(id)) + 0 <= MaxThemeDepth /\ Cardinality(Line(id)) \in Nat
    BY <1>3, <2>1, FS_CardinalityType DEF ResolvesWell
  <2>3. Cardinality(Line(id)) <= MaxThemeDepth
    BY <2>2, PluginManifestAssumption
  <2> QED
    BY <1>1, <1>3, <2>3 DEF ResolvesWell, Parent
<1>5. \A id \in Declared : \A s \in Settings : Nearest(id, s, Resolved[id].from[s])
  BY <1>3 DEF ResolvesWell, Resolved
<1>6. NearestWins
  BY <1>5 DEF NearestWins, Nearest, Declared
<1>7. ASSUME NEW id \in Declared, NEW u \in Line(id), NEW s \in RefusedSettings,
             s \in ThemeNamed(u).sets
      PROVE  FALSE
  <2>1. s \in Settings
    BY PluginManifestAssumption
  <2>2. Nearest(id, s, NoRef)
    BY <1>1, <1>3, <2>1 DEF ResolvesWell
  <2>3. NoRef \in Line(id)
    BY <1>7, <2>2 DEF Nearest
  <2>4. Line(id) \subseteq ThemeIds
    BY LineFacts, NamedFits
  <2> QED
    BY <2>3, <2>4, PluginManifestAssumption
<1> QED
  BY <1>4, <1>6, <1>7 DEF Declared

\* What extends no theme of the plugin resolves to what it sets.
LEMMA RejectedThemes ==
    ASSUME manifest \in Submitted, NEW knows \in BOOLEAN,
           NEW item \in Elements(manifest.themes),
           ThemeIssues(item) # {} \/ PayloadIssues(item, knows) # {}
    PROVE  \E t \in Elements(manifest.themes) :
               t.extends \in ThemeIds \/ t.sets \cap RefusedSettings # {}
<1> SUFFICES ASSUME \A t \in Elements(manifest.themes) :
                       t.extends \notin ThemeIds /\ t.sets \cap RefusedSettings = {}
             PROVE  FALSE
  OBVIOUS
<1> DEFINE id == item.id
           named == ThemeNamed(id)
<1>1. id \in Declared /\ item.extends \notin ThemeIds
  BY DEF Declared, Ids
<1>2. /\ named \in Elements(manifest.themes) /\ named.id = id /\ id \in ThemeIds
  BY <1>1, NamedFits
<1>3. named.extends \notin ThemeIds /\ named.sets \cap RefusedSettings = {}
  BY <1>2
<1>4. Cardinality({}) = 0 /\ MaxThemeDepth \in Nat \ {0} /\ {} \in SUBSET ThemeIds
  BY FS_EmptySet, PluginManifestAssumption
<1>5. ~(Cardinality({}) >= MaxThemeDepth)
  BY <1>4
<1> HIDE DEF named
<1>6. Node[{}][id] = Visit(Node, {}, id)
  BY <1>2, <1>4, NodeIs
<1>7. Visit(Node, {}, id) = Override(Blank, named)
  <2>1. Blank.failed = {}
    BY DEF Blank
  <2> QED
    BY <1>1, <1>3, <1>5, <2>1 DEF Visit, Declared, named
<1>8. Resolved[id] = Override(Blank, named)
  BY <1>6, <1>7 DEF Resolved
<1>9. Resolved[id].failed = {}
  BY <1>8 DEF Override, Blank
<1>10. \A s \in RefusedSettings : Resolved[id].from[s] = NoRef
  BY <1>3, <1>8, PluginManifestAssumption DEF Override, Blank
<1>11. ThemeIssues(item) = {} /\ PayloadIssues(item, knows) = {}
  BY <1>1, <1>9, <1>10 DEF ThemeIssues, PayloadIssues, FlintRefuses
<1> QED
  BY <1>11

\* Whatever is wrong, it is one of the faults that are named.
Faults ==
    \/ Repeated(manifest.themes) \/ Repeated(manifest.templates)
    \/ Repeated(manifest.validators)
    \/ \E t \in Elements(manifest.themes) :
          t.extends \in ThemeIds \/ t.sets \cap RefusedSettings # {}
    \/ ~(manifest.renderers \subseteq Supported)
    \/ \E t \in Elements(manifest.templates) : ~(t.renderers \subseteq manifest.renderers)
    \/ \E v \in Elements(manifest.validators) :
          \/ ~CanBeMet(v.rule) \/ Dangling(v)
          \/ v.rule.kind = "allowed-renderer" /\ v.rule.renderer \notin manifest.renderers
          \/ v.rule.kind = "numeric-range" /\ v.rule.min = NoRef /\ v.rule.max = NoRef
    \/ \E x \in Elements(manifest.examples) : Dangling(x)

LEMMA RejectedDeserves ==
    ASSUME manifest \in Submitted, NEW knows \in BOOLEAN, Issues(knows) # {}
    PROVE  Faults
<1> SUFFICES ASSUME manifest.renderers \subseteq Supported PROVE Faults
  BY DEF Faults
<1>1. CASE \/ Repeated(manifest.templates) \/ Repeated(manifest.themes)
           \/ Repeated(manifest.validators)
  BY <1>1 DEF Faults
<1>2. CASE \E t \in Elements(manifest.templates) : \E r \in t.renderers : RendererUnusable(r)
  <2>1. \E t \in Elements(manifest.templates) : ~(t.renderers \subseteq manifest.renderers)
    BY <1>2 DEF RendererUnusable
  <2> QED
    BY <2>1 DEF Faults
<1>3. CASE \E item \in Elements(manifest.themes) :
              ThemeIssues(item) # {} \/ PayloadIssues(item, knows) # {}
  <2>1. \E t \in Elements(manifest.themes) :
           t.extends \in ThemeIds \/ t.sets \cap RefusedSettings # {}
    BY <1>3, RejectedThemes
  <2> QED
    BY <2>1 DEF Faults
<1>4. CASE \E v \in Elements(manifest.validators) : RuleIssues(v.rule) # {}
  <2>1. \E v \in Elements(manifest.validators) :
           \/ ~CanBeMet(v.rule) \/ Dangling(v)
           \/ v.rule.kind = "allowed-renderer" /\ v.rule.renderer \notin manifest.renderers
           \/ v.rule.kind = "numeric-range" /\ v.rule.min = NoRef /\ v.rule.max = NoRef
    BY <1>4, RejectedRules
  <2> QED
    BY <2>1 DEF Faults
<1>5. CASE \E x \in Elements(manifest.validators) \cup Elements(manifest.examples) : Dangling(x)
  BY <1>5 DEF Faults
<1> QED
  BY <1>1, <1>2, <1>3, <1>4, <1>5, SomeIssues

\* The inductive invariant: a manifest was judged by its issues.
ManifestInv ==
    /\ manifest \in Submitted
    /\ verdict \in {"submitted", "accepted", "valid", "broken", "rejected"}
    /\ verdict \in {"accepted", "valid", "broken"} => \E knows \in BOOLEAN : Issues(knows) = {}
    /\ verdict = "rejected" => \E knows \in BOOLEAN : Issues(knows) # {}

\* The issues are those of the manifest.
LEMMA SameManifest ==
    ASSUME UNCHANGED manifest
    PROVE  \A knows : Issues(knows)' = Issues(knows)
<1>1. \A id : ThemeNamed(id)' = ThemeNamed(id)
  BY DEF ThemeNamed
<1>2. Node' = Node
  <2>1. \A f, visiting, id : Visit(f, visiting, id)' = Visit(f, visiting, id)
    BY <1>1 DEF Visit
  <2>2. \A f : IsNodes(f)' <=> IsNodes(f)
    BY <2>1 DEF IsNodes
  <2>3. Node = CHOOSE f : IsNodes(f)
    BY DEF Node, IsNodes, Visit
  <2>4. Node' = CHOOSE f : IsNodes(f)'
    BY DEF Node, IsNodes, Visit
  <2> QED
    BY <2>2, <2>3, <2>4
<1>3. Resolved' = Resolved
  BY <1>2 DEF Resolved
<1>4. \A item : ThemeIssues(item)' = ThemeIssues(item)
  BY <1>3 DEF ThemeIssues
<1>5. \A item, knows : PayloadIssues(item, knows)' = PayloadIssues(item, knows)
  BY <1>3 DEF PayloadIssues
<1>6. \A r : RendererUnusable(r)' <=> RendererUnusable(r)
  BY DEF RendererUnusable
<1>7. \A rule : RuleIssues(rule)' = RuleIssues(rule)
  BY <1>6 DEF RuleIssues
<1>8. \A x : Dangling(x)' <=> Dangling(x)
  BY DEF Dangling
<1> QED
  BY <1>4, <1>5, <1>6, <1>7, <1>8 DEF Issues

LEMMA ManifestStep ==
    ASSUME ManifestInv, [PluginManifestNext]_manifestVars
    PROVE  ManifestInv'
<1>1. CASE ParseManifest
  <2>1. PICK knows \in BOOLEAN :
           verdict' = IF Issues(knows) = {} THEN "accepted" ELSE "rejected"
    BY <1>1 DEF ParseManifest
  <2>2. UNCHANGED manifest /\ manifest \in Submitted
    BY <1>1 DEF ParseManifest, ManifestInv
  <2>3. Issues(knows)' = Issues(knows)
    BY <2>2, SameManifest
  <2> QED
    BY <2>1, <2>2, <2>3 DEF ManifestInv
<1>2. ASSUME NEW chart \in ChartContexts, ValidateChart(chart)
      PROVE  ManifestInv'
  <2>1. UNCHANGED manifest /\ verdict = "accepted" /\ verdict' \in {"broken", "valid"}
    BY <1>2 DEF ValidateChart
  <2>2. PICK knows \in BOOLEAN : Issues(knows) = {}
    BY <2>1 DEF ManifestInv
  <2>3. Issues(knows)' = {}
    BY <2>1, <2>2, SameManifest
  <2> QED
    BY <2>1, <2>3 DEF ManifestInv
<1>3. CASE UNCHANGED manifestVars
  <2>1. UNCHANGED manifest /\ verdict' = verdict
    BY <1>3 DEF manifestVars
  <2>2. \A knows : Issues(knows)' = Issues(knows)
    BY <2>1, SameManifest
  <2> QED
    BY <2>1, <2>2 DEF ManifestInv
<1> QED
  BY <1>1, <1>2, <1>3 DEF PluginManifestNext

\* Inductive invariance of ManifestInv.
THEOREM PluginManifestInvariance == PluginManifestSpec => []ManifestInv
<1>1. PluginManifestInit => ManifestInv
  BY DEF PluginManifestInit, ManifestInv
<1> QED
  BY <1>1, ManifestStep, PTL DEF PluginManifestSpec

LEMMA ManifestResolves == ManifestInv => AcceptedManifestsResolve
<1> SUFFICES ASSUME ManifestInv PROVE AcceptedManifestsResolve
  OBVIOUS
<1>1. manifest \in Submitted
  BY DEF ManifestInv
<1>2. ASSUME verdict \in {"accepted", "valid", "broken"}
      PROVE  /\ ThemesAreTrees /\ NearestWins
             /\ Cardinality({c \in Capabilities : c[1] # "example"})
                   = Len(manifest.templates) + Len(manifest.themes) + Len(manifest.validators)
             /\ \A id \in Ids(manifest.themes) : \A u \in Line(id) :
                   ThemeNamed(u).sets \cap RefusedSettings = {}
             /\ \A v \in Elements(manifest.validators) : CanBeMet(v.rule)
  <2>1. PICK knows \in BOOLEAN : Issues(knows) = {}
    BY <1>2 DEF ManifestInv
  <2>2. /\ manifest.renderers \subseteq Supported
        /\ ~Repeated(manifest.templates) /\ ~Repeated(manifest.themes)
        /\ ~Repeated(manifest.validators)
        /\ \A item \in Elements(manifest.themes) :
              ThemeIssues(item) = {} /\ PayloadIssues(item, knows) = {}
        /\ \A v \in Elements(manifest.validators) : RuleIssues(v.rule) = {}
    BY <2>1, NoIssues
  <2>3. /\ ThemesAreTrees /\ NearestWins
        /\ \A id \in Ids(manifest.themes) : \A u \in Line(id) :
              ThemeNamed(u).sets \cap RefusedSettings = {}
    BY <1>1, <2>2, AcceptedThemes
  <2>4. Cardinality({c \in Capabilities : c[1] # "example"})
           = Len(manifest.templates) + Len(manifest.themes) + Len(manifest.validators)
    BY <1>1, <2>2, CapabilitiesApart
  <2>5. \A v \in Elements(manifest.validators) : CanBeMet(v.rule)
    BY <1>1, <2>2, AcceptedRules
  <2> QED
    BY <2>3, <2>4, <2>5
<1>3. ASSUME verdict = "rejected" PROVE Faults
  <2>1. PICK knows \in BOOLEAN : Issues(knows) # {}
    BY <1>3 DEF ManifestInv
  <2> QED
    BY <1>1, <2>1, RejectedDeserves
<1> QED
  BY <1>2, <1>3 DEF AcceptedManifestsResolve, Faults

\* The themes of an accepted manifest resolve, its capabilities are apart and its rules can be
\* met; one that is rejected deserves it (AcceptedManifestsResolve).
THEOREM ManifestsResolve == PluginManifestSpec => []AcceptedManifestsResolve
BY PluginManifestInvariance, ManifestResolves, PTL

\* Neither a plugin alone nor the plugins of a project together are refused when used
\* (PluginsFitTogether).
THEOREM PluginsStayTogether ==
    ProjectPluginsSpec /\ PluginManifestSpec => []PluginsFitTogether
  BY PluginsNeverClash, ManifestsResolve, PTL DEF PluginsFitTogether
=============================================================================
