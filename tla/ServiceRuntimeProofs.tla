------------------------ MODULE ServiceRuntimeProofs ------------------------
(***************************************************************************)
(* The service runtime, for any services, classes, prunes and failures.    *)
(***************************************************************************)
EXTENDS ServiceRuntime, FiniteSetTheorems, SequenceTheorems,
        WellFoundedInduction, TLAPS

\* A set that holds 0 and, with a number, the next one holds every number.
LEMMA NatsIn ==
  ASSUME NEW S, 0 \in S, \A n \in Nat : n \in S => n + 1 \in S
  PROVE  Nat \subseteq S
<1> DEFINE R == OpToRel(<, Nat)
           T == Nat \ S
<1> SUFFICES ASSUME T # {} PROVE FALSE
  OBVIOUS
<1>1. IsWellFoundedOn(R, Nat)
  BY NatLessThanWellFounded
<1>2. \A i, j \in Nat : i < j => <<i, j>> \in R
  BY DEF OpToRel
<1> HIDE DEF R
<1>3. PICK m \in T : \A n \in T : ~(<<n, m>> \in R)
  BY <1>1, WFMin
<1>4. m \in Nat \ {0}
  OBVIOUS
<1>5. m - 1 \in Nat /\ m - 1 < m /\ (m - 1) + 1 = m
  BY <1>4
<1>6. m - 1 \notin T
  BY <1>2, <1>3, <1>5
<1> QED
  BY <1>3, <1>5, <1>6

\* What a function F on S yields when it is applied n times from b on.
Orbit(g, S, F, b, n) ==
  /\ g \in [0 .. n -> S] /\ g[0] = b
  /\ \A i \in 0 .. n - 1 : g[i + 1] = F[g[i]]

LEMMA Iterated ==
  ASSUME NEW S, NEW F \in [S -> S], NEW b \in S, NEW N \in Nat
  PROVE  \E g : Orbit(g, S, F, b, N)
<1> DEFINE Good(g, n) == Orbit(g, S, F, b, n)
           I == {n \in Nat : \E g : Good(g, n)}
<1>1. 0 \in I
  <2> DEFINE g == [i \in 0 .. 0 |-> b]
  <2>1. Good(g, 0)
    BY DEF Orbit
  <2> QED
    BY <2>1
<1>2. ASSUME NEW n \in Nat, n \in I
      PROVE  n + 1 \in I
  <2> PICK g : Good(g, n)
    BY <1>2
  <2> USE DEF Orbit
  <2> DEFINE h == [i \in 0 .. n + 1 |-> IF i = n + 1 THEN F[g[n]] ELSE g[i]]
  <2>1. g[n] \in S
    OBVIOUS
  <2>2. h \in [0 .. n + 1 -> S] /\ h[0] = b
    BY <2>1
  <2>3. ASSUME NEW i \in 0 .. n
        PROVE  h[i + 1] = F[h[i]]
    <3>1. i \in 0 .. n + 1 /\ i + 1 \in 0 .. n + 1 /\ h[i] = g[i]
      OBVIOUS
    <3>2. CASE i = n
      BY <3>1, <3>2
    <3>3. CASE i # n
      <4>1. i \in 0 .. n - 1 /\ i + 1 # n + 1
        BY <3>3
      <4> QED
        BY <3>1, <4>1
    <3> QED
      BY <3>2, <3>3
  <2> HIDE DEF h
  <2>4. (n + 1) - 1 = n
    OBVIOUS
  <2>5. Good(h, n + 1)
    BY <2>2, <2>3, <2>4
  <2> QED
    BY <2>5
<1> HIDE DEF I
<1>3. N \in I
  BY <1>1, <1>2, NatsIn
<1> QED
  BY <1>3 DEF I

-----------------------------------------------------------------------------
(* The graph                                                               *)

\* Whoever depends on a key of R is in R.
Closed(df, R) == Dependents(df, R) \subseteq R

LEMMA ClosedMeans ==
  ASSUME NEW df, NEW R
  PROVE  Closed(df, R) <=>
           \A k \in Defined(df) : DepsOf(df[k]) \cap R # {} => k \in R
  BY DEF Closed, Dependents

LEMMA DependentsTyped ==
  ASSUME NEW df, NEW R
  PROVE  Dependents(df, R) \subseteq Services /\ Defined(df) \subseteq Services
  BY DEF Dependents, Defined

\* Each round closes the set or makes it larger, and there are as many rounds
\* as services.
LEMMA AffectedIs ==
  ASSUME RuntimeAssumption, NEW df, NEW keys \in SUBSET Services
  PROVE  \E R \in SUBSET Services :
           keys \subseteq R /\ Closed(df, R)
             /\ Affected(df, keys) = R \cap Defined(df)
<1> DEFINE N == Cardinality(Services)
           F == [R \in SUBSET Services |-> R \cup Dependents(df, R)]
           Reach(g) == g = [n \in 0 .. N |->
                         IF n = 0 THEN keys
                         ELSE LET before == g[n - 1]
                              IN  before \cup Dependents(df, before)]
<1>1. IsFiniteSet(Services) /\ N \in Nat
  BY FS_CardinalityType DEF RuntimeAssumption
<1>2. F \in [SUBSET Services -> SUBSET Services]
  BY DependentsTyped
<1> HIDE DEF N
<1>3. \E g \in [0 .. N -> SUBSET Services] :
        g[0] = keys /\ \A n \in 0 .. N - 1 : g[n + 1] = F[g[n]]
  <2> DEFINE S == SUBSET Services
  <2>1. F \in [S -> S] /\ keys \in S
    BY <1>2
  <2> HIDE DEF F, S
  <2>2. \E g : Orbit(g, S, F, keys, N)
    BY <1>1, <2>1, Iterated
  <2> QED
    BY <2>2 DEF S, Orbit
<1>4. \E g : Reach(g)
  <2>1. PICK g \in [0 .. N -> SUBSET Services] :
          g[0] = keys /\ \A n \in 0 .. N - 1 : g[n + 1] = F[g[n]]
    BY <1>3
  <2>2. ASSUME NEW n \in 0 .. N
        PROVE  g[n] = IF n = 0 THEN keys
                      ELSE g[n - 1] \cup Dependents(df, g[n - 1])
    <3>1. CASE n = 0
      BY <2>1, <3>1
    <3>2. CASE n # 0
      <4>1. n - 1 \in 0 .. N - 1 /\ (n - 1) + 1 = n /\ n - 1 \in 0 .. N
        BY <1>1, <3>2
      <4>2. g[n - 1] \in SUBSET Services
        BY <2>1, <4>1
      <4>3. g[n] = F[g[n - 1]]
        BY <2>1, <4>1
      <4> QED
        BY <3>2, <4>2, <4>3
    <3> QED
      BY <3>1, <3>2
  <2>3. g = [n \in 0 .. N |-> g[n]]
    BY <2>1
  <2> QED
    BY <2>2, <2>3
<1> DEFINE reach == CHOOSE g : Reach(g)
<1>5. Reach(reach)
  BY <1>4
<1>6. Affected(df, keys) = reach[N] \cap Defined(df)
  BY DEF Affected, N
<1> HIDE DEF reach
<1>7. reach[0] = keys
  BY <1>1, <1>5
<1>8. ASSUME NEW n \in 0 .. N - 1
      PROVE  reach[n + 1] = reach[n] \cup Dependents(df, reach[n])
  <2>1. n + 1 \in 0 .. N /\ n + 1 # 0 /\ (n + 1) - 1 = n
    BY <1>1
  <2> QED
    BY <1>5, <2>1
<1> DEFINE Large(n) == /\ reach[n] \in SUBSET Services /\ keys \subseteq reach[n]
                       /\ Closed(df, reach[n]) \/ Cardinality(reach[n]) >= n
           I == {n \in Nat : n <= N => Large(n)}
<1>9. 0 \in I
  <2>1. Cardinality(keys) \in Nat
    BY <1>1, FS_Subset, FS_CardinalityType
  <2> QED
    BY <1>7, <2>1
<1>10. ASSUME NEW n \in Nat, n \in I
       PROVE  n + 1 \in I
  <2> SUFFICES ASSUME n + 1 <= N PROVE Large(n + 1)
    OBVIOUS
  <2>1. n \in 0 .. N - 1 /\ n <= N
    BY <1>1
  <2>2. Large(n)
    BY <1>10, <2>1
  <2>3. reach[n + 1] = reach[n] \cup Dependents(df, reach[n])
    BY <1>8, <2>1
  <2>4. reach[n + 1] \in SUBSET Services /\ keys \subseteq reach[n + 1]
    BY <2>2, <2>3, DependentsTyped
  <2>5. CASE Closed(df, reach[n])
    <3>1. reach[n + 1] = reach[n]
      BY <2>3, <2>5 DEF Closed
    <3> QED
      BY <2>4, <2>5, <3>1
  <2>6. CASE ~Closed(df, reach[n])
    <3>1. PICK x \in Dependents(df, reach[n]) : x \notin reach[n]
      BY <2>6 DEF Closed
    <3>2. IsFiniteSet(reach[n]) /\ IsFiniteSet(reach[n + 1])
      BY <1>1, <2>2, <2>4, FS_Subset
    <3>3. Cardinality(reach[n]) \in Nat /\ Cardinality(reach[n + 1]) \in Nat
      BY <3>2, FS_CardinalityType
    <3>4. Cardinality(reach[n] \cup {x}) = Cardinality(reach[n]) + 1
      BY <3>1, <3>2, FS_AddElement
    <3>5. reach[n] \cup {x} \in SUBSET reach[n + 1]
      BY <2>3, <3>1
    <3>6. Cardinality(reach[n] \cup {x}) <= Cardinality(reach[n + 1])
      BY <3>2, <3>5, FS_Subset
    <3>7. Cardinality(reach[n]) >= n
      BY <2>2, <2>6
    <3>8. Cardinality(reach[n + 1]) >= n + 1
      BY <3>3, <3>4, <3>6, <3>7
    <3> QED
      BY <2>4, <3>8
  <2> QED
    BY <2>5, <2>6
<1> HIDE DEF I
<1>11. N \in I
  BY <1>1, <1>9, <1>10, NatsIn
<1>12. Large(N)
  BY <1>11 DEF I
<1>13. Closed(df, reach[N])
  <2>1. CASE Cardinality(reach[N]) >= N
    <3>1. /\ Cardinality(reach[N]) \in Nat
          /\ Cardinality(reach[N]) <= Cardinality(Services)
      BY <1>1, <1>12, FS_Subset, FS_CardinalityType
    <3>2. Cardinality(Services) = Cardinality(reach[N])
      BY <1>1, <2>1, <3>1 DEF N
    <3>3. reach[N] = Services
      BY <1>1, <1>12, <3>2, FS_Subset
    <3> QED
      BY <3>3, DependentsTyped DEF Closed
  <2> QED
    BY <1>12, <2>1
<1> QED
  BY <1>6, <1>12, <1>13

\* Level upon level: no key is in two, and what a key depends on here is below.
Sorted(df, lv) ==
  /\ \A m, n \in DOMAIN lv : m # n => lv[m] \cap lv[n] = {}
  /\ \A n \in DOMAIN lv : \A k \in lv[n] :
       \A d \in DepsOf(df[k]) \cap Placed(lv) :
         \E m \in DOMAIN lv : m < n /\ d \in lv[m]

\* The same of levels still being made, and the keys that come next.
Arranged(df, keys, lv) ==
  /\ lv \in Seq(SUBSET keys)
  /\ \A m, n \in DOMAIN lv : m # n => lv[m] \cap lv[n] = {}
  /\ \A n \in DOMAIN lv : \A k \in lv[n] : \A d \in DepsOf(df[k]) \cap keys :
       \E m \in DOMAIN lv : m < n /\ d \in lv[m]

Layer(df, keys, below) ==
  {k \in keys \ Placed(below) : DepsOf(df[k]) \cap keys \subseteq Placed(below)}

LEMMA OneMore ==
  ASSUME NEW df, NEW keys, NEW lv, Arranged(df, keys, lv)
  PROVE  Arranged(df, keys, Append(lv, Layer(df, keys, lv)))
<1> DEFINE next == Layer(df, keys, lv)
           up == Append(lv, next)
<1>1. next \in SUBSET keys /\ lv \in Seq(SUBSET keys)
  BY DEF Layer, Arranged
<1>2. /\ up \in Seq(SUBSET keys) /\ Len(lv) \in Nat
      /\ DOMAIN up = 1 .. Len(lv) + 1 /\ DOMAIN lv = 1 .. Len(lv)
      /\ \A n \in DOMAIN lv : n # Len(lv) + 1 /\ n \in DOMAIN up /\ up[n] = lv[n]
      /\ up[Len(lv) + 1] = next
  <2>1. Len(lv) \in Nat /\ DOMAIN lv = 1 .. Len(lv)
    BY <1>1, LenProperties
  <2>2. /\ up \in Seq(SUBSET keys) /\ Len(up) = Len(lv) + 1
        /\ \A n \in 1 .. Len(lv) : up[n] = lv[n]
        /\ up[Len(lv) + 1] = next
    BY <1>1, AppendProperties
  <2>3. DOMAIN up = 1 .. Len(lv) + 1
    BY <2>2, LenProperties
  <2> QED
    BY <2>1, <2>2, <2>3
<1> HIDE DEF up, next
<1>3. \A n \in DOMAIN up : n \in DOMAIN lv \/ n = Len(lv) + 1
  BY <1>2
<1>4. \A n \in DOMAIN lv : lv[n] \cap next = {}
  BY DEF next, Layer, Placed
<1>5. ASSUME NEW m \in DOMAIN up, NEW n \in DOMAIN up, m # n
      PROVE  up[m] \cap up[n] = {}
  <2>1. CASE m \in DOMAIN lv /\ n \in DOMAIN lv
    BY <1>2, <1>5, <2>1 DEF Arranged
  <2>2. CASE m \in DOMAIN lv /\ n = Len(lv) + 1
    BY <1>2, <1>4, <2>2
  <2>3. CASE n \in DOMAIN lv /\ m = Len(lv) + 1
    BY <1>2, <1>4, <2>3
  <2> QED
    BY <1>3, <1>5, <2>1, <2>2, <2>3
<1>6. ASSUME NEW n \in DOMAIN up, NEW k \in up[n],
             NEW d \in DepsOf(df[k]) \cap keys
      PROVE  \E m \in DOMAIN up : m < n /\ d \in up[m]
  <2>1. CASE n \in DOMAIN lv
    <3>1. PICK m \in DOMAIN lv : m < n /\ d \in lv[m]
      BY <1>2, <2>1 DEF Arranged
    <3> QED
      BY <1>2, <3>1
  <2>2. CASE n = Len(lv) + 1
    <3>1. d \in Placed(lv)
      BY <1>2, <2>2 DEF next, Layer
    <3>2. PICK m \in DOMAIN lv : d \in lv[m]
      BY <3>1 DEF Placed
    <3>3. m < n
      BY <1>2, <2>2
    <3> QED
      BY <1>2, <3>2, <3>3
  <2> QED
    BY <1>3, <2>1, <2>2
<1> QED
  BY <1>2, <1>5, <1>6 DEF Arranged, up, next

\* Levels are a sequence of sets of the keys, sorted by dependency.
LEMMA LevelsAre ==
  ASSUME RuntimeAssumption, NEW df, NEW keys \in SUBSET Services
  PROVE  Levels(df, keys) \in Seq(SUBSET Services) /\ Sorted(df, Levels(df, keys))
<1> DEFINE N == Cardinality(keys)
           S == Seq(SUBSET keys)
           F == [below \in S |->
                  IF Layer(df, keys, below) = {} THEN below
                  ELSE Append(below, Layer(df, keys, below))]
           Up(g) == g = [n \in 0 .. N |->
             IF n = 0 THEN <<>>
             ELSE LET below == g[n - 1]
                      next == {k \in keys \ Placed(below) :
                                 DepsOf(df[k]) \cap keys \subseteq Placed(below)}
                  IN  IF next = {} THEN below ELSE Append(below, next)]
<1>1. N \in Nat
  BY FS_Subset, FS_CardinalityType DEF RuntimeAssumption
<1>2. F \in [S -> S]
  <2>1. ASSUME NEW below \in S
        PROVE  Append(below, Layer(df, keys, below)) \in S
    <3>1. Layer(df, keys, below) \in SUBSET keys
      BY DEF Layer
    <3> QED
      BY <3>1, AppendProperties
  <2> QED
    BY <2>1
<1>3. <<>> \in S
  BY EmptySeq
<1> HIDE DEF N
<1>4. PICK h : Orbit(h, S, F, <<>>, N)
  <2> HIDE DEF F, S
  <2> QED
    BY <1>1, <1>2, <1>3, Iterated
<1>5. Up(h)
  <2>1. /\ h \in [0 .. N -> S] /\ h[0] = <<>>
        /\ \A n \in 0 .. N - 1 : h[n + 1] = F[h[n]]
    BY <1>4 DEF Orbit
  <2>2. ASSUME NEW n \in 0 .. N, n # 0
        PROVE  h[n] = IF Layer(df, keys, h[n - 1]) = {} THEN h[n - 1]
                      ELSE Append(h[n - 1], Layer(df, keys, h[n - 1]))
    <3>1. n - 1 \in 0 .. N - 1 /\ (n - 1) + 1 = n /\ n - 1 \in 0 .. N
      BY <1>1, <2>2
    <3>2. h[n - 1] \in S
      BY <2>1, <3>1
    <3>3. h[n] = F[h[n - 1]]
      BY <2>1, <3>1
    <3> HIDE DEF S
    <3> QED
      BY <3>2, <3>3
  <2>3. h = [n \in 0 .. N |-> h[n]]
    BY <2>1
  <2> QED
    BY <2>1, <2>2, <2>3 DEF Layer
<1> DEFINE upTo == CHOOSE g : Up(g)
<1>6. Up(upTo)
  BY <1>5
<1>7. Levels(df, keys) = upTo[N]
  BY DEF Levels, N
<1> HIDE DEF upTo
<1>8. upTo[0] = <<>>
  BY <1>1, <1>6
<1>9. ASSUME NEW n \in 0 .. N - 1
      PROVE  upTo[n + 1] = IF Layer(df, keys, upTo[n]) = {} THEN upTo[n]
                           ELSE Append(upTo[n], Layer(df, keys, upTo[n]))
  <2>1. n + 1 \in 0 .. N /\ n + 1 # 0 /\ (n + 1) - 1 = n
    BY <1>1
  <2> QED
    BY <1>6, <2>1 DEF Layer
<1> DEFINE I == {n \in Nat : n <= N => Arranged(df, keys, upTo[n])}
<1>10. 0 \in I
  <2>1. DOMAIN << >> = {}
    OBVIOUS
  <2> QED
    BY <1>3, <1>8, <2>1 DEF Arranged
<1>11. ASSUME NEW n \in Nat, n \in I
       PROVE  n + 1 \in I
  <2> SUFFICES ASSUME n + 1 <= N PROVE Arranged(df, keys, upTo[n + 1])
    OBVIOUS
  <2>1. n \in 0 .. N - 1 /\ n <= N
    BY <1>1
  <2>2. Arranged(df, keys, upTo[n])
    BY <1>11, <2>1
  <2>3. \/ upTo[n + 1] = upTo[n]
        \/ upTo[n + 1] = Append(upTo[n], Layer(df, keys, upTo[n]))
    BY <1>9, <2>1
  <2> QED
    BY <2>2, <2>3, OneMore
<1> HIDE DEF I
<1>12. Arranged(df, keys, upTo[N])
  <2>1. N \in I
    BY <1>1, <1>10, <1>11, NatsIn
  <2> QED
    BY <1>1, <2>1 DEF I
<1> DEFINE lv == upTo[N]
<1>13. /\ lv \in Seq(SUBSET keys)
       /\ \A m, n \in DOMAIN lv : m # n => lv[m] \cap lv[n] = {}
       /\ \A n \in DOMAIN lv : \A k \in lv[n] : \A d \in DepsOf(df[k]) \cap keys :
            \E m \in DOMAIN lv : m < n /\ d \in lv[m]
  BY <1>12 DEF Arranged
<1> HIDE DEF lv
<1>14. Placed(lv) \subseteq keys
  <2>1. \A n \in DOMAIN lv : lv[n] \subseteq keys
    BY <1>13, ElementOfSeq, LenProperties
  <2> QED
    BY <2>1 DEF Placed
<1>15. Sorted(df, lv)
  BY <1>13, <1>14 DEF Sorted
<1>16. lv \in Seq(SUBSET Services)
  <2> DEFINE S1 == SUBSET keys
           S2 == SUBSET Services
  <2>1. S1 \subseteq S2 /\ lv \in Seq(S1)
    BY <1>13
  <2> HIDE DEF S1, S2
  <2>2. lv \in Seq(S2)
    BY <2>1, SeqMonotonic
  <2> QED
    BY <2>2 DEF S2
<1> QED
  BY <1>7, <1>15, <1>16 DEF lv

-----------------------------------------------------------------------------
(* The head of a batch                                                     *)

\* What reconcileBatch leaves behind before its first await, entered with
\* these keys dirty: nothing affected is defined, or there is a cycle, or the
\* cleanups of the top level are on their way.
Starting(keys) ==
  /\ dirty = {}
  /\ \E R \in SUBSET Services :
       /\ keys \subseteq R /\ Closed(defs, R)
       /\ \/ /\ batch = [NoBatch EXCEPT !.phase = "empty"] /\ jobs = NoJobs
             /\ R \cap Defined(defs) = {}
          \/ batch = [NoBatch EXCEPT !.phase = "thrown"] /\ jobs = NoJobs
          \/ /\ batch = [phase |-> "cleaning", levels |-> batch.levels,
                         at |-> Len(batch.levels)]
             /\ batch.levels \in Seq(SUBSET Services)
             /\ batch.at \in DOMAIN batch.levels
             /\ Placed(batch.levels) = R \cap Defined(defs)
             /\ Sorted(defs, batch.levels)
             /\ jobs = CleanJobs(slots, batch.levels[batch.at])

LEMMA StartIs ==
  ASSUME NEW keys \in SUBSET Services, keys # {},
         StartBatch(defs', slots', keys)
  PROVE  Starting(keys)'
<1> DEFINE affected == Affected(defs', keys)
           levels == Levels(defs', affected)
<1>1. PICK R \in SUBSET Services :
        keys \subseteq R /\ Closed(defs', R) /\ affected = R \cap Defined(defs')
  BY AffectedIs, RuntimeAssumption
<1>2. levels \in Seq(SUBSET Services) /\ Sorted(defs', levels)
  <2>1. affected \in SUBSET Services
    BY <1>1
  <2> HIDE DEF affected
  <2> QED
    BY <2>1, LevelsAre, RuntimeAssumption
<1>3. LET phase == IF keys = {} THEN "settled"
                   ELSE IF affected = {} THEN "empty"
                   ELSE IF Placed(levels) # affected THEN "thrown"
                   ELSE "cleaning"
      IN  /\ dirty' = {}
          /\ IF phase = "cleaning"
             THEN /\ batch' = [phase |-> phase, levels |-> levels,
                               at |-> Len(levels)]
                  /\ jobs' = CleanJobs(slots', levels[Len(levels)])
             ELSE /\ batch' = [NoBatch EXCEPT !.phase = phase]
                  /\ jobs' = NoJobs
  BY DEF StartBatch
<1> HIDE DEF affected, levels
<1>4. CASE affected = {}
  BY <1>1, <1>3, <1>4 DEF Starting
<1>5. CASE affected # {} /\ Placed(levels) # affected
  BY <1>1, <1>3, <1>5 DEF Starting
<1>6. CASE affected # {} /\ Placed(levels) = affected
  <2>1. Len(levels) \in Nat /\ DOMAIN levels = 1 .. Len(levels)
    BY <1>2, LenProperties
  <2>2. Len(levels) \in DOMAIN levels
    BY <1>6, <2>1 DEF Placed
  <2>3. /\ batch' = [phase |-> "cleaning", levels |-> levels,
                     at |-> Len(levels)]
        /\ jobs' = CleanJobs(slots', levels[Len(levels)]) /\ dirty' = {}
    BY <1>3, <1>6
  <2>4. batch'.levels = levels /\ batch'.at = Len(levels)
    BY <2>3
  <2> QED
    BY <1>1, <1>2, <1>6, <2>2, <2>3, <2>4 DEF Starting
<1> QED
  BY <1>4, <1>5, <1>6

Working == batch.phase \in {"cleaning", "evaluating"}

\* scheduleReconcile: the keys join the dirty ones, or a batch begins.
Scheduled(keys) ==
  \/ Draining /\ dirty' = dirty \cup keys /\ UNCHANGED <<batch, jobs>>
  \/ ~Draining /\ \E D \in SUBSET Services : D = dirty \cup keys /\ Starting(D)'

LEMMA ScheduledIs ==
  ASSUME TypeOK, NEW keys \in SUBSET Services, keys # {},
         ScheduleReconcile(defs', slots', keys)
  PROVE  Scheduled(keys)
<1>1. CASE Draining
  BY <1>1 DEF ScheduleReconcile, Scheduled
<1>2. CASE ~Draining
  <2>1. PICK D \in SUBSET Services : D = dirty \cup keys
    BY DEF TypeOK
  <2>2. StartBatch(defs', slots', D)
    BY <1>2, <2>1 DEF ScheduleReconcile, StartBatch
  <2> QED
    BY <1>2, <2>1, <2>2, StartIs DEF Scheduled
<1> QED
  BY <1>1, <1>2

\* The end of a batch: there is none now, or the next one begins.
Ended ==
  \/ dirty = {} /\ batch' = NoBatch /\ UNCHANGED <<dirty, jobs>>
  \/ \E D \in SUBSET Services : D = dirty /\ Starting(D)'

LEMMA EndedIs ==
  ASSUME TypeOK, BatchDone \/ BatchThrew
  PROVE  Ended
<1>1. CASE dirty = {}
  BY <1>1 DEF BatchDone, BatchThrew, Ended
<1>2. CASE dirty # {}
  <2>1. PICK D \in SUBSET Services : D = dirty
    BY DEF TypeOK
  <2>2. StartBatch(defs', slots', D)
    BY <1>2, <2>1 DEF BatchDone, BatchThrew, regVars, StartBatch
  <2> QED
    BY <1>2, <2>1, <2>2, StartIs DEF Ended
<1> QED
  BY <1>1, <1>2

-----------------------------------------------------------------------------
(* Types                                                                   *)

Batch == [phase : Phases, levels : Seq(SUBSET Services), at : Nat]

Counts == [registers : Nat, reloads : Nat, prunes : Nat, failures : Nat]

LEMMA Blanks ==
  /\ NoClass \in Class /\ NoSlot \in Slot /\ NoJob \in Job
  /\ NoJobs \in [Services -> Job] /\ NoBatch \in Batch
  /\ NoCtx \in [Services -> Nat]
  /\ \A p \in Phases : [NoBatch EXCEPT !.phase = p] \in Batch
<1>1. NoClass \in Class
  BY DEF NoClass, Class
<1>2. NoSlot \in Slot
  BY DEF NoSlot, Slot
<1>3. NoJob \in Job
  BY <1>1 DEF NoJob, Job, Stages
<1>4. NoBatch \in Batch
  BY EmptySeq DEF NoBatch, Batch, Phases
<1>5. \A p \in Phases : [NoBatch EXCEPT !.phase = p] \in Batch
  BY EmptySeq DEF NoBatch, Batch, Phases
<1>6. NoCtx \in [Services -> Nat]
  BY DEF NoCtx
<1> QED
  BY <1>1, <1>2, <1>3, <1>4, <1>5, <1>6 DEF NoJobs

LEMMA StartTyped ==
  ASSUME NEW D, Starting(D)', slots' \in [Services -> Slot]
  PROVE  dirty' = {} /\ batch' \in Batch /\ jobs' \in [Services -> Job]
<1>1. dirty' = {}
  BY DEF Starting
<1>2. CASE /\ batch' = [NoBatch EXCEPT !.phase = "empty"] \/
              batch' = [NoBatch EXCEPT !.phase = "thrown"]
           /\ jobs' = NoJobs
  BY <1>1, <1>2, Blanks DEF Phases
<1>3. CASE /\ batch' = [phase |-> "cleaning", levels |-> batch'.levels,
                        at |-> Len(batch'.levels)]
           /\ batch'.levels \in Seq(SUBSET Services)
           /\ jobs' = CleanJobs(slots', batch'.levels[batch'.at])
  <2>1. Len(batch'.levels) \in Nat
    BY <1>3, LenProperties
  <2>2. batch' \in Batch
    BY <1>3, <2>1 DEF Batch, Phases
  <2>3. ASSUME NEW k \in Services
        PROVE  [NoJob EXCEPT !.stage = "cleaning", !.inst = slots'[k].inst] \in Job
    <3>1. slots'[k].inst \in Nat
      BY DEF Slot
    <3> QED
      BY <3>1, Blanks DEF Job, Stages
  <2>4. jobs' \in [Services -> Job]
    BY <1>3, <2>3, Blanks DEF CleanJobs
  <2> QED
    BY <1>1, <2>2, <2>4
<1> QED
  BY <1>2, <1>3 DEF Starting

LEMMA ScheduledTyped ==
  ASSUME TypeOK, NEW keys \in SUBSET Services, Scheduled(keys),
         slots' \in [Services -> Slot]
  PROVE  dirty' \subseteq Services /\ batch' \in Batch /\ jobs' \in [Services -> Job]
  BY StartTyped DEF Scheduled, TypeOK, Batch

LEMMA EndedTyped ==
  ASSUME TypeOK, Ended, UNCHANGED slots
  PROVE  dirty' \subseteq Services /\ batch' \in Batch /\ jobs' \in [Services -> Job]
  BY StartTyped, Blanks DEF Ended, TypeOK

LEMMA EnsuredTyped ==
  ASSUME TypeOK, NEW k \in Services
  PROVE  Ensured(k) \in Slot /\ SlotsMade(k) \in Nat
<1>1. slots[k] \in Slot /\ made.slots \in Nat
  BY DEF TypeOK
<1>2. [NoSlot EXCEPT !.id = made.slots + 1] \in Slot
  BY <1>1 DEF NoSlot, Slot
<1> QED
  BY <1>1, <1>2 DEF Ensured, SlotsMade

LEMMA JobTyped ==
  ASSUME TypeOK, NEW k \in Services
  PROVE  /\ jobs[k] \in Job /\ jobs[k].inst \in Nat /\ jobs[k].class \in Class
         /\ slots[k] \in Slot /\ slots[k].inst \in Nat /\ slots[k].id \in Nat
         /\ defs[k] \in Class /\ defs[k].version \in Nat
         /\ defs[k].needs \subseteq Services /\ defs[k].likes \subseteq Services
  BY DEF TypeOK, Job, Slot, Class

LEMMA InitTypeOK == Init => TypeOK
<1> SUFFICES ASSUME Init PROVE TypeOK
  OBVIOUS
<1>1. batch \in Batch /\ jobs \in [Services -> Job]
  BY Blanks DEF Init
<1>2. defs \in [Services -> Class] /\ slots \in [Services -> Slot]
  BY Blanks DEF Init
<1>3. /\ wired \in Seq([Services -> Nat]) /\ Len(wired) = 0
      /\ ran \in Seq(Nat) /\ Len(ran) = 0
  BY EmptySeq DEF Init
<1> QED
  BY <1>1, <1>2, <1>3 DEF Init, TypeOK, Batch

LEMMA KeyTyped ==     \* reconcileKey and what follows it
  ASSUME TypeOK, NEW k \in Services,
         \/ Skip(k) \/ Block(k) \/ Cleaned(k) \/ TornDown(k)
         \/ Evaluate(k) \/ Evaluated(k) \/ EvaluateThrows(k)
  PROVE  TypeOK'
<1> USE DEF TypeOK
<1>0. jobs[k] \in Job /\ slots[k] \in Slot
  OBVIOUS
<1>1. [jobs EXCEPT ![k] = NoJob] \in [Services -> Job]
  BY Blanks
<1>2. \A s \in {"ready", "failed"} : WithStatus(k, s) \in [Services -> Slot]
  BY <1>0 DEF WithStatus, Slot
<1>3. CASE Skip(k)
  BY <1>1, <1>3 DEF Skip, regVars, instVars
<1>4. CASE Block(k)
  <2>1. Ensured(k) \in Slot /\ SlotsMade(k) \in Nat
    BY EnsuredTyped
  <2>2. [Ensured(k) EXCEPT !.inst = 0, !.status = "blocked"] \in Slot
    BY <2>1 DEF Slot
  <2>3. [NoJob EXCEPT !.stage = "tearing", !.inst = slots[k].inst] \in Job
    BY <1>0, Blanks DEF Job, Slot, Stages
  <2>4. jobs' \in [Services -> Job]
    BY <1>4, <2>3, Blanks DEF Block
  <2>5. slots' \in [Services -> Slot]
    BY <1>4, <2>2 DEF Block
  <2>6. made' \in [slots : Nat, insts : Nat] /\ made'.insts = made.insts
    BY <1>4, <2>1 DEF Block
  <2> QED
    BY <1>4, <2>4, <2>5, <2>6 DEF Block, regVars, instVars
<1>5. CASE Cleaned(k) \/ TornDown(k)
  <2>1. live' \subseteq Nat
    BY <1>5 DEF Cleaned, TornDown
  <2> QED
    BY <1>1, <1>5, <2>1 DEF Cleaned, TornDown, regVars
<1>6. CASE Evaluate(k)
  <2> DEFINE inst == jobs[k].inst  class == jobs[k].class
  <2>1. inst \in Nat /\ class \in Class /\ class.version \in Nat
    BY <1>0 DEF Job, Class
  <2>2. CASE \A d \in class.needs : Ready(slots, d)
    <3>1. Ctx(class) \in [Services -> Nat]
      BY DEF Ctx, Slot
    <3>2. /\ wired' = [wired EXCEPT ![inst] = Ctx(class)]
          /\ ran' = [ran EXCEPT ![inst] = class.version]
          /\ live' = live \cup {inst}
          /\ jobs' = [jobs EXCEPT ![k].stage = "evaluating"]
          /\ UNCHANGED slots
      BY <1>6, <2>2 DEF Evaluate
    <3>3. wired' \in Seq([Services -> Nat]) /\ Len(wired') = Len(wired)
      <4>1. CASE inst \in 1 .. Len(wired)
        BY <3>1, <3>2, <4>1, ExceptSeq
      <4>2. CASE inst \notin 1 .. Len(wired)
        <5>1. wired' = wired
          BY <3>2, <4>2, LenProperties
        <5> QED
          BY <5>1
      <4> QED
        BY <4>1, <4>2
    <3>4. ran' \in Seq(Nat) /\ Len(ran') = Len(ran)
      <4>1. CASE inst \in 1 .. Len(ran)
        BY <2>1, <3>2, <4>1, ExceptSeq
      <4>2. CASE inst \notin 1 .. Len(ran)
        <5>1. ran' = ran
          BY <3>2, <4>2, LenProperties
        <5> QED
          BY <5>1
      <4> QED
        BY <4>1, <4>2
    <3>5. jobs' \in [Services -> Job]
      BY <1>0, <3>2 DEF Job, Stages
    <3> QED
      BY <1>6, <2>1, <3>2, <3>3, <3>4, <3>5 DEF Evaluate, regVars
  <2>3. CASE ~\A d \in class.needs : Ready(slots, d)
    <3>1. /\ live' = live \ {inst} /\ slots' = WithStatus(k, "failed")
          /\ jobs' = [jobs EXCEPT ![k] = NoJob] /\ UNCHANGED <<wired, ran>>
      BY <1>6, <2>3 DEF Evaluate
    <3> QED
      BY <1>1, <1>2, <1>6, <3>1 DEF Evaluate, regVars
  <2> QED
    BY <2>2, <2>3
<1>7. CASE Evaluated(k)
  BY <1>1, <1>2, <1>7 DEF Evaluated, regVars, instVars
<1>8. CASE EvaluateThrows(k)
  <2>1. count \in Counts
    BY DEF Counts
  <2>2. count' = [count EXCEPT !.failures = @ + 1]
    BY <1>8 DEF EvaluateThrows
  <2> HIDE DEF TypeOK
  <2>3. count' \in Counts
    BY <2>1, <2>2 DEF Counts
  <2> USE DEF TypeOK
  <2> QED
    BY <1>1, <1>2, <1>8, <2>3 DEF EvaluateThrows, regVars, instVars, Counts
<1> QED
  BY <1>3, <1>4, <1>5, <1>6, <1>7, <1>8

\* An instance that is made, or kept, and one number more for a slot.
LEMMA PrepareTyped ==
  ASSUME TypeOK, NEW k \in Services, Prepare(k)
  PROVE  TypeOK'
<1> DEFINE inst == IF slots[k].inst > 0 THEN slots[k].inst ELSE made.insts + 1
<1>1. /\ jobs[k] \in Job /\ slots[k] \in Slot /\ defs[k] \in Class
      /\ made.insts \in Nat
  BY DEF TypeOK
<1>2. inst \in Nat
  BY <1>1 DEF Slot
<1>3. Ensured(k) \in Slot /\ SlotsMade(k) \in Nat
  BY EnsuredTyped
<1>4. slots' \in [Services -> Slot]
  <2>1. [Ensured(k) EXCEPT !.inst = inst, !.status = "evaluating"] \in Slot
    BY <1>2, <1>3 DEF Slot
  <2> HIDE DEF inst
  <2>2. slots' = [slots EXCEPT ![k] = [Ensured(k) EXCEPT !.inst = inst,
                                                        !.status = "evaluating"]]
    BY DEF Prepare, inst
  <2> QED
    BY <2>1, <2>2 DEF TypeOK
<1>5. jobs' \in [Services -> Job]
  <2>1. [stage |-> "recleaning", inst |-> inst, slot |-> Ensured(k).id,
         class |-> defs[k]] \in Job
    <3>1. Ensured(k).id \in Nat
      BY <1>3 DEF Slot
    <3> HIDE DEF inst
    <3> QED
      BY <1>1, <1>2, <3>1 DEF Job, Stages
  <2> HIDE DEF inst
  <2>2. jobs' = [jobs EXCEPT ![k] = [stage |-> "recleaning", inst |-> inst,
                                     slot |-> Ensured(k).id, class |-> defs[k]]]
    BY DEF Prepare, inst
  <2> QED
    BY <2>1, <2>2 DEF TypeOK
<1>6. /\ made' \in [slots : Nat, insts : Nat]
      /\ wired' \in Seq([Services -> Nat]) /\ Len(wired') = made'.insts
      /\ ran' \in Seq(Nat) /\ Len(ran') = made'.insts
  <2>1. CASE slots[k].inst > 0
    <3>1. made' = [slots |-> SlotsMade(k), insts |-> made.insts]
      BY <2>1 DEF Prepare
    <3>2. UNCHANGED <<wired, ran>>
      BY <2>1 DEF Prepare
    <3> QED
      BY <1>1, <1>3, <3>1, <3>2 DEF TypeOK
  <2>2. CASE ~(slots[k].inst > 0)
    <3>1. made' = [slots |-> SlotsMade(k), insts |-> made.insts + 1]
      BY <2>2 DEF Prepare
    <3>2. wired' = Append(wired, NoCtx) /\ ran' = Append(ran, 0)
      BY <2>2 DEF Prepare
    <3>0. /\ wired \in Seq([Services -> Nat]) /\ Len(wired) = made.insts
          /\ ran \in Seq(Nat) /\ Len(ran) = made.insts
      BY DEF TypeOK
    <3>3. wired' \in Seq([Services -> Nat]) /\ Len(wired') = Len(wired) + 1
      BY <3>0, <3>2, Blanks, AppendProperties
    <3>4. ran' \in Seq(Nat) /\ Len(ran') = Len(ran) + 1
      BY <3>0, <3>2, AppendProperties
    <3>5. made' \in [slots : Nat, insts : Nat] /\ made'.insts = made.insts + 1
      BY <1>1, <1>3, <3>1
    <3> QED
      BY <3>0, <3>3, <3>4, <3>5
  <2> QED
    BY <2>1, <2>2
<1> HIDE DEF inst
<1> QED
  BY <1>4, <1>5, <1>6 DEF TypeOK, Prepare, regVars

Registered(k) ==
  /\ \E class \in Class : /\ class.version = count.registers + 1
                          /\ defs' = [defs EXCEPT ![k] = class]
  /\ slots' = [slots EXCEPT ![k] = Ensured(k)]
  /\ made' = [made EXCEPT !.slots = SlotsMade(k)]
  /\ Scheduled({k})
  /\ count' = [count EXCEPT !.registers = @ + 1]
  /\ prunes' = prunes \cup {<<k, count.registers + 1>>}
  /\ UNCHANGED <<tears, instVars, drainError, stop>>

LEMMA CountsUp ==
  ASSUME TypeOK
  PROVE  /\ [count EXCEPT !.registers = @ + 1] \in Counts
         /\ [count EXCEPT !.reloads = @ + 1] \in Counts
         /\ [count EXCEPT !.prunes = @ + 1] \in Counts
         /\ [count EXCEPT !.failures = @ + 1] \in Counts
         /\ count.registers \in Nat
<1>1. count \in Counts
  BY DEF TypeOK, Counts
<1> QED
  BY <1>1 DEF Counts

LEMMA RegisterIs ==
  ASSUME TypeOK, NEW k \in Services, Register(k)
  PROVE  Registered(k)
<1> DEFINE sl == [slots EXCEPT ![k] = Ensured(k)]
           version == count.registers + 1
<1>1. PICK shape \in Shapes[k] :
        LET df == [defs EXCEPT ![k] = [version |-> version,
                                       needs |-> shape[1], likes |-> shape[2]]]
        IN  defs' = df /\ slots' = sl /\ ScheduleReconcile(df, sl, {k})
  BY DEF Register
<1>2. shape \in (SUBSET Services) \X (SUBSET Services)
  BY RuntimeAssumption DEF RuntimeAssumption
<1>3. [version |-> version, needs |-> shape[1], likes |-> shape[2]] \in Class
  <2>1. version \in Nat
    BY DEF TypeOK
  <2> QED
    BY <1>2, <2>1 DEF Class
<1>4. ScheduleReconcile(defs', slots', {k})
  BY <1>1 DEF ScheduleReconcile, StartBatch
<1>5. Scheduled({k})
  BY <1>4, ScheduledIs
<1> QED
  BY <1>1, <1>3, <1>5 DEF Register, Registered

LEMMA RegisterTyped ==
  ASSUME TypeOK, NEW k \in Services, Register(k)
  PROVE  TypeOK'
<1>0. Registered(k)
  BY RegisterIs
<1>1. slots' \in [Services -> Slot]
  <2>1. slots' = [slots EXCEPT ![k] = Ensured(k)] /\ Ensured(k) \in Slot
    BY <1>0, EnsuredTyped DEF Registered
  <2> QED
    BY <2>1 DEF TypeOK
<1>2. dirty' \subseteq Services /\ batch' \in Batch /\ jobs' \in [Services -> Job]
  <2>1. Scheduled({k})
    BY <1>0 DEF Registered
  <2> QED
    BY <1>1, <2>1, ScheduledTyped
<1>3. defs' \in [Services -> Class] /\ prunes' \subseteq Services \X Nat
  <2>1. count.registers + 1 \in Nat
    BY CountsUp
  <2> QED
    BY <1>0, <2>1 DEF TypeOK, Registered
<1>4. made' \in [slots : Nat, insts : Nat] /\ made'.insts = made.insts
  <2>1. made' = [made EXCEPT !.slots = SlotsMade(k)] /\ SlotsMade(k) \in Nat
    BY <1>0, EnsuredTyped DEF Registered
  <2> QED
    BY <2>1 DEF TypeOK
<1>5. count' \in Counts
  BY <1>0, CountsUp DEF Registered
<1> QED
  BY <1>0, <1>1, <1>2, <1>3, <1>4, <1>5
     DEF TypeOK, Batch, Counts, instVars, Registered

LEMMA UnregisterTyped ==
  ASSUME TypeOK, NEW k \in Services, NEW v \in Nat, Unregister(k, v)
  PROVE  TypeOK'
<1>1. count' \in Counts
  BY CountsUp DEF Unregister
<1>2. prunes' \subseteq Services \X Nat
  BY DEF TypeOK, Unregister
<1>3. defs' \in [Services -> Class]
  BY Blanks DEF TypeOK, Unregister
<1>4. slots' \in [Services -> Slot]
  <2>1. slots[k] \in Slot
    BY DEF TypeOK
  <2>2. [slots[k] EXCEPT !.inst = 0, !.status = "blocked"] \in Slot
    BY <2>1 DEF Slot
  <2> QED
    BY <2>2, Blanks DEF TypeOK, Unregister
<1>5. tears' \subseteq [key : Services, inst : Nat, of : Nat]
  <2>1. slots[k].inst \in Nat
    BY JobTyped
  <2>2. [key |-> k, inst |-> slots[k].inst, of |-> v]
          \in [key : Services, inst : Nat, of : Nat]
    BY <2>1
  <2> QED
    BY <2>2 DEF TypeOK, Unregister
<1> QED
  BY <1>1, <1>2, <1>3, <1>4, <1>5
     DEF TypeOK, Unregister, Counts, drainVars, instVars

\* The slots without the one whose cleanup returned.
Without(t) == IF t.inst > 0 THEN [slots EXCEPT ![t.key] = NoSlot] ELSE slots

LEMMA UnregisteredIs ==
  ASSUME TypeOK, NEW t \in tears, Unregistered(t)
  PROVE  /\ t.key \in Services /\ t.inst \in Nat
         /\ tears' = tears \ {t} /\ live' = live \ {t.inst}
         /\ slots' = Without(t) /\ Scheduled({t.key})
         /\ UNCHANGED <<regVars, made, wired, ran, drainError, stop, count>>
<1>1. t.key \in Services /\ t.inst \in Nat
  BY DEF TypeOK
<1>2. slots' = Without(t)
  BY DEF Unregistered, Without
<1>3. ScheduleReconcile(defs', slots', {t.key})
  BY DEF Unregistered, ScheduleReconcile, StartBatch, regVars
<1>4. Scheduled({t.key})
  BY <1>1, <1>3, ScheduledIs
<1> QED
  BY <1>1, <1>2, <1>4 DEF Unregistered

LEMMA UnregisteredTyped ==
  ASSUME TypeOK, NEW t \in tears, Unregistered(t)
  PROVE  TypeOK'
<1>1. slots' \in [Services -> Slot]
  BY UnregisteredIs, Blanks DEF TypeOK, Without
<1>2. dirty' \subseteq Services /\ batch' \in Batch /\ jobs' \in [Services -> Job]
  BY <1>1, UnregisteredIs, ScheduledTyped
<1> QED
  BY <1>1, <1>2, UnregisteredIs DEF TypeOK, Batch, regVars

Occupied == {k \in Services : slots[k].id > 0}

LEMMA ReloadAllIs ==
  ASSUME TypeOK, ReloadAll
  PROVE  /\ \E keys \in SUBSET Services : keys = Occupied /\ Scheduled(keys)
         /\ count' = [count EXCEPT !.reloads = @ + 1]
         /\ UNCHANGED <<regVars, slots, made, tears, instVars, drainError, stop>>
<1>1. PICK keys \in SUBSET Services : keys = Occupied
  BY DEF Occupied
<1>2. keys # {} /\ ScheduleReconcile(defs', slots', keys)
  BY <1>1 DEF Occupied, ReloadAll, ScheduleReconcile, StartBatch, regVars
<1>3. Scheduled(keys)
  BY <1>2, ScheduledIs
<1> QED
  BY <1>1, <1>3 DEF ReloadAll

LEMMA ReloadAllTyped ==
  ASSUME TypeOK, ReloadAll
  PROVE  TypeOK'
<1>1. slots' \in [Services -> Slot]
  BY ReloadAllIs DEF TypeOK
<1>2. dirty' \subseteq Services /\ batch' \in Batch /\ jobs' \in [Services -> Job]
  BY <1>1, ReloadAllIs, ScheduledTyped
<1>3. count' \in Counts
  BY ReloadAllIs, CountsUp
<1> QED
  BY <1>1, <1>2, <1>3, ReloadAllIs DEF TypeOK, Batch, Counts, regVars, instVars

\* The level now due, and what is done there.
LEMMA LevelTyped ==
  ASSUME TypeOK, LevelCleaned \/ LevelEvaluated, Working,
         batch.at \in DOMAIN batch.levels
  PROVE  TypeOK'
<1>1. batch \in Batch /\ batch.levels \in Seq(SUBSET Services) /\ batch.at \in Nat
  BY DEF TypeOK, Batch
<1>2. \A level : CleanJobs(slots, level) \in [Services -> Job]
  <2>1. \A k \in Services :
          [NoJob EXCEPT !.stage = "cleaning", !.inst = slots[k].inst] \in Job
    <3>1. \A k \in Services : slots[k].inst \in Nat
      BY JobTyped
    <3> QED
      BY <3>1, Blanks DEF Job, Stages
  <2> QED
    BY <2>1, Blanks DEF CleanJobs
<1>3. \A level : ReconcileJobs(level) \in [Services -> Job]
  <2>1. [NoJob EXCEPT !.stage = "queued"] \in Job
    BY Blanks DEF Job, Stages
  <2> QED
    BY <2>1, Blanks DEF ReconcileJobs
<1>4. batch' \in Batch /\ jobs' \in [Services -> Job]
  <2>1. CASE LevelCleaned /\ batch.at > 1
    <3>1. batch.at - 1 \in Nat
      BY <1>1, <2>1
    <3>2. batch' \in Batch
      BY <1>1, <2>1, <3>1 DEF LevelCleaned, Batch
    <3>3. jobs' \in [Services -> Job]
      BY <1>2, <2>1 DEF LevelCleaned
    <3> QED
      BY <3>2, <3>3
  <2>2. CASE LevelCleaned /\ ~(batch.at > 1)
    <3>1. batch' \in Batch
      BY <1>1, <2>2 DEF LevelCleaned, Batch, Phases
    <3>2. jobs' \in [Services -> Job]
      BY <1>3, <2>2 DEF LevelCleaned
    <3> QED
      BY <3>1, <3>2
  <2>3. CASE LevelEvaluated
    <3>1. batch' \in Batch
      BY <1>1, <2>3 DEF LevelEvaluated, Batch
    <3>2. jobs' \in [Services -> Job]
      BY <1>3, <2>3 DEF LevelEvaluated
    <3> QED
      BY <3>1, <3>2
  <2> QED
    BY <2>1, <2>2, <2>3
<1> QED
  BY <1>4 DEF TypeOK, Batch, LevelCleaned, LevelEvaluated, regVars, instVars

LEMMA EndTyped ==
  ASSUME TypeOK, BatchDone \/ BatchThrew
  PROVE  TypeOK'
<1>1. UNCHANGED slots
  BY DEF BatchDone, BatchThrew
<1>2. dirty' \subseteq Services /\ batch' \in Batch /\ jobs' \in [Services -> Job]
  BY <1>1, EndedIs, EndedTyped
<1> QED
  BY <1>2 DEF TypeOK, Batch, BatchDone, BatchThrew, regVars, instVars

LEMMA StopTyped ==
  ASSUME TypeOK, Shutdown \/ Stopping
  PROVE  TypeOK'
<1>1. CASE Shutdown
  BY <1>1 DEF TypeOK, Shutdown, regVars, drainVars, instVars
<1>2. ASSUME NEW k \in Services, ShutdownKey(k)
      PROVE  TypeOK'
  <2>1. slots' \in [Services -> Slot] /\ live' \subseteq Nat
    BY <1>2, Blanks DEF TypeOK, ShutdownKey
  <2> QED
    BY <1>2, <2>1 DEF TypeOK, ShutdownKey, regVars, drainVars
<1>3. CASE ShutdownEnds
  BY <1>3, Blanks DEF TypeOK, ShutdownEnds, instVars
<1> QED
  BY <1>1, <1>2, <1>3 DEF Stopping

-----------------------------------------------------------------------------
(* The loop                                                                *)

\* A batch that cleans or evaluates is at one of its levels, and works for keys
\* of that level only; without a batch nothing is dirty.
LoopInv ==
  /\ batch.phase # "settled"
  /\ ~Draining => dirty = {}
  /\ Working => batch.at \in DOMAIN batch.levels
  /\ \A k \in Services : jobs[k].stage # "none" =>
       /\ Working /\ k \in batch.levels[batch.at]
       /\ jobs[k].stage = "cleaning" <=> batch.phase = "cleaning"

LEMMA CleanJobsAre ==
  ASSUME NEW sl, NEW level, NEW k \in Services
  PROVE  \/ /\ CleanJobs(sl, level)[k].stage = "none"
            /\ CleanJobs(sl, level)[k] = NoJob
            /\ k \notin level \/ ~(sl[k].inst > 0)
         \/ /\ k \in level /\ sl[k].inst > 0
            /\ CleanJobs(sl, level)[k].stage = "cleaning"
            /\ CleanJobs(sl, level)[k].inst = sl[k].inst
            /\ CleanJobs(sl, level)[k].class = NoClass
<1>1. CASE k \in level /\ sl[k].inst > 0
  <2>1. CleanJobs(sl, level)[k] = [NoJob EXCEPT !.stage = "cleaning",
                                                !.inst = sl[k].inst]
    BY <1>1 DEF CleanJobs
  <2> QED
    BY <1>1, <2>1 DEF NoJob
<1>2. CASE ~(k \in level /\ sl[k].inst > 0)
  BY <1>2 DEF CleanJobs, NoJob
<1> QED
  BY <1>1, <1>2

LEMMA ReconcileJobsAre ==
  ASSUME NEW level, NEW k \in Services
  PROVE  \/ ReconcileJobs(level)[k] = NoJob /\ k \notin level
         \/ /\ k \in level /\ ReconcileJobs(level)[k].stage = "queued"
            /\ ReconcileJobs(level)[k].inst = 0
            /\ ReconcileJobs(level)[k].class = NoClass
  BY DEF ReconcileJobs, NoJob

LEMMA NoJobsAre ==
  \A k \in Services : /\ NoJobs[k] = NoJob /\ NoJob.stage = "none"
                      /\ NoJob.inst = 0 /\ NoJob.class = NoClass
  BY DEF NoJobs, NoJob

LEMMA LoopStarts ==
  ASSUME NEW D, Starting(D)'
  PROVE  LoopInv' /\ Draining'
<1>1. dirty' = {}
  BY DEF Starting
<1>2. CASE /\ batch' = [NoBatch EXCEPT !.phase = "empty"] \/
              batch' = [NoBatch EXCEPT !.phase = "thrown"]
           /\ jobs' = NoJobs
  <2>1. batch'.phase \in {"empty", "thrown"}
    BY <1>2 DEF NoBatch
  <2>2. \A k \in Services : jobs'[k].stage = "none"
    BY <1>2, NoJobsAre
  <2> QED
    BY <1>1, <2>1, <2>2 DEF LoopInv, Working, Draining
<1>3. CASE /\ batch' = [phase |-> "cleaning", levels |-> batch'.levels,
                        at |-> Len(batch'.levels)]
           /\ batch'.at \in DOMAIN batch'.levels
           /\ jobs' = CleanJobs(slots', batch'.levels[batch'.at])
  <2>1. batch'.phase = "cleaning"
    BY <1>3
  <2>2. \A k \in Services : jobs'[k].stage # "none" =>
          jobs'[k].stage = "cleaning" /\ k \in batch'.levels[batch'.at]
    BY <1>3, CleanJobsAre
  <2> QED
    BY <1>1, <1>3, <2>1, <2>2 DEF LoopInv, Working, Draining
<1> QED
  BY <1>2, <1>3 DEF Starting

LEMMA LoopScheduled ==
  ASSUME LoopInv, NEW keys, Scheduled(keys)
  PROVE  LoopInv' /\ Draining'
<1>1. CASE Draining /\ UNCHANGED <<batch, jobs>>
  BY <1>1 DEF LoopInv, Working, Draining
<1> QED
  BY <1>1, LoopStarts DEF Scheduled

LEMMA LoopEnded ==
  ASSUME LoopInv, LevelIdle, Ended
  PROVE  LoopInv'
<1>1. CASE dirty = {} /\ batch' = NoBatch /\ UNCHANGED <<dirty, jobs>>
  <2>1. batch'.phase = "none"
    BY <1>1 DEF NoBatch
  <2> QED
    BY <1>1, <2>1 DEF LoopInv, Working, Draining, LevelIdle
<1> QED
  BY <1>1, LoopStarts DEF Ended

\* One key's job goes on.
LEMMA LoopJob ==
  ASSUME LoopInv, UNCHANGED <<dirty, batch>>, NEW k \in Services,
         \A j \in Services : j # k => jobs'[j] = jobs[j],
         \/ jobs'[k].stage = "none"
         \/ /\ jobs[k].stage \notin {"none", "cleaning"}
            /\ jobs'[k].stage # "cleaning"
  PROVE  LoopInv'
<1>1. Working' = Working /\ Draining' = Draining
  BY DEF Working, Draining
<1>2. ASSUME NEW j \in Services, jobs'[j].stage # "none"
      PROVE  /\ Working /\ j \in batch.levels[batch.at]
             /\ jobs'[j].stage = "cleaning" <=> batch.phase = "cleaning"
  <2>1. CASE j # k
    BY <1>2, <2>1 DEF LoopInv
  <2>2. CASE j = k
    BY <1>2, <2>2 DEF LoopInv
  <2> QED
    BY <2>1, <2>2
<1> QED
  BY <1>1, <1>2 DEF LoopInv

KeyStep(k) ==
  \/ Skip(k) \/ Block(k) \/ Prepare(k) \/ Cleaned(k) \/ TornDown(k)
  \/ Evaluate(k) \/ Evaluated(k) \/ EvaluateThrows(k)

LEMMA NextIs ==
  ASSUME TypeOK, Next
  PROVE  \/ \E k \in Services : KeyStep(k)
         \/ LevelCleaned \/ LevelEvaluated \/ BatchDone \/ BatchThrew
         \/ \E k \in Services : Register(k)
         \/ \E k \in Services : \E v \in Nat : Unregister(k, v)
         \/ \E t \in tears : Unregistered(t)
         \/ ReloadAll \/ Shutdown \/ Stopping
<1>1. \A p \in prunes : p[1] \in Services /\ p[2] \in Nat
  BY DEF TypeOK
<1>2. CASE Proceed
  BY <1>2 DEF Proceed, ReconcileKey, Works, Loop, KeyStep
<1>3. CASE Disturb
  BY <1>1, <1>3 DEF Disturb, KeyStep
<1> QED
  BY <1>2, <1>3 DEF Next

LEMMA KeyJobs ==
  ASSUME TypeOK, NEW k \in Services, KeyStep(k)
  PROVE  /\ UNCHANGED <<regVars, dirty, batch, tears, drainError, stop>>
         /\ \A j \in Services : j # k => jobs'[j] = jobs[j]
         /\ jobs[k].stage # "none"
         /\ \/ jobs'[k] = NoJob
            \/ /\ jobs[k].stage \in {"queued", "recleaning"}
               /\ jobs'[k].stage \in {"tearing", "recleaning", "evaluating"}
<1>1. jobs \in [Services -> Job] /\ jobs[k] \in Job
  BY DEF TypeOK
<1>2. CASE Skip(k)
  BY <1>1, <1>2 DEF Skip, regVars
<1>3. CASE Block(k)
  BY <1>1, <1>3 DEF Block, regVars, NoJob
<1>4. CASE Prepare(k)
  BY <1>1, <1>4 DEF Prepare, regVars
<1>5. CASE Cleaned(k)
  BY <1>1, <1>5 DEF Cleaned, regVars
<1>6. CASE TornDown(k)
  BY <1>1, <1>6 DEF TornDown, regVars
<1>7. CASE Evaluate(k)
  <2>1. jobs' = [jobs EXCEPT ![k].stage = "evaluating"] \/
        jobs' = [jobs EXCEPT ![k] = NoJob]
    BY <1>7 DEF Evaluate
  <2>2. jobs' = [jobs EXCEPT ![k].stage = "evaluating"]
          => /\ jobs'[k].stage = "evaluating"
             /\ \A j \in Services : j # k => jobs'[j] = jobs[j]
    BY <1>1 DEF Job
  <2> QED
    BY <1>1, <1>7, <2>1, <2>2 DEF Evaluate, regVars
<1>8. CASE Evaluated(k)
  BY <1>1, <1>8 DEF Evaluated, regVars
<1>9. CASE EvaluateThrows(k)
  BY <1>1, <1>9 DEF EvaluateThrows, regVars
<1> QED
  BY <1>2, <1>3, <1>4, <1>5, <1>6, <1>7, <1>8, <1>9 DEF KeyStep

LEMMA LevelIs ==
  ASSUME TypeOK, LoopInv, LevelCleaned \/ LevelEvaluated
  PROVE  /\ LevelIdle /\ Working /\ batch.at \in DOMAIN batch.levels
         /\ batch'.levels = batch.levels
         /\ UNCHANGED <<regVars, slots, made, dirty, tears, instVars, drainError,
                        stop>>
         /\ \/ /\ batch.phase = "cleaning" /\ batch'.phase = "cleaning"
               /\ batch'.at = batch.at - 1
               /\ jobs' = CleanJobs(slots, batch'.levels[batch'.at])
            \/ /\ batch.phase = "cleaning" /\ batch'.phase = "evaluating"
               /\ batch.at = 1 /\ batch'.at = 1
               /\ jobs' = ReconcileJobs(batch'.levels[batch'.at])
            \/ /\ batch.phase = "evaluating" /\ batch'.phase = "evaluating"
               /\ batch'.at = batch.at + 1
               /\ jobs' = ReconcileJobs(batch'.levels[batch'.at])
         /\ batch'.at \in DOMAIN batch'.levels
<1>1. Working
  BY DEF LevelCleaned, LevelEvaluated, Working
<1>2. /\ batch \in Batch /\ batch.levels \in Seq(SUBSET Services)
      /\ batch.at \in Nat
  BY DEF TypeOK, Batch
<1>3. batch.at \in DOMAIN batch.levels
  BY <1>1 DEF LoopInv
<1>4. Len(batch.levels) \in Nat /\ DOMAIN batch.levels = 1 .. Len(batch.levels)
  BY <1>2, LenProperties
<1>5. CASE LevelCleaned /\ batch.at > 1
  <2>1. batch' = [batch EXCEPT !.at = @ - 1]
        /\ jobs' = CleanJobs(slots, batch.levels[batch.at - 1])
    BY <1>5 DEF LevelCleaned
  <2>2. /\ batch'.levels = batch.levels /\ batch'.phase = batch.phase
        /\ batch'.at = batch.at - 1
    BY <1>2, <2>1 DEF Batch
  <2>3. batch.at - 1 \in 1 .. Len(batch.levels)
    BY <1>2, <1>3, <1>4, <1>5
  <2> QED
    BY <1>1, <1>3, <1>4, <1>5, <2>1, <2>2, <2>3 DEF LevelCleaned
<1>6. CASE LevelCleaned /\ ~(batch.at > 1)
  <2>1. batch' = [batch EXCEPT !.phase = "evaluating"]
        /\ jobs' = ReconcileJobs(batch.levels[1])
    BY <1>6 DEF LevelCleaned
  <2>2. /\ batch'.levels = batch.levels /\ batch'.phase = "evaluating"
        /\ batch'.at = batch.at
    BY <1>2, <2>1 DEF Batch
  <2>3. batch.at = 1
    BY <1>2, <1>3, <1>4, <1>6
  <2> QED
    BY <1>1, <1>3, <1>6, <2>1, <2>2, <2>3 DEF LevelCleaned
<1>7. CASE LevelEvaluated
  <2>1. batch' = [batch EXCEPT !.at = @ + 1]
        /\ jobs' = ReconcileJobs(batch.levels[batch.at + 1])
    BY <1>7 DEF LevelEvaluated
  <2>2. /\ batch'.levels = batch.levels /\ batch'.phase = batch.phase
        /\ batch'.at = batch.at + 1
    BY <1>2, <2>1 DEF Batch
  <2>3. batch.at + 1 \in 1 .. Len(batch.levels)
    BY <1>2, <1>3, <1>4, <1>7 DEF LevelEvaluated
  <2> QED
    BY <1>1, <1>3, <1>4, <1>7, <2>1, <2>2, <2>3 DEF LevelEvaluated
<1> QED
  BY <1>5, <1>6, <1>7

LEMMA LoopLevel ==
  ASSUME TypeOK, LoopInv, LevelCleaned \/ LevelEvaluated
  PROVE  LoopInv'
<1>1. UNCHANGED dirty /\ Draining'
  BY LevelIs DEF Draining
<1>2. batch'.phase \in {"cleaning", "evaluating"}
      /\ batch'.at \in DOMAIN batch'.levels
  BY LevelIs
<1>3. \A k \in Services : jobs'[k].stage # "none" =>
        /\ k \in batch'.levels[batch'.at]
        /\ jobs'[k].stage = "cleaning" <=> batch'.phase = "cleaning"
  BY LevelIs, CleanJobsAre, ReconcileJobsAre, NoJobsAre
<1> QED
  BY <1>1, <1>2, <1>3 DEF LoopInv, Working

LEMMA EndingIsIdle ==
  ASSUME LoopInv, BatchDone \/ BatchThrew
  PROVE  LevelIdle
  BY DEF LoopInv, BatchDone, BatchThrew, LevelIdle, Working

LEMMA InitLoopInv == Init => LoopInv
  BY NoJobsAre DEF Init, LoopInv, NoBatch, Working, Draining

LEMMA StepLoopInv ==
  ASSUME TypeOK, LoopInv, [Next]_vars
  PROVE  TypeOK' /\ LoopInv'
<1>1. ASSUME NEW k \in Services, KeyStep(k)
      PROVE  TypeOK' /\ LoopInv'
  <2>1. TypeOK'
    BY <1>1, KeyTyped, PrepareTyped DEF KeyStep
  <2>2. LoopInv'
    BY <1>1, KeyJobs, NoJobsAre, LoopJob
  <2> QED
    BY <2>1, <2>2
<1>2. CASE LevelCleaned \/ LevelEvaluated
  BY <1>2, LevelIs, LevelTyped, LoopLevel
<1>3. CASE BatchDone \/ BatchThrew
  BY <1>3, EndTyped, EndedIs, LoopEnded, EndingIsIdle
<1>4. ASSUME NEW k \in Services, Register(k)
      PROVE  TypeOK' /\ LoopInv'
  BY <1>4, RegisterTyped, RegisterIs, LoopScheduled DEF Registered
<1>5. ASSUME NEW k \in Services, NEW v \in Nat, Unregister(k, v)
      PROVE  TypeOK' /\ LoopInv'
  <2>1. LoopInv'
    BY <1>5 DEF Unregister, drainVars, LoopInv, Draining, Working
  <2> QED
    BY <1>5, <2>1, UnregisterTyped
<1>6. ASSUME NEW t \in tears, Unregistered(t)
      PROVE  TypeOK' /\ LoopInv'
  BY <1>6, UnregisteredTyped, UnregisteredIs, LoopScheduled
<1>7. CASE ReloadAll
  BY <1>7, ReloadAllTyped, ReloadAllIs, LoopScheduled
<1>8. CASE Shutdown \/ Stopping
  <2>1. LoopInv'
    BY <1>8 DEF Shutdown, Stopping, ShutdownKey, ShutdownEnds, drainVars, LoopInv,
                Draining, Working
  <2> QED
    BY <1>8, <2>1, StopTyped
<1>9. CASE UNCHANGED vars
  <2>1. TypeOK'
    BY <1>9 DEF TypeOK, vars, regVars, drainVars, instVars
  <2>2. LoopInv'
    BY <1>9 DEF LoopInv, Draining, Working, vars, drainVars
  <2> QED
    BY <2>1, <2>2
<1> QED
  BY <1>1, <1>2, <1>3, <1>4, <1>5, <1>6, <1>7, <1>8, <1>9, NextIs

-----------------------------------------------------------------------------
(* Instances                                                               *)

\* The key k has to do with the instance i.
Holds(k, i) ==
  slots[k].inst = i \/ jobs[k].inst = i \/ \E t \in tears : t.key = k /\ t.inst = i

\* No instance is two keys' business, and none is known that was not made.
InstInv ==
  /\ \A k \in Services : \A i \in Nat \ {0} : Holds(k, i) =>
       i <= made.insts /\ \A j \in Services : Holds(j, i) => j = k
  /\ \A k \in Services :
       /\ slots[k].inst > 0 => slots[k].id > 0
       /\ jobs[k].stage \notin {"none", "queued"} => jobs[k].inst > 0

\* A job that has just been put there.
Fresh(k) ==
  /\ jobs[k].class = NoClass
  /\ \/ jobs[k].stage \in {"none", "queued"} /\ jobs[k].inst = 0
     \/ /\ jobs[k].stage = "cleaning" /\ jobs[k].inst = slots[k].inst
        /\ slots[k].inst > 0

LEMMA StartFresh ==
  ASSUME NEW D, Starting(D)', NEW k \in Services
  PROVE  Fresh(k)'
<1>1. jobs' = NoJobs \/ jobs' = CleanJobs(slots', batch'.levels[batch'.at])
  BY DEF Starting
<1> QED
  BY <1>1, NoJobsAre, CleanJobsAre DEF Fresh

LEMMA ScheduledFresh ==
  ASSUME NEW keys, Scheduled(keys)
  PROVE  UNCHANGED jobs \/ \A k \in Services : Fresh(k)'
  BY StartFresh DEF Scheduled

LEMMA EndedFresh ==
  ASSUME Ended
  PROVE  UNCHANGED jobs \/ \A k \in Services : Fresh(k)'
  BY StartFresh DEF Ended

LEMMA LevelFresh ==
  ASSUME TypeOK, LoopInv, LevelCleaned \/ LevelEvaluated, NEW k \in Services
  PROVE  Fresh(k)'
<1>1. UNCHANGED slots /\ \/ jobs' = CleanJobs(slots, batch'.levels[batch'.at])
                         \/ jobs' = ReconcileJobs(batch'.levels[batch'.at])
  BY LevelIs
<1> QED
  BY <1>1, NoJobsAre, CleanJobsAre, ReconcileJobsAre DEF Fresh

\* What all the steps but those of a key do to the jobs.
OtherStep ==
  \/ LevelCleaned \/ LevelEvaluated \/ BatchDone \/ BatchThrew
  \/ \E k \in Services : Register(k)
  \/ \E k \in Services : \E v \in Nat : Unregister(k, v)
  \/ \E t \in tears : Unregistered(t)
  \/ ReloadAll \/ Shutdown \/ Stopping \/ UNCHANGED vars

LEMMA OtherJobs ==
  ASSUME TypeOK, LoopInv, OtherStep
  PROVE  /\ UNCHANGED jobs \/ \A k \in Services : Fresh(k)'
         /\ UNCHANGED <<wired, ran>> /\ made'.insts = made.insts
         /\ live' \subseteq live
<1>0. made \in [slots : Nat, insts : Nat]
  BY DEF TypeOK
<1>1. CASE LevelCleaned \/ LevelEvaluated
  BY <1>1, LevelFresh DEF LevelCleaned, LevelEvaluated, instVars
<1>2. CASE BatchDone \/ BatchThrew
  BY <1>2, EndedIs, EndedFresh DEF BatchDone, BatchThrew, instVars
<1>3. ASSUME NEW k \in Services, Register(k)
      PROVE  /\ UNCHANGED jobs \/ \A j \in Services : Fresh(j)'
             /\ UNCHANGED instVars /\ made'.insts = made.insts
  <2>1. Registered(k)
    BY <1>3, RegisterIs
  <2>2. UNCHANGED jobs \/ \A j \in Services : Fresh(j)'
    BY <2>1, ScheduledFresh DEF Registered
  <2> QED
    BY <1>0, <2>1, <2>2 DEF Registered
<1>4. ASSUME NEW k \in Services, NEW v \in Nat, Unregister(k, v)
      PROVE  UNCHANGED jobs /\ UNCHANGED instVars /\ UNCHANGED made
  BY <1>4 DEF Unregister, drainVars
<1>5. ASSUME NEW t \in tears, Unregistered(t)
      PROVE  /\ UNCHANGED jobs \/ \A j \in Services : Fresh(j)'
             /\ UNCHANGED <<wired, ran>> /\ UNCHANGED made /\ live' \subseteq live
  BY <1>5, UnregisteredIs, ScheduledFresh
<1>6. CASE ReloadAll
  BY <1>6, ReloadAllIs, ScheduledFresh DEF instVars
<1>7. CASE Shutdown \/ Stopping \/ UNCHANGED vars
  BY <1>7 DEF Shutdown, Stopping, ShutdownKey, ShutdownEnds, drainVars, instVars,
              vars
<1> QED
  BY <1>1, <1>2, <1>3, <1>4, <1>5, <1>6, <1>7 DEF OtherStep, instVars

\* ... and to the slots and the cleanups awaited: instances only go, or move
\* from the slot to the cleanup.
LEMMA OtherSlots ==
  ASSUME TypeOK, OtherStep, NEW k \in Services
  PROVE  /\ slots'[k].inst = slots[k].inst \/ slots'[k].inst = 0
         /\ slots'[k].id > 0 \/ slots'[k].inst = 0 \/ slots'[k] = slots[k]
         /\ \A t \in tears' : t \in tears
              \/ /\ t.inst = slots[t.key].inst /\ slots'[t.key].inst = 0
                 /\ t.key \in Services
<1>0. /\ slots \in [Services -> Slot] /\ slots[k] \in Slot /\ NoSlot.inst = 0
  BY DEF TypeOK, NoSlot
<1>1. CASE LevelCleaned \/ LevelEvaluated \/ BatchDone \/ BatchThrew
  BY <1>1 DEF LevelCleaned, LevelEvaluated, BatchDone, BatchThrew
<1>2. ASSUME NEW j \in Services, Register(j)
      PROVE  /\ slots'[k] = slots[k] \/ slots'[k].inst = 0
             /\ UNCHANGED tears
  <2>1. slots' = [slots EXCEPT ![j] = Ensured(j)] /\ UNCHANGED tears
    BY <1>2, RegisterIs DEF Registered
  <2>2. Ensured(j) = slots[j] \/ Ensured(j).inst = 0
    BY DEF Ensured, NoSlot
  <2> QED
    BY <1>0, <2>1, <2>2
<1>3. ASSUME NEW j \in Services, NEW v \in Nat, Unregister(j, v)
      PROVE  /\ slots'[k] = slots[k] \/ slots'[k].inst = 0
             /\ \A t \in tears' : t \in tears
                  \/ /\ t.inst = slots[t.key].inst /\ slots'[t.key].inst = 0
                     /\ t.key \in Services
  <2>0. slots[j] \in Slot
    BY <1>0
  <2>1. CASE UNCHANGED <<slots, tears>>
    BY <2>1
  <2>2. CASE /\ slots' = [slots EXCEPT ![j] =
                 IF @.inst > 0 THEN [@ EXCEPT !.inst = 0, !.status = "blocked"]
                               ELSE NoSlot]
             /\ tears' = tears \cup {[key |-> j, inst |-> slots[j].inst, of |-> v]}
    <3>1. slots'[j].inst = 0
      BY <1>0, <2>0, <2>2 DEF Slot
    <3>2. k # j => slots'[k] = slots[k]
      BY <1>0, <2>2
    <3> QED
      BY <2>2, <3>1, <3>2
  <2> QED
    BY <1>3, <2>1, <2>2 DEF Unregister
<1>4. ASSUME NEW t \in tears, Unregistered(t)
      PROVE  /\ slots'[k] = slots[k] \/ slots'[k].inst = 0
             /\ tears' \subseteq tears
  <2>1. slots' = Without(t) /\ tears' \subseteq tears
    BY <1>4, UnregisteredIs
  <2> QED
    BY <1>0, <2>1 DEF Without
<1>5. CASE ReloadAll
  BY <1>5, ReloadAllIs
<1>6. ASSUME NEW j \in Services, ShutdownKey(j)
      PROVE  /\ slots'[k] = slots[k] \/ slots'[k].inst = 0
             /\ UNCHANGED tears
  BY <1>0, <1>6 DEF ShutdownKey
<1>7. CASE Shutdown \/ ShutdownEnds \/ UNCHANGED vars
  BY <1>7 DEF Shutdown, ShutdownEnds, vars
<1> QED
  BY <1>1, <1>2, <1>3, <1>4, <1>5, <1>6, <1>7 DEF OtherStep, Stopping

LEMMA StatusSlots ==
  ASSUME TypeOK, NEW k \in Services, NEW s, NEW j \in Services
  PROVE  /\ WithStatus(k, s)[j].inst = slots[j].inst
         /\ WithStatus(k, s)[j].id = slots[j].id
         /\ j # k \/ slots[k].id # jobs[k].slot => WithStatus(k, s)[j] = slots[j]
         /\ slots[k].id = jobs[k].slot => WithStatus(k, s)[k].status = s
  BY DEF WithStatus, TypeOK, Slot

\* What the steps of a key do to its slot and its job.
LEMMA KeySlots ==
  ASSUME TypeOK, NEW k \in Services, KeyStep(k)
  PROVE  /\ \A j \in Services : j # k => slots'[j] = slots[j]
         /\ \/ /\ Block(k)
               /\ slots'[k].inst = 0 /\ slots'[k].id > 0
               /\ slots'[k].status = "blocked"
               /\ jobs'[k] = NoJob \/ /\ jobs'[k].stage = "tearing"
                                      /\ jobs'[k].inst = slots[k].inst
                                      /\ slots[k].inst > 0
                                      /\ jobs'[k].class = NoClass
            \/ /\ Prepare(k)
               /\ slots'[k].inst = IF slots[k].inst > 0 THEN slots[k].inst
                                   ELSE made.insts + 1
               /\ slots'[k].id > 0 /\ slots'[k].status = "evaluating"
               /\ jobs'[k] = [stage |-> "recleaning", inst |-> slots'[k].inst,
                              slot |-> slots'[k].id, class |-> defs[k]]
            \/ /\ ~Block(k) /\ ~Prepare(k) /\ UNCHANGED made
               /\ slots'[k].inst = slots[k].inst /\ slots'[k].id = slots[k].id
               /\ \/ jobs'[k] = NoJob
                  \/ /\ Evaluate(k) /\ jobs[k].stage = "recleaning"
                     /\ jobs'[k] = [jobs[k] EXCEPT !.stage = "evaluating"]
<1>0. /\ slots \in [Services -> Slot] /\ slots[k] \in Slot
      /\ jobs \in [Services -> Job] /\ jobs[k] \in Job
      /\ made.insts \in Nat /\ made.slots \in Nat
  BY DEF TypeOK
<1>1. Ensured(k) \in Slot /\ Ensured(k).id > 0
  <2>1. [NoSlot EXCEPT !.id = made.slots + 1].id > 0
    BY <1>0 DEF NoSlot
  <2> QED
    BY <1>0, <2>1, EnsuredTyped DEF Ensured, Slot
<1>2. CASE Block(k)
  <2>1. slots' = [slots EXCEPT ![k] = [Ensured(k) EXCEPT !.inst = 0,
                                                        !.status = "blocked"]]
    BY <1>2 DEF Block
  <2>2. /\ slots'[k].inst = 0 /\ slots'[k].id > 0 /\ slots'[k].status = "blocked"
        /\ \A j \in Services : j # k => slots'[j] = slots[j]
    BY <1>0, <1>1, <2>1 DEF Slot
  <2>3. jobs'[k] = IF slots[k].inst > 0
                   THEN [NoJob EXCEPT !.stage = "tearing", !.inst = slots[k].inst]
                   ELSE NoJob
    BY <1>0, <1>2 DEF Block
  <2>4. jobs'[k] = NoJob \/ /\ jobs'[k].stage = "tearing"
                            /\ jobs'[k].inst = slots[k].inst
                            /\ slots[k].inst > 0
                            /\ jobs'[k].class = NoClass
    BY <2>3 DEF NoJob
  <2> QED
    BY <1>2, <2>2, <2>4
<1>3. CASE Prepare(k)
  <2> DEFINE inst == IF slots[k].inst > 0 THEN slots[k].inst ELSE made.insts + 1
  <2>1. /\ slots' = [slots EXCEPT ![k] = [Ensured(k) EXCEPT !.inst = inst,
                                                    !.status = "evaluating"]]
        /\ jobs' = [jobs EXCEPT ![k] = [stage |-> "recleaning", inst |-> inst,
                                 slot |-> Ensured(k).id, class |-> defs[k]]]
    BY <1>3 DEF Prepare
  <2> HIDE DEF inst
  <2>2. /\ slots'[k].inst = inst /\ slots'[k].id = Ensured(k).id
        /\ slots'[k].status = "evaluating"
        /\ \A j \in Services : j # k => slots'[j] = slots[j]
    BY <1>0, <1>1, <2>1 DEF Slot
  <2>3. jobs'[k] = [stage |-> "recleaning", inst |-> inst,
                    slot |-> Ensured(k).id, class |-> defs[k]]
    BY <1>0, <2>1
  <2> QED
    BY <1>1, <1>3, <2>2, <2>3 DEF inst
<1>4. CASE Evaluate(k)
  <2>1. ~Block(k) /\ ~Prepare(k) /\ UNCHANGED made
    BY <1>4 DEF Evaluate, Block, Prepare
  <2>2. \/ UNCHANGED slots /\ jobs' = [jobs EXCEPT ![k].stage = "evaluating"]
        \/ slots' = WithStatus(k, "failed") /\ jobs' = [jobs EXCEPT ![k] = NoJob]
    BY <1>4 DEF Evaluate
  <2>3. \A j \in Services : slots'[j].inst = slots[j].inst
          /\ slots'[j].id = slots[j].id /\ (j # k => slots'[j] = slots[j])
    BY <2>2, StatusSlots
  <2>4. jobs'[k] = NoJob \/ jobs'[k] = [jobs[k] EXCEPT !.stage = "evaluating"]
    BY <1>0, <2>2
  <2> QED
    BY <1>4, <2>1, <2>3, <2>4 DEF Evaluate
<1>5. CASE Evaluated(k) \/ EvaluateThrows(k)
  <2>1. ~Block(k) /\ ~Prepare(k) /\ UNCHANGED made
    BY <1>5 DEF Evaluated, EvaluateThrows, Block, Prepare
  <2>2. /\ slots' = WithStatus(k, "ready") \/ slots' = WithStatus(k, "failed")
        /\ jobs' = [jobs EXCEPT ![k] = NoJob]
    BY <1>5 DEF Evaluated, EvaluateThrows
  <2>3. \A j \in Services : slots'[j].inst = slots[j].inst
          /\ slots'[j].id = slots[j].id /\ (j # k => slots'[j] = slots[j])
    BY <2>2, StatusSlots
  <2> QED
    BY <1>0, <2>1, <2>2, <2>3
<1>6. CASE Skip(k) \/ Cleaned(k) \/ TornDown(k)
  <2>1. ~Block(k) /\ ~Prepare(k) /\ UNCHANGED <<made, slots>>
    BY <1>6 DEF Skip, Cleaned, TornDown, Block, Prepare
  <2>2. jobs' = [jobs EXCEPT ![k] = NoJob]
    BY <1>6 DEF Skip, Cleaned, TornDown
  <2> QED
    BY <1>0, <2>1, <2>2
<1> QED
  BY <1>2, <1>3, <1>4, <1>5, <1>6 DEF KeyStep

LEMMA PrepareSlot ==
  ASSUME TypeOK, NEW k \in Services, Prepare(k)
  PROVE  /\ slots'[k].inst = IF slots[k].inst > 0 THEN slots[k].inst
                             ELSE made.insts + 1
         /\ slots'[k].id > 0 /\ slots'[k].status = "evaluating"
         /\ jobs'[k].stage = "recleaning" /\ jobs'[k].inst = slots'[k].inst
         /\ jobs'[k].slot = slots'[k].id /\ jobs'[k].class = defs[k]
<1>1. ~Block(k)
  BY DEF Block, Prepare
<1>2. /\ slots'[k].inst = IF slots[k].inst > 0 THEN slots[k].inst
                          ELSE made.insts + 1
      /\ slots'[k].id > 0 /\ slots'[k].status = "evaluating"
      /\ jobs'[k] = [stage |-> "recleaning", inst |-> slots'[k].inst,
                     slot |-> slots'[k].id, class |-> defs[k]]
  BY <1>1, KeySlots DEF KeyStep
<1> QED
  BY <1>2

\* Nothing new is held.
LEMMA InstKept ==
  ASSUME TypeOK, InstInv,
         \A k \in Services : \A i \in Nat \ {0} : Holds(k, i)' => Holds(k, i),
         made'.insts = made.insts,
         \A k \in Services :
           /\ slots'[k].inst > 0 => slots'[k].id > 0
           /\ jobs'[k].stage \notin {"none", "queued"} => jobs'[k].inst > 0
  PROVE  InstInv'
  BY DEF InstInv

LEMMA InstOther ==
  ASSUME TypeOK, LoopInv, InstInv, OtherStep
  PROVE  InstInv'
<1>1. ASSUME NEW k \in Services, NEW i \in Nat \ {0}, Holds(k, i)'
      PROVE  Holds(k, i)
  <2>1. CASE slots'[k].inst = i
    BY <2>1, OtherSlots DEF Holds
  <2>2. CASE jobs'[k].inst = i
    <3>1. CASE UNCHANGED jobs
      BY <2>2, <3>1 DEF Holds
    <3>2. CASE Fresh(k)'
      BY <2>1, <2>2, <3>2 DEF Fresh
    <3> QED
      BY <3>1, <3>2, OtherJobs
  <2>3. CASE \E t \in tears' : t.key = k /\ t.inst = i
    BY <2>3, OtherSlots DEF Holds
  <2> QED
    BY <1>1, <2>1, <2>2, <2>3 DEF Holds
<1>2. ASSUME NEW k \in Services
      PROVE  /\ slots'[k].inst > 0 => slots'[k].id > 0
             /\ jobs'[k].stage \notin {"none", "queued"} => jobs'[k].inst > 0
  <2>1. slots'[k].inst > 0 => slots'[k].id > 0
    BY OtherSlots DEF InstInv
  <2>2. CASE UNCHANGED jobs
    BY <2>1, <2>2 DEF InstInv
  <2>3. CASE Fresh(k)'
    BY <2>1, <2>3 DEF Fresh
  <2> QED
    BY <2>2, <2>3, OtherJobs
<1>3. made'.insts = made.insts
  BY OtherJobs
<1> QED
  BY <1>1, <1>2, <1>3, InstKept

LEMMA InstKey ==
  ASSUME TypeOK, TypeOK', InstInv, NEW k \in Services, KeyStep(k)
  PROVE  InstInv'
<1>0. /\ UNCHANGED tears /\ \A j \in Services : j # k => jobs'[j] = jobs[j]
      /\ jobs[k].stage # "none"
  BY KeyJobs
<1>1. \A j \in Services : j # k => slots'[j] = slots[j]
  BY KeySlots
<1>2. ASSUME NEW j \in Services, j # k, NEW i
      PROVE  Holds(j, i)' <=> Holds(j, i)
  BY <1>0, <1>1, <1>2 DEF Holds
<1>3. ASSUME slots'[k].inst \in {0, slots[k].inst},
             jobs'[k].inst \in {0, slots[k].inst, jobs[k].inst},
             made'.insts = made.insts,
             slots'[k].inst > 0 => slots'[k].id > 0,
             jobs'[k].stage \notin {"none", "queued"} => jobs'[k].inst > 0
      PROVE  InstInv'
  <2>1. \A i \in Nat \ {0} : Holds(k, i)' => Holds(k, i)
    BY <1>0, <1>3 DEF Holds
  <2>2. \A j \in Services : \A i \in Nat \ {0} : Holds(j, i)' => Holds(j, i)
    BY <1>2, <2>1
  <2>3. \A j \in Services :
          /\ slots'[j].inst > 0 => slots'[j].id > 0
          /\ jobs'[j].stage \notin {"none", "queued"} => jobs'[j].inst > 0
    BY <1>0, <1>1, <1>3 DEF InstInv
  <2> QED
    BY <1>3, <2>2, <2>3, InstKept
<1>4. jobs[k] \in Job /\ slots[k].inst \in Nat /\ made.insts \in Nat
  BY JobTyped DEF TypeOK
<1>4a. ~(Block(k) /\ Prepare(k))
  BY DEF Block, Prepare
<1>5. CASE Block(k)
  <2>1. made'.insts = made.insts
    BY <1>5 DEF Block, TypeOK
  <2>2. /\ slots'[k].inst = 0
        /\ \/ jobs'[k] = NoJob
           \/ jobs'[k].inst = slots[k].inst /\ slots[k].inst > 0
    BY <1>5, <1>4a, KeySlots
  <2> QED
    BY <1>3, <2>1, <2>2, NoJobsAre
<1>6. CASE Prepare(k) /\ slots[k].inst > 0
  <2>1. made'.insts = made.insts
    BY <1>6 DEF Prepare
  <2>2. /\ slots'[k].inst = slots[k].inst /\ slots'[k].id > 0
        /\ jobs'[k].inst = slots'[k].inst
    BY <1>6, PrepareSlot
  <2> QED
    BY <1>3, <1>6, <2>1, <2>2
<1>7. CASE Prepare(k) /\ ~(slots[k].inst > 0)
  <2>0. PICK new \in Nat : new = made.insts + 1
    BY <1>4
  <2>1. made'.insts = new
    BY <1>7, <2>0 DEF Prepare
  <2>2. /\ slots'[k].inst = new /\ slots'[k].id > 0
        /\ jobs'[k].inst = new
    BY <1>7, <2>0, PrepareSlot
  <2>3. \A i \in Nat \ {0} : Holds(k, i)' => i = new \/ Holds(k, i)
    BY <1>0, <2>2 DEF Holds
  <2>4. \A j \in Services : j # k => ~Holds(j, new)'
    <3>1. new \in Nat \ {0} /\ ~(new <= made.insts)
      BY <1>4, <2>0
    <3>2. \A j \in Services : ~Holds(j, new)
      BY <3>1 DEF InstInv
    <3> QED
      BY <1>2, <3>2
  <2>5. ASSUME NEW j \in Services, NEW i \in Nat \ {0}, Holds(j, i)'
        PROVE  i <= new /\ \A h \in Services : Holds(h, i)' => h = j
    <3>1. CASE i = new
      <4>1. i <= new
        BY <1>4, <3>1
      <4>2. \A h \in Services : Holds(h, i)' => h = k
        BY <2>4, <3>1
      <4> QED
        BY <2>5, <4>1, <4>2
    <3>2. CASE i # new
      <4>1. \A h \in Services : Holds(h, i)' => Holds(h, i)
        BY <1>2, <2>3, <3>2
      <4>2. i <= made.insts /\ \A h \in Services : Holds(h, i) => h = j
        BY <2>5, <4>1 DEF InstInv
      <4> QED
        BY <1>4, <2>0, <4>1, <4>2
    <3> QED
      BY <3>1, <3>2
  <2>6. \A j \in Services :
          /\ slots'[j].inst > 0 => slots'[j].id > 0
          /\ jobs'[j].stage \notin {"none", "queued"} => jobs'[j].inst > 0
    <3>1. new > 0
      BY <1>4, <2>0
    <3> QED
      BY <1>0, <1>1, <2>2, <3>1 DEF InstInv
  <2> QED
    BY <2>1, <2>5, <2>6 DEF InstInv
<1>8. CASE ~Block(k) /\ ~Prepare(k)
  <2>1. /\ UNCHANGED made
        /\ slots'[k].inst = slots[k].inst /\ slots'[k].id = slots[k].id
        /\ \/ jobs'[k] = NoJob
           \/ /\ jobs[k].stage = "recleaning"
              /\ jobs'[k] = [jobs[k] EXCEPT !.stage = "evaluating"]
    BY <1>8, KeySlots
  <2>2. jobs'[k].inst \in {0, jobs[k].inst}
    BY <1>4, <2>1, NoJobsAre DEF Job
  <2>3. jobs'[k].stage \notin {"none", "queued"} => jobs'[k].inst > 0
    <3>1. jobs[k].stage = "recleaning" => jobs[k].inst > 0
      BY DEF InstInv
    <3> QED
      BY <1>4, <2>1, <3>1, NoJobsAre DEF Job
  <2>4. slots'[k].inst > 0 => slots'[k].id > 0
    BY <2>1 DEF InstInv
  <2> QED
    BY <1>3, <2>1, <2>2, <2>3, <2>4
<1> QED
  BY <1>5, <1>6, <1>7, <1>8

-----------------------------------------------------------------------------
(* Classes and setups                                                      *)

Busy(k) == jobs[k].stage \in {"recleaning", "evaluating"}

\* A version is one class, and what is live was evaluated with some class.
VersionInv ==
  /\ \A k \in Services :
       /\ Busy(k) => /\ jobs[k].class.version > 0
                     /\ jobs[k].class.version = defs[k].version
                          => jobs[k].class = defs[k]
       /\ defs[k].version <= count.registers
       /\ jobs[k].class.version <= count.registers
  /\ \A i \in 1 .. made.insts : ran[i] <= count.registers
  /\ live \subseteq 1 .. made.insts
  /\ \A i \in live : ran[i] > 0

\* What the steps but those of a key do to the definitions.
LEMMA OtherDefs ==
  ASSUME TypeOK, OtherStep, NEW k \in Services
  PROVE  /\ \/ defs'[k] = defs[k] \/ defs'[k] = NoClass
            \/ /\ defs'[k].version = count.registers + 1
               /\ count'.registers = count.registers + 1
         /\ count'.registers \in {count.registers, count.registers + 1}
<1>0. defs \in [Services -> Class] /\ count \in Counts
  BY DEF TypeOK, Counts
<1>1. ASSUME NEW j \in Services, Register(j)
      PROVE  /\ \/ defs'[k] = defs[k]
                \/ defs'[k].version = count.registers + 1
             /\ count'.registers = count.registers + 1
  <2>1. Registered(j)
    BY <1>1, RegisterIs
  <2>2. PICK class \in Class : /\ class.version = count.registers + 1
                               /\ defs' = [defs EXCEPT ![j] = class]
    BY <2>1 DEF Registered
  <2>3. count' = [count EXCEPT !.registers = @ + 1]
    BY <2>1 DEF Registered
  <2> QED
    BY <1>0, <2>2, <2>3 DEF Counts
<1>2. ASSUME NEW j \in Services, NEW v \in Nat, Unregister(j, v)
      PROVE  /\ defs'[k] = defs[k] \/ defs'[k] = NoClass
             /\ count'.registers = count.registers
  <2>1. count' = [count EXCEPT !.prunes = @ + 1]
    BY <1>2 DEF Unregister
  <2>2. UNCHANGED defs \/ defs' = [defs EXCEPT ![j] = NoClass]
    BY <1>2 DEF Unregister
  <2> QED
    BY <1>0, <2>1, <2>2 DEF Counts
<1>3. CASE ReloadAll
  <2>1. count' = [count EXCEPT !.reloads = @ + 1] /\ UNCHANGED defs
    BY <1>3 DEF ReloadAll, regVars
  <2> QED
    BY <1>0, <2>1 DEF Counts
<1>4. CASE ShutdownEnds
  BY <1>4 DEF ShutdownEnds
<1>5. CASE \/ LevelCleaned \/ LevelEvaluated \/ BatchDone \/ BatchThrew
           \/ Shutdown \/ \E j \in Services : ShutdownKey(j)
  BY <1>5 DEF LevelCleaned, LevelEvaluated, BatchDone, BatchThrew, Shutdown,
              ShutdownKey, regVars
<1>6. CASE UNCHANGED vars \/ \E t \in tears : Unregistered(t)
  BY <1>6 DEF Unregistered, vars, regVars
<1> QED
  BY <1>1, <1>2, <1>3, <1>4, <1>5, <1>6 DEF OtherStep, Stopping

LEMMA OtherCount ==
  ASSUME TypeOK, OtherStep
  PROVE  count'.registers \in Nat /\ count'.registers >= count.registers
<1>0. count \in Counts /\ count.registers \in Nat
  BY CountsUp DEF TypeOK, Counts
<1>1. CASE Services # {}
  BY <1>0, <1>1, OtherDefs
<1>2. CASE Services = {}
  <2>1. tears = {} /\ ~ReloadAll
    BY <1>2 DEF TypeOK, ReloadAll
  <2>2. UNCHANGED count
    BY <1>2, <2>1 DEF OtherStep, LevelCleaned, LevelEvaluated, BatchDone,
       BatchThrew, Shutdown, Stopping, ShutdownEnds, vars
  <2> QED
    BY <1>0, <2>2
<1> QED
  BY <1>1, <1>2

LEMMA VersionOther ==
  ASSUME TypeOK, LoopInv, VersionInv, OtherStep
  PROVE  VersionInv'
<1>0. count.registers \in Nat /\ \A k \in Services : jobs[k].class.version \in Nat
  BY CountsUp, JobTyped DEF Class
<1>1. count'.registers \in Nat /\ count'.registers >= count.registers
  BY OtherCount
<1>2. ASSUME NEW k \in Services
      PROVE  /\ Busy(k)' => /\ jobs'[k].class.version > 0
                            /\ jobs'[k].class.version = defs'[k].version
                                 => jobs'[k].class = defs'[k]
             /\ defs'[k].version <= count'.registers
             /\ jobs'[k].class.version <= count'.registers
  <2>1. defs'[k].version <= count'.registers
    <3>1. NoClass.version = 0
      BY DEF NoClass
    <3> QED
      BY <1>0, <1>1, <3>1, OtherDefs, JobTyped DEF VersionInv
  <2>2. CASE Fresh(k)'
    <3>1. ~Busy(k)' /\ jobs'[k].class.version = 0
      BY <2>2 DEF Fresh, Busy, NoClass
    <3> QED
      BY <1>1, <2>1, <3>1
  <2>3. CASE UNCHANGED jobs
    <3>1. jobs'[k].class.version <= count'.registers
      BY <1>0, <1>1, <2>3 DEF VersionInv
    <3>2. ASSUME Busy(k)', jobs'[k].class.version = defs'[k].version
          PROVE  jobs'[k].class = defs'[k]
      <4>1. /\ Busy(k) /\ jobs[k].class.version > 0
            /\ jobs[k].class.version <= count.registers
        BY <2>3, <3>2 DEF VersionInv, Busy
      <4>2. defs'[k] = defs[k]
        <5>1. NoClass.version = 0
          BY DEF NoClass
        <5> QED
          BY <1>0, <2>3, <3>2, <4>1, <5>1, OtherDefs
      <4> QED
        BY <2>3, <3>2, <4>1, <4>2 DEF VersionInv
    <3>3. Busy(k)' => jobs'[k].class.version > 0
      BY <2>3 DEF VersionInv, Busy
    <3> QED
      BY <2>1, <3>1, <3>2, <3>3
  <2> QED
    BY <2>2, <2>3, OtherJobs
<1>3. \A i \in 1 .. made'.insts : ran'[i] <= count'.registers
  <2>1. ASSUME NEW i \in 1 .. made.insts
        PROVE  ran[i] \in Nat
    BY ElementOfSeq DEF TypeOK
  <2>2. \A i \in 1 .. made.insts : ran[i] <= count.registers
    BY DEF VersionInv
  <2> QED
    BY <1>0, <1>1, <2>1, <2>2, OtherJobs
<1>4. live' \subseteq 1 .. made'.insts /\ \A i \in live' : ran'[i] > 0
  BY OtherJobs DEF VersionInv
<1> QED
  BY <1>2, <1>3, <1>4 DEF VersionInv

\* An evaluation that takes place ...
Evaluates(k) ==
  /\ jobs[k].stage = "recleaning" /\ jobs[k].inst \in 1 .. made.insts
  /\ \A d \in jobs[k].class.needs : Ready(slots, d)
  /\ wired' = [wired EXCEPT ![jobs[k].inst] = Ctx(jobs[k].class)]
  /\ ran' = [ran EXCEPT ![jobs[k].inst] = jobs[k].class.version]
  /\ live' = live \cup {jobs[k].inst}
  /\ jobs' = [jobs EXCEPT ![k].stage = "evaluating"]
  /\ UNCHANGED <<slots, made>>

\* ... and what happens to the instances otherwise.
LEMMA KeyInsts ==
  ASSUME TypeOK, InstInv, NEW k \in Services, KeyStep(k)
  PROVE  \/ Evaluate(k) /\ Evaluates(k)
         \/ Prepare(k) /\ UNCHANGED live
         \/ /\ ~Prepare(k) /\ made'.insts = made.insts
            /\ UNCHANGED <<wired, ran>> /\ live' \subseteq live
            /\ jobs'[k].stage # "evaluating"
<1>0. /\ jobs[k] \in Job /\ jobs \in [Services -> Job]
      /\ made \in [slots : Nat, insts : Nat]
  BY DEF TypeOK
<1>1. CASE Evaluate(k) /\ \A d \in jobs[k].class.needs : Ready(slots, d)
  <2>1. Holds(k, jobs[k].inst) /\ jobs[k].inst \in Nat \ {0}
    <3>1. jobs[k].inst > 0 /\ jobs[k].inst \in Nat
      BY <1>1, JobTyped DEF Evaluate, InstInv
    <3> QED
      BY <3>1 DEF Holds
  <2>2. jobs[k].inst \in 1 .. made.insts
    BY <1>0, <2>1 DEF InstInv
  <2> QED
    BY <1>1, <2>2 DEF Evaluate, Evaluates
<1>2. CASE Evaluate(k) /\ ~\A d \in jobs[k].class.needs : Ready(slots, d)
  <2>1. /\ live' \subseteq live /\ UNCHANGED <<wired, ran, made>>
        /\ jobs' = [jobs EXCEPT ![k] = NoJob] /\ ~Prepare(k)
    BY <1>2 DEF Evaluate, Prepare
  <2> QED
    BY <1>0, <2>1, NoJobsAre
<1>3. CASE Prepare(k)
  BY <1>3 DEF Prepare
<1>4. CASE Block(k)
  <2>1. made'.insts = made.insts /\ UNCHANGED instVars /\ ~Prepare(k)
    BY <1>0, <1>4 DEF Block, Prepare
  <2>2. jobs'[k].stage # "evaluating"
    BY <1>0, <1>4 DEF Block, NoJob
  <2> QED
    BY <2>1, <2>2 DEF instVars
<1>5. CASE Skip(k) \/ Cleaned(k) \/ TornDown(k) \/ Evaluated(k) \/ EvaluateThrows(k)
  <2>1. /\ UNCHANGED <<made, wired, ran>> /\ live' \subseteq live
        /\ jobs' = [jobs EXCEPT ![k] = NoJob] /\ ~Prepare(k)
    BY <1>5 DEF Skip, Cleaned, TornDown, Evaluated, EvaluateThrows, Prepare,
                instVars
  <2> QED
    BY <1>0, <2>1, NoJobsAre
<1> QED
  BY <1>1, <1>2, <1>3, <1>4, <1>5 DEF KeyStep

LEMMA PrepareInsts ==
  ASSUME TypeOK, NEW k \in Services, Prepare(k)
  PROVE  /\ made'.insts \in {made.insts, made.insts + 1}
         /\ \A i \in 1 .. made.insts : ran'[i] = ran[i] /\ wired'[i] = wired[i]
         /\ slots[k].inst > 0 => made'.insts = made.insts
         /\ ~(slots[k].inst > 0) =>
              /\ made'.insts = made.insts + 1
              /\ ran'[made.insts + 1] = 0 /\ wired'[made.insts + 1] = NoCtx
<1>0. /\ made.insts \in Nat /\ Len(ran) = made.insts /\ Len(wired) = made.insts
      /\ ran \in Seq(Nat) /\ wired \in Seq([Services -> Nat])
  BY DEF TypeOK
<1>1. CASE slots[k].inst > 0
  BY <1>1 DEF Prepare
<1>2. CASE ~(slots[k].inst > 0)
  <2>1. ran' = Append(ran, 0) /\ wired' = Append(wired, NoCtx)
        /\ made'.insts = made.insts + 1
    BY <1>2 DEF Prepare
  <2>2. /\ ran'[made.insts + 1] = 0
        /\ \A i \in 1 .. made.insts : ran'[i] = ran[i]
    BY <1>0, <2>1, AppendProperties
  <2>3. /\ wired'[made.insts + 1] = NoCtx
        /\ \A i \in 1 .. made.insts : wired'[i] = wired[i]
    BY <1>0, <2>1, Blanks, AppendProperties
  <2> QED
    BY <1>2, <2>1, <2>2, <2>3
<1> QED
  BY <1>1, <1>2

LEMMA EvaluatesInsts ==
  ASSUME TypeOK, NEW k \in Services, Evaluates(k)
  PROVE  /\ ran'[jobs[k].inst] = jobs[k].class.version
         /\ wired'[jobs[k].inst] = Ctx(jobs[k].class)
         /\ \A i \in 1 .. made.insts : i # jobs[k].inst =>
              ran'[i] = ran[i] /\ wired'[i] = wired[i]
         /\ jobs'[k] = [jobs[k] EXCEPT !.stage = "evaluating"]
         /\ jobs'[k].stage = "evaluating" /\ jobs'[k].inst = jobs[k].inst
         /\ jobs'[k].class = jobs[k].class /\ jobs'[k].slot = jobs[k].slot
<1>1. /\ DOMAIN ran = 1 .. made.insts /\ DOMAIN wired = 1 .. made.insts
      /\ jobs \in [Services -> Job] /\ jobs[k] \in Job
  BY LenProperties DEF TypeOK
<1>2. jobs'[k] = [jobs[k] EXCEPT !.stage = "evaluating"]
  BY <1>1 DEF Evaluates
<1>3. /\ jobs'[k].stage = "evaluating" /\ jobs'[k].inst = jobs[k].inst
      /\ jobs'[k].class = jobs[k].class /\ jobs'[k].slot = jobs[k].slot
  BY <1>1, <1>2 DEF Job
<1> QED
  BY <1>1, <1>2, <1>3 DEF Evaluates

LEMMA VersionKey ==
  ASSUME TypeOK, InstInv, VersionInv, NEW k \in Services, KeyStep(k)
  PROVE  VersionInv'
<1>0. /\ UNCHANGED defs /\ \A j \in Services : j # k => jobs'[j] = jobs[j]
      /\ made.insts \in Nat /\ count.registers \in Nat
  BY KeyJobs, CountsUp DEF regVars, TypeOK
<1>1. count'.registers = count.registers
  BY DEF KeyStep, Skip, Block, Prepare, Cleaned, TornDown, Evaluate, Evaluated,
         EvaluateThrows, TypeOK
<1>2. ASSUME NEW j \in Services
      PROVE  /\ Busy(j)' => /\ jobs'[j].class.version > 0
                            /\ jobs'[j].class.version = defs'[j].version
                                 => jobs'[j].class = defs'[j]
             /\ defs'[j].version <= count'.registers
             /\ jobs'[j].class.version <= count'.registers
  <2>1. CASE j # k
    BY <1>0, <1>1, <2>1 DEF VersionInv, Busy
  <2>2. CASE j = k /\ Prepare(k)
    <3>1. defs[k].version > 0
      BY <2>2 DEF Prepare
    <3> QED
      BY <1>0, <1>1, <2>2, <3>1, PrepareSlot DEF VersionInv
  <2>3. CASE j = k /\ Evaluates(k)
    <3>1. Busy(k)
      BY <2>3 DEF Busy, Evaluates
    <3> QED
      BY <1>0, <1>1, <2>3, <3>1, EvaluatesInsts DEF VersionInv
  <2>4. CASE j = k /\ ~Prepare(k) /\ jobs'[k].stage # "evaluating"
    <3>0. \/ jobs'[k] = NoJob
          \/ jobs'[k].stage = "tearing" /\ jobs'[k].class = NoClass
          \/ jobs'[k] = [jobs[k] EXCEPT !.stage = "evaluating"]
      BY <2>4, KeySlots
    <3>1. \/ jobs'[k] = NoJob
          \/ jobs'[k].stage = "tearing" /\ jobs'[k].class = NoClass
      <4>1. jobs[k] \in Job
        BY JobTyped
      <4>2. jobs'[k] # [jobs[k] EXCEPT !.stage = "evaluating"]
        BY <2>4, <4>1 DEF Job
      <4> QED
        BY <3>0, <4>2
    <3>2. ~Busy(k)' /\ jobs'[k].class.version = 0
      BY <3>1, NoJobsAre DEF Busy, NoClass
    <3> QED
      BY <1>0, <1>1, <2>4, <3>2 DEF VersionInv
  <2> QED
    BY <2>1, <2>2, <2>3, <2>4, KeyInsts
<1>3. /\ \A i \in 1 .. made'.insts : ran'[i] <= count'.registers
      /\ live' \subseteq 1 .. made'.insts
      /\ \A i \in live' : ran'[i] > 0
  <2>1. CASE Evaluates(k)
    <3>1. /\ jobs[k].class.version > 0
          /\ jobs[k].class.version <= count.registers
      BY <2>1 DEF VersionInv, Busy, Evaluates
    <3>2. UNCHANGED made /\ live' = live \cup {jobs[k].inst}
          /\ jobs[k].inst \in 1 .. made.insts
      BY <2>1 DEF Evaluates
    <3>3. \A i \in 1 .. made.insts :
            \/ i = jobs[k].inst /\ ran'[i] = jobs[k].class.version
            \/ i # jobs[k].inst /\ ran'[i] = ran[i]
      BY <2>1, EvaluatesInsts
    <3>4. \A i \in 1 .. made'.insts : ran'[i] <= count'.registers
      BY <1>1, <3>1, <3>2, <3>3 DEF VersionInv
    <3>5. live' \subseteq 1 .. made'.insts
      BY <3>2 DEF VersionInv
    <3>6. ASSUME NEW i \in live'
          PROVE  ran'[i] > 0
      <4>1. i \in 1 .. made.insts /\ (i \in live \/ i = jobs[k].inst)
        BY <3>2, <3>5
      <4>2. CASE i = jobs[k].inst
        BY <3>1, <3>3, <4>1, <4>2
      <4>3. CASE i # jobs[k].inst
        <5>1. i \in live /\ ran'[i] = ran[i]
          BY <3>3, <4>1, <4>3
        <5> QED
          BY <5>1 DEF VersionInv
      <4> QED
        BY <4>2, <4>3
    <3> QED
      BY <3>4, <3>5, <3>6
  <2>2. CASE Prepare(k) /\ UNCHANGED live
    <3>1. \A i \in 1 .. made'.insts : i \in 1 .. made.insts \/ ran'[i] = 0
      BY <1>0, <2>2, PrepareInsts
    <3>2. 1 .. made.insts \subseteq 1 .. made'.insts
      BY <1>0, <2>2, PrepareInsts
    <3>3. \A i \in 1 .. made.insts : ran'[i] = ran[i]
      BY <2>2, PrepareInsts
    <3> QED
      BY <1>0, <1>1, <2>2, <3>1, <3>2, <3>3 DEF VersionInv
  <2>3. CASE /\ made'.insts = made.insts /\ UNCHANGED <<wired, ran>>
             /\ live' \subseteq live
    BY <1>1, <2>3 DEF VersionInv
  <2> QED
    BY <2>1, <2>2, <2>3, KeyInsts
<1> QED
  BY <1>2, <1>3 DEF VersionInv

\* What the rest is built on.
CoreInv == TypeOK /\ LoopInv /\ InstInv /\ VersionInv

LEMMA InitCoreInv == Init => CoreInv
<1> SUFFICES ASSUME Init PROVE CoreInv
  OBVIOUS
<1>1. \A k \in Services : /\ defs[k] = NoClass /\ slots[k] = NoSlot
                          /\ jobs[k] = NoJob
  BY NoJobsAre DEF Init
<1>2. InstInv
  <2>1. \A k \in Services : \A i \in Nat \ {0} : ~Holds(k, i)
    BY <1>1, NoJobsAre DEF Init, Holds, NoSlot
  <2> QED
    BY <1>1, <2>1, NoJobsAre DEF InstInv, NoSlot
<1>3. VersionInv
  <2>1. count.registers = 0 /\ made.insts = 0 /\ live = {}
    BY DEF Init
  <2> QED
    BY <1>1, <2>1, NoJobsAre DEF VersionInv, Busy, NoClass
<1> QED
  BY <1>2, <1>3, InitTypeOK, InitLoopInv DEF CoreInv

\* A step is a step of some key or another.
LEMMA StepIs ==
  ASSUME TypeOK, [Next]_vars
  PROVE  OtherStep \/ \E k \in Services : KeyStep(k)
  BY NextIs DEF OtherStep

LEMMA StepCoreInv ==
  ASSUME CoreInv, [Next]_vars
  PROVE  CoreInv'
<1>1. TypeOK /\ LoopInv /\ InstInv /\ VersionInv
  BY DEF CoreInv
<1>2. TypeOK' /\ LoopInv'
  BY <1>1, StepLoopInv
<1>3. CASE OtherStep
  BY <1>1, <1>2, <1>3, InstOther, VersionOther DEF CoreInv
<1>4. ASSUME NEW k \in Services, KeyStep(k)
      PROVE  CoreInv'
  BY <1>1, <1>2, <1>4, InstKey, VersionKey DEF CoreInv
<1> QED
  BY <1>1, <1>3, <1>4, StepIs

LEMMA CoreInvHolds == Spec => []CoreInv
  BY InitCoreInv, StepCoreInv, PTL DEF Spec

\* The runtime's maps and its loop always have their types.
THEOREM TypeCorrect == Spec => []TypeOK
<1>1. CoreInv => TypeOK
  BY DEF CoreInv
<1> QED
  BY <1>1, CoreInvHolds, PTL

\* `draining' never keeps a settled promise, and a runtime that does not drain
\* has nothing dirty and no key in work.
LEMMA DrainEndsHolds == Spec => []DrainEnds
<1>1. CoreInv => DrainEnds
  BY DEF CoreInv, LoopInv, DrainEnds, LevelIdle, Draining, Working
<1> QED
  BY <1>1, CoreInvHolds, PTL

-----------------------------------------------------------------------------
(* Setups in force                                                         *)

\* The instance i is in the slot of k, or being cleaned up on its way out.
Home(k, i) ==
  \/ slots[k].inst = i
  \/ jobs[k].stage = "tearing" /\ jobs[k].inst = i
  \/ \E t \in tears : t.key = k /\ t.inst = i

\* While an unregistered key awaits its cleanup it has no instance, and no
\* work of a batch has either.
Still(k) ==
  defs[k].version = 0 /\ slots[k].inst = 0 /\ jobs[k].stage \in {"none", "queued"}

Calm ==
  /\ \A i \in live : \E k \in Services : Home(k, i)
  /\ \A k \in Services : Busy(k) => jobs[k].inst = slots[k].inst
  /\ \A t \in tears : Still(t.key)
  /\ stop # "no" => ~Draining /\ tears = {}
  /\ stop = "over" => live = {}

\* The jobs of a level are not replaced while one of them is under way.
LEMMA OtherIdle ==
  ASSUME TypeOK, LoopInv, OtherStep
  PROVE  UNCHANGED jobs \/ LevelIdle
<1>1. ~Draining => LevelIdle
  BY DEF LoopInv, Draining, Working, LevelIdle
<1>2. ASSUME NEW keys, Scheduled(keys)
      PROVE  UNCHANGED jobs \/ LevelIdle
  BY <1>1, <1>2 DEF Scheduled
<1>3. CASE LevelCleaned \/ LevelEvaluated \/ BatchDone \/ BatchThrew
  BY <1>3, LevelIs, EndingIsIdle
<1>4. CASE (\E k \in Services : Register(k)) \/ ReloadAll
             \/ \E t \in tears : Unregistered(t)
  BY <1>2, <1>4, RegisterIs, ReloadAllIs, UnregisteredIs DEF Registered
<1>5. CASE \/ \E k \in Services : \E v \in Nat : Unregister(k, v)
           \/ Shutdown \/ Stopping \/ UNCHANGED vars
  BY <1>5 DEF Unregister, Shutdown, Stopping, ShutdownKey, ShutdownEnds,
              drainVars, vars
<1> QED
  BY <1>3, <1>4, <1>5 DEF OtherStep

LEMMA OtherHome ==
  ASSUME CoreInv, \A t \in tears : Still(t.key), OtherStep,
         NEW k \in Services, NEW i \in live', Home(k, i)
  PROVE  Home(k, i)'
<1>0. TypeOK /\ LoopInv /\ InstInv /\ i \in Nat \ {0}
  <2>1. i \in 1 .. made.insts
    BY OtherJobs DEF CoreInv, VersionInv
  <2> QED
    BY <2>1 DEF CoreInv
<1>1. slots \in [Services -> Slot] /\ slots[k] \in Slot
  BY <1>0 DEF TypeOK
<1>2. CASE jobs[k].stage = "tearing" /\ jobs[k].inst = i
  BY <1>0, <1>2, OtherIdle DEF Home, LevelIdle
<1>3. CASE \E t \in tears : t.key = k /\ t.inst = i
  <2>1. PICK t \in tears : t.key = k /\ t.inst = i
    BY <1>3
  <2>2. CASE \E u \in tears : Unregistered(u)
    <3>1. PICK u \in tears : tears' = tears \ {u} /\ live' = live \ {u.inst}
      BY <1>0, <2>2, UnregisteredIs
    <3> QED
      BY <2>1, <3>1 DEF Home
  <2>3. CASE ~\E u \in tears : Unregistered(u)
    <3>1. tears \subseteq tears'
      BY <1>0, <2>3, RegisterIs, ReloadAllIs, LevelIs DEF OtherStep, Registered,
         Unregister, BatchDone, BatchThrew, Shutdown, Stopping, ShutdownKey,
         ShutdownEnds, vars
    <3> QED
      BY <2>1, <3>1 DEF Home
  <2> QED
    BY <2>2, <2>3
<1>4. CASE slots[k].inst = i
  <2>1. ASSUME NEW j \in Services, Register(j)
        PROVE  Home(k, i)'
    <3>1. slots' = [slots EXCEPT ![j] = Ensured(j)]
      BY <1>0, <2>1, RegisterIs DEF Registered
    <3>2. slots[k].id > 0
      BY <1>0, <1>4, JobTyped DEF InstInv
    <3>3. Ensured(k) = slots[k]
      BY <3>2 DEF Ensured
    <3> QED
      BY <1>1, <1>4, <3>1, <3>3 DEF Home
  <2>2. ASSUME NEW j \in Services, NEW v \in Nat, Unregister(j, v)
        PROVE  Home(k, i)'
    <3>1. CASE k # j \/ UNCHANGED slots
      <4>1. slots'[k].inst = i
        BY <1>1, <1>4, <2>2, <3>1 DEF Unregister
      <4> QED
        BY <4>1 DEF Home
    <3>2. CASE k = j /\ ~UNCHANGED slots
      <4>1. [key |-> k, inst |-> slots[k].inst, of |-> v] \in tears'
        BY <2>2, <3>2 DEF Unregister
      <4>2. PICK t \in tears' : t = [key |-> k, inst |-> slots[k].inst, of |-> v]
        BY <4>1
      <4>3. t.key = k /\ t.inst = i
        BY <1>4, <4>2
      <4> QED
        BY <4>3 DEF Home
    <3> QED
      BY <3>1, <3>2
  <2>3. ASSUME NEW t \in tears, Unregistered(t)
        PROVE  Home(k, i)'
    <3>1. slots' = Without(t) /\ slots[t.key].inst = 0
      BY <1>0, <2>3, UnregisteredIs DEF Still
    <3>2. slots'[k] = slots[k]
      BY <1>0, <1>1, <1>4, <3>1 DEF Without
    <3> QED
      BY <1>4, <3>2 DEF Home
  <2>4. ASSUME NEW j \in Services, ShutdownKey(j)
        PROVE  Home(k, i)'
    <3>1. slots' = [slots EXCEPT ![j] = NoSlot] /\ live' = live \ {slots[j].inst}
      BY <2>4 DEF ShutdownKey
    <3>2. k # j
      BY <1>4, <3>1
    <3> QED
      BY <1>1, <1>4, <3>1, <3>2 DEF Home
  <2>5. CASE \/ LevelCleaned \/ LevelEvaluated \/ BatchDone \/ BatchThrew
             \/ ReloadAll \/ Shutdown \/ ShutdownEnds \/ UNCHANGED vars
    <3>1. UNCHANGED slots
      BY <1>0, <2>5, ReloadAllIs DEF LevelCleaned, LevelEvaluated, BatchDone,
         BatchThrew, Shutdown, ShutdownEnds, vars
    <3> QED
      BY <1>4, <3>1 DEF Home
  <2> QED
    BY <2>1, <2>2, <2>3, <2>4, <2>5 DEF OtherStep, Stopping
<1> QED
  BY <1>2, <1>3, <1>4 DEF Home

\* A key that is busy keeps its slot's instance.
LEMMA BusyOther ==
  ASSUME CoreInv, ~Overlap, Calm, OtherStep, NEW k \in Services, Busy(k)
  PROVE  slots'[k].inst = slots[k].inst
<1>0. TypeOK /\ LoopInv /\ InstInv /\ slots \in [Services -> Slot]
  BY DEF CoreInv, TypeOK
<1>1. jobs[k].stage \notin {"none", "queued"} /\ slots[k].inst > 0 /\ Draining
  BY <1>0 DEF Busy, Calm, InstInv, LoopInv, Working, Draining
<1>2. ASSUME NEW j \in Services, Register(j)
      PROVE  slots'[k] = slots[k]
  <2>1. slots' = [slots EXCEPT ![j] = Ensured(j)] /\ slots[k].id > 0
    BY <1>0, <1>1, <1>2, RegisterIs DEF Registered, InstInv
  <2> QED
    BY <1>0, <2>1 DEF Ensured
<1>3. ASSUME NEW j \in Services, NEW v \in Nat, Unregister(j, v)
      PROVE  slots'[k] = slots[k]
  <2>1. j # k
    BY <1>1, <1>3 DEF Unregister
  <2> QED
    BY <1>0, <1>3, <2>1 DEF Unregister
<1>4. ASSUME NEW t \in tears, Unregistered(t)
      PROVE  slots'[k] = slots[k]
  <2>1. t.key # k /\ slots' = Without(t)
    BY <1>0, <1>1, <1>4, UnregisteredIs DEF Calm, Still
  <2> QED
    BY <1>0, <2>1 DEF Without
<1>5. ~\E j \in Services : ShutdownKey(j)
  BY <1>1 DEF ShutdownKey, Calm
<1>6. CASE \/ LevelCleaned \/ LevelEvaluated \/ BatchDone \/ BatchThrew
           \/ ReloadAll \/ Shutdown \/ ShutdownEnds \/ UNCHANGED vars
  BY <1>0, <1>6, ReloadAllIs DEF LevelCleaned, LevelEvaluated, BatchDone,
     BatchThrew, Shutdown, ShutdownEnds, vars
<1> QED
  BY <1>2, <1>3, <1>4, <1>5, <1>6 DEF OtherStep, Stopping

LEMMA StillOther ==
  ASSUME CoreInv, ~Overlap, Calm, OtherStep, NEW t \in tears'
  PROVE  Still(t.key)'
<1>0. TypeOK /\ LoopInv /\ InstInv /\ defs \in [Services -> Class]
  BY DEF CoreInv, TypeOK
<1>1. CASE t \in tears
  <2>1. t.key \in Services /\ Still(t.key)
    BY <1>0, <1>1 DEF Calm, TypeOK
  <2> DEFINE k == t.key
  <2>2. slots'[k].inst = 0
    BY <1>0, <2>1, OtherSlots DEF Still
  <2>3. jobs'[k].stage \in {"none", "queued"}
    <3>1. CASE UNCHANGED jobs
      BY <2>1, <3>1 DEF Still
    <3>2. CASE Fresh(k)'
      BY <2>2, <3>2 DEF Fresh
    <3> QED
      BY <1>0, <2>1, <3>1, <3>2, OtherJobs
  <2>4. defs'[k].version = 0
    <3>1. CASE \E j \in Services : Register(j)
      <4>1. PICK j \in Services : Register(j)
        BY <3>1
      <4>2. j # k
        BY <1>1, <4>1 DEF Register, Untorn
      <4>3. defs'[k] = defs[k]
        BY <1>0, <2>1, <4>1, <4>2, RegisterIs DEF Registered
      <4> QED
        BY <2>1, <4>3 DEF Still
    <3>2. CASE ~\E j \in Services : Register(j)
      <4>1. defs'[k] = defs[k] \/ defs'[k] = NoClass
        BY <1>0, <2>1, <3>2, LevelIs, UnregisteredIs, ReloadAllIs
           DEF OtherStep, Unregister, BatchDone, BatchThrew, Shutdown, Stopping,
               ShutdownKey, ShutdownEnds, vars, regVars
      <4> QED
        BY <2>1, <4>1 DEF Still, NoClass
    <3> QED
      BY <3>1, <3>2
  <2> QED
    BY <2>2, <2>3, <2>4 DEF Still
<1>2. CASE t \notin tears
  <2>1. \E k \in Services : \E v \in Nat : Unregister(k, v)
    BY <1>0, <1>2, RegisterIs, UnregisteredIs, ReloadAllIs, LevelIs
       DEF OtherStep, Registered, BatchDone, BatchThrew, Shutdown, Stopping,
           ShutdownKey, ShutdownEnds, vars
  <2>2. PICK k \in Services, v \in Nat : Unregister(k, v)
    BY <2>1
  <2>3. t = [key |-> k, inst |-> slots[k].inst, of |-> v]
    BY <1>2, <2>2 DEF Unregister
  <2>4. t.key = k /\ defs'[k] = NoClass /\ UNCHANGED jobs /\ jobs[k].stage = "none"
    BY <1>0, <1>2, <2>2, <2>3 DEF Unregister, drainVars
  <2>5. slots'[k].inst = 0
    <3>1. t.inst = slots[t.key].inst /\ slots'[t.key].inst = 0
      BY <1>0, <1>2, <2>2, OtherSlots
    <3> QED
      BY <2>4, <3>1
  <2> QED
    BY <2>4, <2>5 DEF Still, NoClass
<1> QED
  BY <1>1, <1>2

LEMMA CalmOther ==
  ASSUME CoreInv, ~Overlap, Calm, OtherStep
  PROVE  Calm'
<1>0. TypeOK /\ LoopInv /\ InstInv /\ VersionInv
  BY DEF CoreInv
<1>1. \A i \in live' : \E k \in Services : Home(k, i)'
  BY <1>0, OtherJobs, OtherHome DEF Calm
<1>2. ASSUME NEW k \in Services, Busy(k)'
      PROVE  jobs'[k].inst = slots'[k].inst
  <2>1. UNCHANGED jobs
    BY <1>0, <1>2, OtherJobs DEF Fresh, Busy
  <2>2. Busy(k)
    BY <1>2, <2>1 DEF Busy
  <2> QED
    BY <2>1, <2>2, BusyOther DEF Calm
<1>3. \A t \in tears' : Still(t.key)'
  BY StillOther
<1>4. stop' # "no" => ~Draining' /\ tears' = {}
  <2>1. CASE stop # "no"
    <3>1. ~Draining /\ tears = {}
      BY <2>1 DEF Calm
    <3>2. (\E k \in Services : ShutdownKey(k)) \/ ShutdownEnds \/ UNCHANGED vars
      BY <2>1, <3>1 DEF OtherStep, LevelCleaned, LevelEvaluated, BatchDone,
         BatchThrew, Register, Unregister, ReloadAll, MayChange, Shutdown,
         Stopping, Draining
    <3>3. UNCHANGED <<batch, tears>>
      BY <3>2 DEF ShutdownKey, ShutdownEnds, vars, drainVars
    <3> QED
      BY <3>1, <3>3 DEF Draining
  <2>2. CASE stop = "no" /\ stop' # "no"
    <3>1. Shutdown
      BY <1>0, <2>2, RegisterIs, UnregisteredIs, ReloadAllIs, LevelIs
         DEF OtherStep, Registered, Unregister, BatchDone, BatchThrew, Stopping,
             ShutdownKey, ShutdownEnds, vars
    <3> QED
      BY <3>1 DEF Shutdown, Draining, drainVars
  <2> QED
    BY <2>1, <2>2
<1>5. ASSUME stop' = "over"
      PROVE  live' = {}
  <2>1. CASE stop = "over"
    BY <1>0, <2>1, OtherJobs DEF Calm
  <2>2. CASE stop # "over"
    <3>1. ShutdownEnds
      BY <1>0, <1>5, <2>2, RegisterIs, UnregisteredIs, ReloadAllIs, LevelIs
         DEF OtherStep, Registered, Unregister, BatchDone, BatchThrew, Stopping,
             ShutdownKey, Shutdown, vars
    <3>2. /\ UNCHANGED live /\ tears = {} /\ LevelIdle
          /\ \A k \in Services : slots[k].id = 0
      BY <1>0, <3>1 DEF ShutdownEnds, instVars, Calm, LoopInv, LevelIdle,
                        Working, Draining
    <3>3. \A k \in Services : slots[k].inst = 0
      BY <1>0, <3>2, JobTyped DEF InstInv
    <3>4. \A i \in live : i # 0
      BY <1>0 DEF VersionInv
    <3>5. \A k \in Services : \A i \in live : ~Home(k, i)
      BY <3>2, <3>3, <3>4 DEF Home, LevelIdle
    <3> QED
      BY <3>2, <3>5 DEF Calm
  <2> QED
    BY <2>1, <2>2
<1> QED
  BY <1>1, <1>2, <1>3, <1>4, <1>5 DEF Calm

LEMMA KeyHome ==
  ASSUME CoreInv, Calm, NEW k \in Services, KeyStep(k), NEW i \in live'
  PROVE  \E j \in Services : Home(j, i)'
<1>0. TypeOK /\ InstInv /\ VersionInv
  BY DEF CoreInv
<1>1. /\ UNCHANGED tears /\ \A j \in Services : j # k => jobs'[j] = jobs[j]
      /\ \A j \in Services : j # k => slots'[j] = slots[j]
  BY <1>0, KeyJobs, KeySlots
<1>2. CASE i \in live
  <2>0. i \in Nat \ {0}
    <3>1. i \in 1 .. made.insts /\ made.insts \in Nat
      BY <1>0, <1>2 DEF VersionInv, TypeOK
    <3> QED
      BY <3>1
  <2>1. PICK j \in Services : Home(j, i)
    BY <1>2 DEF Calm
  <2>2. CASE j # k \/ \E t \in tears : t.key = j /\ t.inst = i
    <3>1. Home(j, i)'
      BY <1>1, <2>1, <2>2 DEF Home
    <3> QED
      BY <3>1
  <2>3. CASE slots[k].inst = i
    <3>1. \/ slots'[k].inst = i
          \/ jobs'[k].stage = "tearing" /\ jobs'[k].inst = i
      <4>1. CASE Block(k)
        <5>1. /\ jobs[k] \in Job /\ jobs \in [Services -> Job]
              /\ slots[k].inst > 0
          BY <1>0, <2>0, <2>3 DEF TypeOK
        <5>2. jobs'[k] = [NoJob EXCEPT !.stage = "tearing", !.inst = slots[k].inst]
          BY <4>1, <5>1 DEF Block
        <5> QED
          BY <2>3, <5>2 DEF NoJob
      <4>2. CASE Prepare(k)
        BY <1>0, <2>0, <2>3, <4>2, PrepareSlot
      <4>3. CASE ~Block(k) /\ ~Prepare(k)
        BY <1>0, <2>3, <4>3, KeySlots
      <4> QED
        BY <4>1, <4>2, <4>3
    <3>2. Home(k, i)'
      BY <3>1 DEF Home
    <3> QED
      BY <3>2
  <2>4. CASE jobs[k].stage = "tearing" /\ jobs[k].inst = i
    <3>1. TornDown(k)
      BY <2>4 DEF KeyStep, Skip, Block, Prepare, Cleaned, Evaluate, Evaluated,
                  EvaluateThrows
    <3> QED
      BY <2>4, <3>1 DEF TornDown
  <2> QED
    BY <2>1, <2>2, <2>3, <2>4 DEF Home
<1>3. CASE i \notin live
  <2>1. Evaluates(k) /\ i = jobs[k].inst
    BY <1>0, <1>3, KeyInsts DEF Evaluates
  <2>2. Busy(k)
    BY <2>1 DEF Busy, Evaluates
  <2>3. slots'[k].inst = i
    BY <2>1, <2>2 DEF Calm, Evaluates
  <2>4. Home(k, i)'
    BY <2>3 DEF Home
  <2> QED
    BY <2>4
<1> QED
  BY <1>2, <1>3

LEMMA CalmKey ==
  ASSUME CoreInv, Calm, NEW k \in Services, KeyStep(k)
  PROVE  Calm'
<1>0. TypeOK /\ LoopInv
  BY DEF CoreInv
<1>1. /\ UNCHANGED <<defs, tears, stop, batch>> /\ jobs[k].stage # "none"
      /\ \A j \in Services : j # k => jobs'[j] = jobs[j]
      /\ \A j \in Services : j # k => slots'[j] = slots[j]
  BY <1>0, KeyJobs, KeySlots DEF regVars
<1>2. \A i \in live' : \E j \in Services : Home(j, i)'
  BY KeyHome
<1>3. ASSUME NEW j \in Services, Busy(j)'
      PROVE  jobs'[j].inst = slots'[j].inst
  <2>1. CASE j # k
    BY <1>1, <1>3, <2>1 DEF Busy, Calm
  <2>2. CASE j = k /\ Prepare(k)
    BY <1>0, <2>2, PrepareSlot
  <2>3. CASE j = k /\ ~Prepare(k)
    <3>1. /\ jobs'[k] = [jobs[k] EXCEPT !.stage = "evaluating"]
          /\ jobs[k].stage = "recleaning"
          /\ slots'[k].inst = slots[k].inst
      BY <1>0, <1>3, <2>3, KeySlots, NoJobsAre DEF Busy
    <3>2. jobs'[k].inst = jobs[k].inst
      BY <1>0, <3>1, JobTyped DEF Job
    <3> QED
      BY <2>3, <3>1, <3>2 DEF Busy, Calm
  <2> QED
    BY <2>1, <2>2, <2>3
<1>4. ASSUME NEW t \in tears'
      PROVE  Still(t.key)'
  <2>1. t \in tears /\ Still(t.key) /\ t.key \in Services
    BY <1>0, <1>1, <1>4 DEF Calm, TypeOK
  <2>2. CASE t.key # k
    BY <1>1, <2>1, <2>2 DEF Still
  <2>3. CASE t.key = k
    <3>1. Skip(k)
      BY <1>1, <2>1, <2>3 DEF Still, KeyStep, Skip, Block, Prepare, Cleaned,
         TornDown, Evaluate, Evaluated, EvaluateThrows
    <3>2. jobs'[k] = NoJob /\ UNCHANGED slots
      BY <1>0, <3>1 DEF Skip, TypeOK
    <3> QED
      BY <1>1, <2>1, <2>3, <3>2, NoJobsAre DEF Still
  <2> QED
    BY <2>2, <2>3
<1>5. stop = "no"
  BY <1>0, <1>1 DEF Calm, LoopInv, Draining, Working
<1> QED
  BY <1>1, <1>2, <1>3, <1>4, <1>5 DEF Calm

CalmInv == ~Overlap => Calm

LEMMA CalmHolds == Spec => []CalmInv
<1>1. Init => CalmInv
  BY NoJobsAre DEF Init, CalmInv, Calm, Draining, NoBatch, Busy
<1>2. CoreInv /\ CalmInv /\ [Next]_vars => CalmInv'
  <2> SUFFICES ASSUME CoreInv, CalmInv, [Next]_vars, ~Overlap PROVE Calm'
    BY DEF CalmInv
  <2>1. Calm /\ TypeOK
    BY DEF CalmInv, CoreInv
  <2> QED
    BY <2>1, StepIs, CalmOther, CalmKey
<1> QED
  BY <1>1, <1>2, CoreInvHolds, PTL DEF Spec

\* When no prune meets work under way on its own key, the setups in force at rest
\* belong to the instances in the slots, and a shutdown leaves none.
THEOREM SetupsHaveOwners == Spec => []NoOrphans
<1>1. CoreInv /\ CalmInv => NoOrphans
  <2> SUFFICES ASSUME CoreInv, Calm
               PROVE  /\ Idle => live \subseteq {slots[k].inst : k \in Services}
                      /\ stop = "over" => live = {}
    BY DEF CalmInv, NoOrphans
  <2>1. ASSUME Idle, NEW i \in live
        PROVE  \E k \in Services : slots[k].inst = i
    <3>1. tears = {} /\ LevelIdle
      BY <2>1 DEF Idle, CoreInv, LoopInv, Draining, Working, LevelIdle
    <3>2. PICK k \in Services : Home(k, i)
      BY DEF Calm
    <3> QED
      BY <3>1, <3>2 DEF Home, LevelIdle
  <2> QED
    BY <2>1 DEF Calm
<1> QED
  BY <1>1, CoreInvHolds, CalmHolds, PTL

-----------------------------------------------------------------------------
(* What is given to whom                                                   *)

\* The batch goes on, goes to another level, ends or begins.
LEMMA OtherBatch ==
  ASSUME TypeOK, OtherStep
  PROVE  \/ UNCHANGED <<batch, jobs>>
         \/ LevelCleaned \/ LevelEvaluated
         \/ batch' = NoBatch
         \/ \E D \in SUBSET Services : Starting(D)'
<1>1. CASE BatchDone \/ BatchThrew
  BY <1>1, EndedIs DEF Ended
<1>2. CASE (\E k \in Services : Register(k)) \/ ReloadAll
             \/ \E t \in tears : Unregistered(t)
  BY <1>2, RegisterIs, ReloadAllIs, UnregisteredIs DEF Registered, Scheduled
<1>3. CASE \/ \E k \in Services : \E v \in Nat : Unregister(k, v)
           \/ Shutdown \/ Stopping \/ UNCHANGED vars
  BY <1>3 DEF Unregister, Shutdown, Stopping, ShutdownKey, ShutdownEnds,
              drainVars, vars
<1> QED
  BY <1>1, <1>2, <1>3 DEF OtherStep

\* A class that goes takes the instance out of the slot, and a new class is
\* none with which an instance was evaluated.
LEMMA OtherClass ==
  ASSUME CoreInv, OtherStep, NEW d \in Services
  PROVE  \/ defs'[d] = defs[d]
         \/ slots'[d].inst = 0
         \/ \A i \in 1 .. made.insts : ran'[i] # defs'[d].version
<1>0. /\ TypeOK /\ LoopInv /\ InstInv /\ VersionInv
      /\ defs \in [Services -> Class]
  BY DEF CoreInv, TypeOK
<1>1. ASSUME NEW j \in Services, Register(j)
      PROVE  defs'[d] = defs[d] \/ \A i \in 1 .. made.insts : ran'[i] # defs'[d].version
  <2>1. defs'[d] = defs[d] \/ defs'[d].version = count.registers + 1
    BY <1>0, <1>1, RegisterIs DEF Registered
  <2>2. UNCHANGED ran /\ count.registers \in Nat
    BY <1>0, <1>1, OtherJobs, CountsUp
  <2>3. \A i \in 1 .. made.insts : ran[i] \in Nat /\ ran[i] <= count.registers
    BY <1>0, ElementOfSeq DEF TypeOK, VersionInv
  <2> QED
    BY <2>1, <2>2, <2>3
<1>2. ASSUME NEW j \in Services, NEW v \in Nat, Unregister(j, v)
      PROVE  defs'[d] = defs[d] \/ slots'[d].inst = 0
  <2>1. CASE d # j \/ UNCHANGED defs
    BY <1>0, <1>2, <2>1 DEF Unregister
  <2>2. CASE d = j /\ ~UNCHANGED defs
    <3>1. [key |-> d, inst |-> slots[d].inst, of |-> v] \in tears'
          /\ slots' = [slots EXCEPT ![d] =
               IF @.inst > 0 THEN [@ EXCEPT !.inst = 0, !.status = "blocked"]
                             ELSE NoSlot]
      BY <1>2, <2>2 DEF Unregister
    <3>2. slots[d] \in Slot /\ slots \in [Services -> Slot]
      BY <1>0 DEF TypeOK
    <3> QED
      BY <3>1, <3>2 DEF Slot, NoSlot
  <2> QED
    BY <2>1, <2>2
<1>3. CASE ShutdownEnds
  BY <1>0, <1>3, JobTyped DEF ShutdownEnds, InstInv
<1>4. CASE \/ LevelCleaned \/ LevelEvaluated \/ BatchDone \/ BatchThrew
           \/ ReloadAll \/ Shutdown \/ UNCHANGED vars
           \/ (\E k \in Services : ShutdownKey(k))
           \/ (\E t \in tears : Unregistered(t))
  <2>1. UNCHANGED defs
    BY <1>0, <1>4, UnregisteredIs, ReloadAllIs
       DEF LevelCleaned, LevelEvaluated, BatchDone, BatchThrew, Shutdown,
           ShutdownKey, vars, regVars
  <2> QED
    BY <2>1
<1> QED
  BY <1>1, <1>2, <1>3, <1>4 DEF OtherStep, Stopping

Above(m, k) == \E n \in DOMAIN batch.levels : n > m /\ k \in batch.levels[n]

\* The instance in the slot of d was evaluated with the class of d.
Current(d) == slots[d].inst > 0 /\ ran[slots[d].inst] = defs[d].version

\* It was given instances of its dependencies only.
GivenInv ==
  \A d \in Services : Current(d) =>
    \A k \in Services : wired[slots[d].inst][k] # 0 => k \in DepsOf(defs[d])

\* In phase 1, what is above the level under way is cleaned, and who was given
\* an instance of a level is above it.
Over(d) ==
  \A n \in DOMAIN batch.levels :
    /\ d \in batch.levels[n]
    /\ n > batch.at \/ (n = batch.at /\ jobs[d].stage = "none")
    => slots[d].inst \notin live

PhaseInv ==
  batch.phase = "cleaning" => \A d \in Services :
    /\ Over(d)
    /\ jobs[d].stage = "cleaning" => slots[d].inst \in {0, jobs[d].inst}
    /\ slots[d].inst \in live /\ Current(d) =>
         \A m \in DOMAIN batch.levels : \A k \in batch.levels[m] :
           wired[slots[d].inst][k] # 0 => Above(m, d)

LEMMA GivenKey ==
  ASSUME CoreInv, GivenInv, NEW k \in Services, KeyStep(k)
  PROVE  GivenInv'
<1>0. TypeOK /\ InstInv /\ VersionInv
  BY DEF CoreInv
<1>1. UNCHANGED defs /\ \A j \in Services : j # k => slots'[j] = slots[j]
  BY <1>0, KeyJobs, KeySlots DEF regVars
<1>2. SUFFICES ASSUME NEW d \in Services, Current(d)',
                      NEW e \in Services, wired'[slots'[d].inst][e] # 0
               PROVE  e \in DepsOf(defs[d])
  BY <1>1 DEF GivenInv
<1>3. \A j \in Services : slots[j].inst > 0 =>
        slots[j].inst \in 1 .. made.insts /\ Holds(j, slots[j].inst)
  BY <1>0, JobTyped DEF InstInv, Holds
<1>4. CASE Evaluates(k)
  <2>1. /\ UNCHANGED slots /\ jobs[k].inst \in 1 .. made.insts
        /\ Holds(k, jobs[k].inst) /\ Busy(k)
    BY <1>4 DEF Evaluates, Holds, Busy
  <2>2. CASE slots[d].inst # jobs[k].inst
    <3>1. slots[d].inst \in 1 .. made.insts
      BY <1>2, <1>3, <2>1 DEF Current
    <3>2. /\ ran'[slots[d].inst] = ran[slots[d].inst]
          /\ wired'[slots[d].inst] = wired[slots[d].inst]
      BY <1>0, <1>4, <2>2, <3>1, EvaluatesInsts
    <3> QED
      BY <1>1, <1>2, <2>1, <3>2 DEF GivenInv, Current
  <2>3. CASE slots[d].inst = jobs[k].inst
    <3>1. d = k
      <4>1. jobs[k].inst \in Nat \ {0}
        BY <1>0, <2>1, JobTyped DEF InstInv, Busy
      <4> QED
        BY <1>0, <2>1, <2>3, <4>1 DEF InstInv, Holds
    <3>2. jobs[k].class = defs[k]
      <4>1. ran'[jobs[k].inst] = jobs[k].class.version
        BY <1>0, <1>4, EvaluatesInsts
      <4>2. ran'[jobs[k].inst] = defs[k].version
        BY <1>1, <1>2, <2>1, <2>3, <3>1 DEF Current
      <4> QED
        BY <1>0, <2>1, <4>1, <4>2 DEF VersionInv
    <3>3. Ctx(defs[k])[e] # 0
      BY <1>0, <1>2, <1>4, <2>1, <2>3, <3>2, EvaluatesInsts
    <3> QED
      BY <3>1, <3>3 DEF Ctx
  <2> QED
    BY <2>2, <2>3
<1>5. CASE Prepare(k)
  <2>1. CASE d = k /\ ~(slots[k].inst > 0)
    <3>1. slots'[d].inst = made.insts + 1 /\ ran'[made.insts + 1] = 0
      BY <1>0, <1>5, <2>1, PrepareSlot, PrepareInsts
    <3>2. defs[d].version > 0
      BY <1>5, <2>1 DEF Prepare
    <3> QED
      BY <1>1, <1>2, <3>1, <3>2 DEF Current
  <2>2. CASE d # k \/ slots[k].inst > 0
    <3>1. slots'[d].inst = slots[d].inst
      BY <1>0, <1>1, <1>5, <2>2, PrepareSlot
    <3>2. slots[d].inst \in 1 .. made.insts
      BY <1>2, <1>3, <3>1 DEF Current
    <3>3. /\ ran'[slots[d].inst] = ran[slots[d].inst]
          /\ wired'[slots[d].inst] = wired[slots[d].inst]
      BY <1>0, <1>5, <3>2, PrepareInsts
    <3> QED
      BY <1>1, <1>2, <3>1, <3>3 DEF GivenInv, Current
  <2> QED
    BY <2>1, <2>2
<1>6. CASE ~Prepare(k) /\ UNCHANGED <<wired, ran>>
  <2>1. slots'[d].inst \in {0, slots[d].inst}
    BY <1>0, <1>1, <1>6, KeySlots
  <2> QED
    BY <1>1, <1>2, <1>6, <2>1 DEF GivenInv, Current
<1> QED
  BY <1>0, <1>4, <1>5, <1>6, KeyInsts

LEMMA GivenOther ==
  ASSUME CoreInv, GivenInv, OtherStep
  PROVE  GivenInv'
<1>0. TypeOK /\ LoopInv /\ InstInv /\ VersionInv
  BY DEF CoreInv
<1>1. SUFFICES ASSUME NEW d \in Services, Current(d)'
               PROVE  defs'[d] = defs[d] /\ Current(d)
                        /\ slots'[d].inst = slots[d].inst
  BY <1>0, OtherJobs DEF GivenInv
<1>2. UNCHANGED ran /\ slots'[d].inst = slots[d].inst
  BY <1>0, <1>1, OtherJobs, OtherSlots DEF Current
<1>3. slots[d].inst \in 1 .. made.insts
  BY <1>0, <1>1, <1>2, JobTyped DEF InstInv, Holds, Current
<1> QED
  BY <1>1, <1>2, <1>3, OtherClass DEF Current

\* Where a batch begins: the levels hold all that depends on a key of theirs.
LEMMA PhaseStarts ==
  ASSUME CoreInv', GivenInv', NEW D, Starting(D)'
  PROVE  PhaseInv'
<1>1. TypeOK' /\ VersionInv'
  BY DEF CoreInv
<1>2. SUFFICES ASSUME batch'.phase = "cleaning", NEW d \in Services
               PROVE  /\ Over(d)'
                      /\ jobs'[d].stage = "cleaning"
                           => slots'[d].inst \in {0, jobs'[d].inst}
                      /\ slots'[d].inst \in live' /\ Current(d)' =>
                           \A m \in DOMAIN batch'.levels :
                             \A k \in batch'.levels[m] :
                               wired'[slots'[d].inst][k] # 0 => Above(m, d)'
  BY DEF PhaseInv
<1>3. PICK R \in SUBSET Services :
        /\ Closed(defs', R) /\ Placed(batch'.levels) = R \cap Defined(defs')
        /\ batch' = [phase |-> "cleaning", levels |-> batch'.levels,
                     at |-> Len(batch'.levels)]
        /\ batch'.levels \in Seq(SUBSET Services)
        /\ Sorted(defs', batch'.levels)
        /\ jobs' = CleanJobs(slots', batch'.levels[batch'.at])
  BY <1>2 DEF Starting, NoBatch
<1>4. /\ batch'.at = Len(batch'.levels) /\ Len(batch'.levels) \in Nat
      /\ DOMAIN batch'.levels = 1 .. Len(batch'.levels)
  BY <1>3, LenProperties
<1>5. 0 \notin live'
  BY <1>1 DEF VersionInv
<1>6. Over(d)'
  <2>1. SUFFICES ASSUME NEW n \in DOMAIN batch'.levels, d \in batch'.levels[n],
                        n > batch'.at \/ (n = batch'.at /\ jobs'[d].stage = "none")
                 PROVE  slots'[d].inst \notin live'
    BY DEF Over
  <2>2. n = batch'.at /\ jobs'[d].stage = "none"
    BY <1>4, <2>1
  <2>3. ~(slots'[d].inst > 0)
    BY <1>3, <2>1, <2>2, CleanJobsAre
  <2>4. slots'[d].inst \in Nat
    BY <1>1 DEF TypeOK, Slot
  <2> QED
    BY <1>5, <2>3, <2>4
<1>7. jobs'[d].stage = "cleaning" => slots'[d].inst \in {0, jobs'[d].inst}
  BY <1>3, CleanJobsAre
<1>8. ASSUME slots'[d].inst \in live', Current(d)',
             NEW m \in DOMAIN batch'.levels, NEW k \in batch'.levels[m],
             wired'[slots'[d].inst][k] # 0
      PROVE  Above(m, d)'
  <2>1. k \in Services /\ k \in Placed(batch'.levels) /\ k \in R
    BY <1>3 DEF Placed
  <2>2. k \in DepsOf(defs'[d])
    BY <1>8, <2>1 DEF GivenInv
  <2>3. d \in Defined(defs')
    BY <1>1, <1>8 DEF Current, VersionInv, Defined
  <2>4. d \in Placed(batch'.levels)
    BY <1>3, <2>1, <2>2, <2>3, ClosedMeans
  <2>5. PICK n \in DOMAIN batch'.levels : d \in batch'.levels[n]
    BY <2>4 DEF Placed
  <2>6. PICK h \in DOMAIN batch'.levels : h < n /\ k \in batch'.levels[h]
    BY <1>3, <2>1, <2>2, <2>5 DEF Sorted
  <2>7. h = m
    BY <1>3, <2>6 DEF Sorted
  <2> QED
    BY <1>4, <2>5, <2>6, <2>7 DEF Above
<1> QED
  BY <1>6, <1>7, <1>8

LEMMA PhaseOther ==
  ASSUME CoreInv, CoreInv', GivenInv', PhaseInv, OtherStep
  PROVE  PhaseInv'
<1>0. TypeOK /\ LoopInv /\ InstInv /\ VersionInv
  BY DEF CoreInv
<1>1. /\ UNCHANGED <<wired, ran>> /\ live' \subseteq live
  BY <1>0, OtherJobs
<1>2. 0 \notin live /\ live \subseteq 1 .. made.insts
  BY <1>0 DEF VersionInv
<1>3. CASE UNCHANGED <<batch, jobs>>
  <2> SUFFICES ASSUME batch.phase = "cleaning", NEW d \in Services
               PROVE  /\ Over(d)'
                      /\ jobs[d].stage = "cleaning"
                           => slots'[d].inst \in {0, jobs[d].inst}
                      /\ slots'[d].inst \in live' /\ Current(d)' =>
                           \A m \in DOMAIN batch.levels :
                             \A k \in batch.levels[m] :
                               wired[slots'[d].inst][k] # 0 => Above(m, d)
    BY <1>1, <1>3 DEF PhaseInv, Above
  <2>1. slots'[d].inst \in {0, slots[d].inst}
    BY <1>0, OtherSlots
  <2>2. Over(d)'
    BY <1>1, <1>2, <1>3, <2>1 DEF Over, PhaseInv
  <2>3. jobs[d].stage = "cleaning" => slots'[d].inst \in {0, jobs[d].inst}
    BY <2>1 DEF PhaseInv
  <2>4. slots'[d].inst \in live' /\ Current(d)' =>
          slots'[d].inst = slots[d].inst /\ slots[d].inst \in live /\ Current(d)
    BY <1>1, <1>2, <2>1, OtherClass DEF Current
  <2> QED
    BY <2>2, <2>3, <2>4 DEF PhaseInv
<1>4. CASE LevelCleaned \/ LevelEvaluated
  <2> SUFFICES ASSUME batch'.phase = "cleaning", NEW d \in Services
               PROVE  /\ Over(d)'
                      /\ jobs'[d].stage = "cleaning"
                           => slots'[d].inst \in {0, jobs'[d].inst}
                      /\ slots'[d].inst \in live' /\ Current(d)' =>
                           \A m \in DOMAIN batch'.levels :
                             \A k \in batch'.levels[m] :
                               wired'[slots'[d].inst][k] # 0 => Above(m, d)'
    BY DEF PhaseInv
  <2>1. /\ LevelIdle /\ batch.phase = "cleaning" /\ batch'.levels = batch.levels
        /\ batch'.at = batch.at - 1 /\ UNCHANGED <<slots, defs, live, wired, ran>>
        /\ jobs' = CleanJobs(slots, batch.levels[batch'.at])
    BY <1>0, <1>4, LevelIs DEF regVars, instVars
  <2>2. DOMAIN batch.levels \subseteq Nat /\ batch.at \in Nat
    BY <1>0, LenProperties DEF TypeOK
  <2>3. Over(d)'
    <3>1. SUFFICES ASSUME NEW n \in DOMAIN batch.levels, d \in batch.levels[n],
                          n > batch'.at \/ (n = batch'.at /\ jobs'[d].stage = "none")
                   PROVE  slots[d].inst \notin live
      BY <2>1 DEF Over
    <3>2. CASE n = batch'.at /\ jobs'[d].stage = "none"
      <4>1. ~(slots[d].inst > 0)
        BY <2>1, <3>1, <3>2, CleanJobsAre
      <4> QED
        BY <1>0, <1>2, <4>1, JobTyped
    <3>3. CASE n > batch'.at
      <4>1. n > batch.at \/ n = batch.at
        BY <2>1, <2>2, <3>3
      <4>2. jobs[d].stage = "none"
        BY <2>1 DEF LevelIdle
      <4> QED
        BY <2>1, <3>1, <4>1, <4>2 DEF PhaseInv, Over
    <3> QED
      BY <3>1, <3>2, <3>3
  <2>4. jobs'[d].stage = "cleaning" => slots[d].inst \in {0, jobs'[d].inst}
    BY <2>1, CleanJobsAre
  <2>5. Current(d)' = Current(d) /\ \A m : Above(m, d)' = Above(m, d)
    BY <2>1 DEF Current, Above
  <2> QED
    BY <2>1, <2>3, <2>4, <2>5 DEF PhaseInv
<1>5. CASE batch' = NoBatch
  BY <1>5 DEF PhaseInv, NoBatch
<1>6. CASE \E D \in SUBSET Services : Starting(D)'
  BY <1>6, PhaseStarts
<1> QED
  BY <1>0, <1>3, <1>4, <1>5, <1>6, OtherBatch

\* In phase 1 a step of a key is the return of its cleanup.
LEMMA PhaseKey ==
  ASSUME CoreInv, PhaseInv, NEW k \in Services, KeyStep(k)
  PROVE  PhaseInv'
<1>0. TypeOK /\ LoopInv /\ VersionInv
  BY DEF CoreInv
<1>1. /\ UNCHANGED <<defs, batch>> /\ jobs[k].stage # "none"
      /\ \A j \in Services : j # k => jobs'[j] = jobs[j]
  BY <1>0, KeyJobs DEF regVars
<1> SUFFICES ASSUME batch.phase = "cleaning", NEW d \in Services
             PROVE  /\ Over(d)'
                    /\ jobs'[d].stage = "cleaning"
                         => slots'[d].inst \in {0, jobs'[d].inst}
                    /\ slots'[d].inst \in live' /\ Current(d)' =>
                         \A m \in DOMAIN batch.levels : \A e \in batch.levels[m] :
                           wired'[slots'[d].inst][e] # 0 => Above(m, d)
  BY <1>1 DEF PhaseInv, Above
<1>2. jobs[k].stage = "cleaning"
  BY <1>0, <1>1 DEF LoopInv
<1>3. Cleaned(k)
  BY <1>2 DEF KeyStep, Skip, Block, Prepare, TornDown, Evaluate, Evaluated,
              EvaluateThrows
<1>4. /\ UNCHANGED <<slots, wired, ran>> /\ live' = live \ {jobs[k].inst}
      /\ jobs'[k] = NoJob
  BY <1>0, <1>3 DEF Cleaned, TypeOK
<1>5. Over(d)'
  <2>1. CASE d # k
    BY <1>1, <1>4, <2>1 DEF Over, PhaseInv
  <2>2. CASE d = k
    <3>1. slots[k].inst \in {0, jobs[k].inst} /\ 0 \notin live
      BY <1>0, <1>2 DEF PhaseInv, VersionInv
    <3> QED
      BY <1>4, <2>2, <3>1 DEF Over
  <2> QED
    BY <2>1, <2>2
<1>6. jobs'[d].stage = "cleaning" => slots[d].inst \in {0, jobs'[d].inst}
  BY <1>1, <1>4, NoJobsAre DEF PhaseInv
<1>7. Current(d)' = Current(d)
  BY <1>1, <1>4 DEF Current
<1> QED
  BY <1>4, <1>5, <1>6, <1>7 DEF PhaseInv

LEMMA PhaseHolds == Spec => [](GivenInv /\ PhaseInv)
<1>1. Init => GivenInv /\ PhaseInv
  BY NoJobsAre DEF Init, GivenInv, PhaseInv, Current, NoSlot, NoBatch
<1>2. CoreInv /\ GivenInv /\ PhaseInv /\ [Next]_vars => (GivenInv /\ PhaseInv)'
  <2> SUFFICES ASSUME CoreInv, GivenInv, PhaseInv, [Next]_vars
               PROVE  GivenInv' /\ PhaseInv'
    OBVIOUS
  <2>1. CoreInv' /\ TypeOK
    BY StepCoreInv DEF CoreInv
  <2>2. CASE OtherStep
    BY <2>1, <2>2, GivenOther, PhaseOther
  <2>3. ASSUME NEW k \in Services, KeyStep(k)
        PROVE  GivenInv' /\ PhaseInv'
    BY <2>3, GivenKey, PhaseKey
  <2> QED
    BY <2>1, <2>2, <2>3, StepIs
<1> QED
  BY <1>1, <1>2, CoreInvHolds, PTL DEF Spec

\* A service is cleaned up after those that were given its instance.
THEOREM DependentsGoFirst == Spec => DependentsCleanedFirst
<1> DEFINE Cleans == \A k \in Services :
             jobs[k].stage = "cleaning" /\ jobs'[k].stage = "none" =>
               \A d \in Services :
                 LET inst == slots[d].inst IN
                 inst \in live' /\ ran[inst] = defs[d].version
                   => wired[inst][k] # jobs[k].inst
<1>1. CoreInv /\ PhaseInv /\ [Next]_vars => [Cleans]_vars
  <2> SUFFICES ASSUME CoreInv, PhaseInv, [Next]_vars,
                      NEW k \in Services, NEW d \in Services,
                      jobs[k].stage = "cleaning", jobs'[k].stage = "none",
                      slots[d].inst \in live',
                      ran[slots[d].inst] = defs[d].version
               PROVE  wired[slots[d].inst][k] # jobs[k].inst
    OBVIOUS
  <2>0. TypeOK /\ LoopInv /\ InstInv /\ VersionInv
    BY DEF CoreInv
  <2>1. /\ batch.phase = "cleaning" /\ k \in batch.levels[batch.at]
        /\ batch.at \in DOMAIN batch.levels
    BY <2>0 DEF LoopInv, Working
  <2>2. live' \subseteq live
    <3>1. ASSUME NEW j \in Services, KeyStep(j)
          PROVE  live' \subseteq live
      <4>1. jobs[j].stage = "cleaning"
        BY <2>0, <2>1, <3>1, KeyJobs DEF LoopInv
      <4>2. Cleaned(j)
        BY <3>1, <4>1 DEF KeyStep, Skip, Block, Prepare, TornDown, Evaluate,
                          Evaluated, EvaluateThrows
      <4> QED
        BY <4>2 DEF Cleaned
    <3> QED
      BY <2>0, <3>1, StepIs, OtherJobs
  <2>3. jobs[k].inst > 0
    BY <2>0 DEF InstInv
  <2>4. slots[d].inst > 0
    <3>1. 0 \notin live
      BY <2>0 DEF VersionInv
    <3> QED
      BY <2>0, <2>2, <3>1, JobTyped
  <2>5. ASSUME wired[slots[d].inst][k] # 0
        PROVE  FALSE
    <3>1. Above(batch.at, d)
      BY <2>1, <2>2, <2>4, <2>5 DEF PhaseInv, Current
    <3>2. slots[d].inst \notin live
      BY <2>1, <3>1 DEF PhaseInv, Above, Over
    <3> QED
      BY <2>2, <3>2
  <2> QED
    BY <2>3, <2>5
<1> QED
  BY <1>1, CoreInvHolds, PhaseHolds, PTL DEF Spec, DependentsCleanedFirst

-----------------------------------------------------------------------------
(* What a batch still has to do                                            *)

\* The smallest closed set that holds the keys.
Within(df, keys) ==
  {k \in Services : \A S \in SUBSET Services :
                      keys \subseteq S /\ Closed(df, S) => k \in S}

\* What a batch yet to come will be about: the dirty keys, those whose slots
\* go when a cleanup returns, and all that depends on them.
Owing == dirty \cup {t.key : t \in tears}
Due == Within(defs, Owing)

LEMMA WithinIs ==
  ASSUME NEW df, NEW keys \in SUBSET Services
  PROVE  /\ Within(df, keys) \in SUBSET Services /\ keys \subseteq Within(df, keys)
         /\ Closed(df, Within(df, keys))
<1>1. ASSUME NEW k \in Defined(df), DepsOf(df[k]) \cap Within(df, keys) # {}
      PROVE  k \in Within(df, keys)
  <2>1. ASSUME NEW S \in SUBSET Services, keys \subseteq S, Closed(df, S)
        PROVE  k \in S
    <3>1. Within(df, keys) \subseteq S
      BY <2>1 DEF Within
    <3> QED
      BY <1>1, <2>1, <3>1, ClosedMeans
  <2> QED
    BY <2>1 DEF Within, Defined
<1> QED
  BY <1>1, ClosedMeans DEF Within

LEMMA OwingTyped ==
  ASSUME TypeOK
  PROVE  Owing \in SUBSET Services
  BY DEF TypeOK, Owing

LEMMA DueIs ==
  ASSUME TypeOK
  PROVE  /\ Owing \subseteq Due /\ Due \subseteq Services
         /\ \A k \in Defined(defs) \ Due : DepsOf(defs[k]) \cap Due = {}
  BY OwingTyped, WithinIs, ClosedMeans DEF Due

\* Level upon level, and who depends on a key of a level, and is not due again,
\* is above that level.
LevelInv ==
  Working =>
    /\ \A m, n \in DOMAIN batch.levels :
         m # n => batch.levels[m] \cap batch.levels[n] = {}
    /\ \A k \in Defined(defs) \ Due : \A m \in DOMAIN batch.levels :
         DepsOf(defs[k]) \cap batch.levels[m] # {} => Above(m, k)

\* The batch will still evaluate k.
Awaiting(k) ==
  \E n \in DOMAIN batch.levels :
    /\ k \in batch.levels[n]
    /\ \/ batch.phase = "cleaning"
       \/ /\ batch.phase = "evaluating"
          /\ n > batch.at \/ (n = batch.at /\ jobs[k].stage # "none")

\* k is as its class and the services it needs say.
Right(k) ==
  /\ IF Missing(k) = {} THEN slots[k].status \in {"ready", "failed"}
                        ELSE slots[k].status = "blocked" /\ slots[k].inst = 0
  /\ Ready(slots, k) => /\ ran[slots[k].inst] = defs[k].version
                        /\ wired[slots[k].inst] = Ctx(defs[k])

\* ... or what is under way will make it so.
InHand(k) ==
  /\ jobs[k].stage = "tearing" =>
       Missing(k) # {} /\ slots[k].status = "blocked" /\ slots[k].inst = 0
  /\ Busy(k) =>
       /\ Missing(k) = {} /\ jobs[k].class = defs[k]
       /\ slots[k].id = jobs[k].slot /\ slots[k].inst = jobs[k].inst
  /\ jobs[k].stage = "evaluating" =>
       ran[jobs[k].inst] = defs[k].version /\ wired[jobs[k].inst] = Ctx(defs[k])

Good == stop = "no" /\ ~drainError /\ batch.phase # "thrown"

SettleInv ==
  Good => /\ LevelInv
          /\ \A k \in Defined(defs) \ Due : InHand(k) /\ (Awaiting(k) \/ Right(k))

LEMMA SameView ==
  ASSUME TypeOK, NEW k \in Services, defs'[k] = defs[k],
         \A d \in DepsOf(defs[k]) : slots'[d] = slots[d]
  PROVE  Missing(k)' = Missing(k) /\ Ctx(defs[k])' = Ctx(defs[k])
<1>1. \A d \in DepsOf(defs[k]) : Ready(slots', d) = Ready(slots, d)
  BY DEF Ready
<1>2. Missing(k)' = Missing(k)
  BY <1>1 DEF Missing, DepsOf
<1>3. Ctx(defs[k])' = Ctx(defs[k])
  BY <1>1 DEF Ctx
<1> QED
  BY <1>2, <1>3

\* A key whose slot, dependencies and instances a step leaves alone.
LEMMA KeyStays ==
  ASSUME TypeOK, InstInv, NEW k \in Services, defs'[k] = defs[k],
         slots'[k] = slots[k], \A d \in DepsOf(defs[k]) : slots'[d] = slots[d],
         \A i \in 1 .. made.insts :
           Holds(k, i) => ran'[i] = ran[i] /\ wired'[i] = wired[i]
  PROVE  /\ Right(k) => Right(k)'
         /\ jobs'[k] = jobs[k] /\ InHand(k) => InHand(k)'
<1>1. Missing(k)' = Missing(k) /\ Ctx(defs[k])' = Ctx(defs[k])
  BY SameView
<1>2. ASSUME NEW i \in Nat, i > 0, Holds(k, i)
      PROVE  ran'[i] = ran[i] /\ wired'[i] = wired[i]
  <2>1. i <= made.insts /\ made.insts \in Nat
    BY <1>2 DEF InstInv, TypeOK
  <2> QED
    BY <1>2, <2>1
<1>3. slots[k].inst > 0 => /\ ran'[slots[k].inst] = ran[slots[k].inst]
                           /\ wired'[slots[k].inst] = wired[slots[k].inst]
  BY <1>2, JobTyped DEF Holds
<1>4. jobs[k].stage = "evaluating" => /\ ran'[jobs[k].inst] = ran[jobs[k].inst]
                                      /\ wired'[jobs[k].inst] = wired[jobs[k].inst]
  <2>1. jobs[k].stage = "evaluating" => jobs[k].inst > 0
    BY DEF InstInv
  <2> QED
    BY <1>2, <2>1, JobTyped DEF Holds
<1>5. Right(k) => Right(k)'
  BY <1>1, <1>3 DEF Right, Ready
<1>6. jobs'[k] = jobs[k] /\ InHand(k) => InHand(k)'
  BY <1>1, <1>4 DEF InHand, Busy
<1> QED
  BY <1>5, <1>6

\* The step changes nothing but keys that are to be reconciled.
Disturbs(keys) ==
  /\ Owing \subseteq keys
  /\ \A k \in Services \ keys : defs'[k] = defs[k] /\ slots'[k] = slots[k]
  /\ UNCHANGED <<wired, ran>>

LEMMA Undisturbed ==
  ASSUME TypeOK, InstInv, NEW keys \in SUBSET Services, Disturbs(keys),
         NEW k \in Defined(defs'), k \notin Within(defs', keys)
  PROVE  /\ k \in Defined(defs) \ Due /\ defs'[k] = defs[k]
         /\ Right(k) => Right(k)'
         /\ jobs'[k] = jobs[k] /\ InHand(k) => InHand(k)'
<1>0. k \in Services /\ k \notin keys
  BY WithinIs DEF Defined
<1>1. defs'[k] = defs[k] /\ slots'[k] = slots[k]
  BY <1>0 DEF Disturbs
<1>2. k \notin Due
  <2>1. PICK S \in SUBSET Services :
          keys \subseteq S /\ Closed(defs', S) /\ k \notin S
    BY <1>0 DEF Within
  <2>2. Closed(defs, S)
    <3>1. ASSUME NEW x \in Defined(defs), DepsOf(defs[x]) \cap S # {}
          PROVE  x \in S
      <4>1. CASE x \in keys
        BY <2>1, <4>1
      <4>2. CASE x \notin keys
        <5>1. defs'[x] = defs[x] /\ x \in Services
          BY <4>2 DEF Disturbs, Defined
        <5>2. x \in Defined(defs')
          BY <5>1 DEF Defined
        <5> QED
          BY <2>1, <3>1, <5>1, <5>2, ClosedMeans
      <4> QED
        BY <4>1, <4>2
    <3> QED
      BY <3>1, ClosedMeans
  <2> QED
    BY <2>1, <2>2 DEF Due, Within, Disturbs
<1>3. \A d \in DepsOf(defs[k]) : slots'[d] = slots[d]
  <2>1. DepsOf(defs'[k]) \cap Within(defs', keys) = {}
    BY WithinIs, ClosedMeans
  <2>2. DepsOf(defs[k]) \subseteq Services
    BY <1>0, JobTyped DEF DepsOf
  <2>3. DepsOf(defs[k]) \cap keys = {}
    BY <1>1, <2>1, WithinIs
  <2> QED
    BY <2>2, <2>3 DEF Disturbs
<1>4. k \in Defined(defs)
  BY <1>0, <1>1 DEF Defined
<1>5. UNCHANGED <<wired, ran>>
  BY DEF Disturbs
<1> QED
  BY <1>0, <1>1, <1>2, <1>3, <1>4, <1>5, KeyStays

LEMMA GoodBefore ==
  ASSUME TypeOK, [Next]_vars, Good'
  PROVE  Good
<1>1. CASE OtherStep
  <2>1. CASE \E k \in Services : Register(k)
    <3>1. PICK k \in Services : Registered(k)
      BY <2>1, RegisterIs
    <3> QED
      BY <3>1 DEF Registered, Scheduled, Good, Draining
  <2>2. CASE \E t \in tears : Unregistered(t)
    <3>1. PICK t \in tears : Unregistered(t)
      BY <2>2
    <3>2. UNCHANGED <<drainError, stop>> /\ Scheduled({t.key})
      BY <3>1, UnregisteredIs
    <3> QED
      BY <3>2 DEF Scheduled, Good, Draining
  <2>3. CASE ReloadAll
    <3>1. UNCHANGED <<drainError, stop>> /\ \E keys : Scheduled(keys)
      BY <2>3, ReloadAllIs
    <3> QED
      BY <3>1 DEF Scheduled, Good, Draining
  <2>4. CASE LevelCleaned \/ LevelEvaluated \/ BatchDone \/ BatchThrew
    BY <2>4 DEF LevelCleaned, LevelEvaluated, BatchDone, BatchThrew, Good
  <2>5. CASE \E k \in Services : \E v \in Nat : Unregister(k, v)
    BY <2>5 DEF Unregister, drainVars, Good
  <2>6. CASE UNCHANGED vars
    BY <2>6 DEF drainVars, vars, Good
  <2>7. ~Shutdown /\ ~Stopping
    BY DEF Good, Shutdown, Stopping, ShutdownKey, ShutdownEnds
  <2> QED
    BY <1>1, <2>1, <2>2, <2>3, <2>4, <2>5, <2>6, <2>7 DEF OtherStep
<1>2. ASSUME NEW k \in Services, KeyStep(k)
      PROVE  Good
  BY <1>2, KeyJobs DEF Good
<1> QED
  BY <1>1, <1>2, StepIs

Pending == \E k \in Services : Awaiting(k)

\* What a step does that no key takes: it goes on with a batch, leaves the keys
\* it disturbs to the next one, or begins one with them.
Carries ==
  \/ LevelCleaned \/ LevelEvaluated
  \/ /\ UNCHANGED <<batch, jobs>> \/ (batch' = NoBatch /\ LevelIdle' /\ ~Pending)
     /\ \E keys \in SUBSET Services : keys = Owing' /\ Disturbs(keys)
  \/ /\ ~Pending
     /\ \E D, keys \in SUBSET Services :
          D \cup Owing' \subseteq keys /\ keys \subseteq D \cup Owing'
            /\ Starting(D)' /\ Disturbs(keys)

LEMMA ScheduledCarries ==
  ASSUME TypeOK, TypeOK', NEW keys \in SUBSET Services, Scheduled(keys),
         \A k \in Services \ keys : defs'[k] = defs[k] /\ slots'[k] = slots[k],
         UNCHANGED <<wired, ran>>, Owing \subseteq dirty \cup keys \cup Owing'
  PROVE  Carries
<1>1. PICK K \in SUBSET Services : K = Owing'
  <2>1. Owing' \in SUBSET Services
    <3>1. tears' \subseteq [key : Services, inst : Nat, of : Nat]
            /\ dirty' \subseteq Services
      BY DEF TypeOK
    <3> QED
      BY <3>1 DEF Owing
  <2> QED
    BY <2>1
<1>2. CASE Draining
  <2>1. dirty \cup keys \subseteq K /\ UNCHANGED <<batch, jobs>>
    BY <1>1, <1>2 DEF Scheduled, Owing
  <2>2. Disturbs(K)
    BY <1>1, <2>1 DEF Disturbs
  <2> QED
    BY <1>1, <2>1, <2>2 DEF Carries
<1>3. CASE ~Draining
  <2>1. PICK D \in SUBSET Services : D = dirty \cup keys /\ Starting(D)'
    BY <1>3 DEF Scheduled
  <2>2. PICK all \in SUBSET Services : all = D \cup K
    OBVIOUS
  <2>3. Disturbs(all)
    BY <1>1, <2>1, <2>2 DEF Disturbs
  <2>4. ~Pending
    BY <1>3 DEF Pending, Awaiting, Draining
  <2> QED
    BY <1>1, <2>1, <2>2, <2>3, <2>4 DEF Carries
<1> QED
  BY <1>2, <1>3

LEMMA OtherCarries ==
  ASSUME CoreInv, CoreInv', OtherStep, Good'
  PROVE  Carries
<1>0. TypeOK /\ TypeOK' /\ LoopInv
  BY DEF CoreInv
<1>1. ASSUME NEW j \in Services, Register(j)
      PROVE  Carries
  <2>1. Registered(j)
    BY <1>0, <1>1, RegisterIs
  <2>2. Scheduled({j}) /\ UNCHANGED <<wired, ran, tears>>
    BY <2>1 DEF Registered, instVars
  <2>3. \A k \in Services \ {j} : defs'[k] = defs[k] /\ slots'[k] = slots[k]
    BY <1>0, <2>1 DEF Registered, TypeOK
  <2>4. Owing \subseteq dirty \cup {j} \cup Owing'
    BY <2>2 DEF Owing
  <2> QED
    BY <1>0, <2>2, <2>3, <2>4, ScheduledCarries
<1>2. ASSUME NEW t \in tears, Unregistered(t)
      PROVE  Carries
  <2>1. PICK keys \in SUBSET Services : keys = {t.key}
    BY <1>0 DEF TypeOK
  <2>2. /\ tears' = tears \ {t} /\ slots' = Without(t) /\ Scheduled(keys)
        /\ UNCHANGED <<defs, wired, ran>>
    BY <1>0, <1>2, <2>1, UnregisteredIs DEF regVars
  <2>3. \A k \in Services \ keys : defs'[k] = defs[k] /\ slots'[k] = slots[k]
    BY <1>0, <2>1, <2>2 DEF Without, TypeOK
  <2>4. Owing \subseteq dirty \cup keys \cup Owing'
    BY <2>1, <2>2 DEF Owing
  <2> QED
    BY <1>0, <2>2, <2>3, <2>4, ScheduledCarries
<1>3. CASE ReloadAll
  <2>1. PICK keys \in SUBSET Services : Scheduled(keys)
    BY <1>0, <1>3, ReloadAllIs
  <2>2. UNCHANGED <<defs, slots, wired, ran, tears>>
    BY <1>0, <1>3, ReloadAllIs DEF regVars, instVars
  <2>3. Owing \subseteq dirty \cup keys \cup Owing'
    BY <2>2 DEF Owing
  <2> QED
    BY <1>0, <2>1, <2>2, <2>3, ScheduledCarries
<1>4. PICK K \in SUBSET Services : K = Owing'
  <2>1. Owing' \in SUBSET Services
    <3>1. tears' \subseteq [key : Services, inst : Nat, of : Nat]
            /\ dirty' \subseteq Services
      BY <1>0 DEF TypeOK
    <3> QED
      BY <3>1 DEF Owing
  <2> QED
    BY <2>1
<1>5. ASSUME NEW j \in Services, NEW v \in Nat, Unregister(j, v)
      PROVE  Carries
  <2>1. UNCHANGED <<batch, jobs, dirty, wired, ran>>
    BY <1>5 DEF Unregister, drainVars, instVars
  <2>2. CASE UNCHANGED <<defs, slots, tears>>
    <3>1. Disturbs(K)
      BY <1>4, <2>1, <2>2 DEF Disturbs, Owing
    <3> QED
      BY <1>4, <2>1, <3>1 DEF Carries
  <2>3. CASE /\ defs' = [defs EXCEPT ![j] = NoClass]
             /\ slots' = [slots EXCEPT ![j] =
                  IF @.inst > 0 THEN [@ EXCEPT !.inst = 0, !.status = "blocked"]
                                ELSE NoSlot]
             /\ tears' = tears \cup {[key |-> j, inst |-> slots[j].inst, of |-> v]}
    <3>1. j \in K /\ Owing \subseteq K
      <4>1. PICK u \in tears' : u = [key |-> j, inst |-> slots[j].inst, of |-> v]
        BY <2>3
      <4>2. u.key = j
        BY <4>1
      <4>3. j \in Owing'
        BY <4>1, <4>2 DEF Owing
      <4>4. Owing \subseteq Owing'
        BY <2>1, <2>3 DEF Owing
      <4> QED
        BY <1>4, <4>3, <4>4
    <3>2. \A k \in Services \ K : defs'[k] = defs[k] /\ slots'[k] = slots[k]
      BY <1>0, <2>3, <3>1 DEF TypeOK
    <3>3. Disturbs(K)
      BY <2>1, <3>1, <3>2 DEF Disturbs
    <3> QED
      BY <1>4, <2>1, <3>3 DEF Carries
  <2> QED
    BY <1>5, <2>2, <2>3 DEF Unregister
<1>6. ~Shutdown /\ ~Stopping /\ ~BatchThrew
  BY DEF Good, Shutdown, Stopping, ShutdownKey, ShutdownEnds, BatchThrew
<1>7. CASE BatchDone
  <2>0. UNCHANGED <<defs, slots, wired, ran, tears>>
    BY <1>7 DEF BatchDone, regVars, instVars
  <2>1. LevelIdle
    BY <1>0, <1>7, EndingIsIdle
  <2>2. ~Pending
    <3>1. CASE batch.phase = "empty"
      BY <3>1 DEF Pending, Awaiting
    <3>2. CASE batch.phase = "evaluating" /\ batch.at = Len(batch.levels)
      <4>1. /\ DOMAIN batch.levels = 1 .. Len(batch.levels)
            /\ Len(batch.levels) \in Nat
        BY <1>0, LenProperties DEF TypeOK
      <4> QED
        BY <2>1, <3>2, <4>1 DEF Pending, Awaiting, LevelIdle
    <3> QED
      BY <1>7, <3>1, <3>2 DEF BatchDone
  <2>3. CASE batch' = NoBatch /\ UNCHANGED <<dirty, jobs>>
    <3>1. Disturbs(K)
      BY <1>4, <2>0, <2>3 DEF Disturbs, Owing
    <3>2. LevelIdle'
      BY <2>1, <2>3 DEF LevelIdle
    <3> QED
      BY <1>4, <2>2, <2>3, <3>1, <3>2 DEF Carries
  <2>4. CASE \E D \in SUBSET Services : D = dirty /\ Starting(D)'
    <3>1. PICK D \in SUBSET Services : D = dirty /\ Starting(D)'
      BY <2>4
    <3>2. PICK all \in SUBSET Services : all = D \cup K
      OBVIOUS
    <3>3. Disturbs(all)
      BY <1>4, <2>0, <3>1, <3>2 DEF Disturbs, Owing
    <3> QED
      BY <1>4, <2>2, <3>1, <3>2, <3>3 DEF Carries
  <2> QED
    BY <1>0, <1>7, <2>3, <2>4, EndedIs DEF Ended
<1>8. CASE UNCHANGED vars
  <2>1. Disturbs(K) /\ UNCHANGED <<batch, jobs>>
    BY <1>4, <1>8 DEF Disturbs, Owing, vars, regVars, drainVars, instVars
  <2> QED
    BY <1>4, <2>1 DEF Carries
<1>9. CASE LevelCleaned \/ LevelEvaluated
  BY <1>9 DEF Carries
<1> QED
  BY <1>1, <1>2, <1>3, <1>5, <1>6, <1>7, <1>8, <1>9 DEF OtherStep

Settled == \A k \in Defined(defs) \ Due : InHand(k) /\ (Awaiting(k) \/ Right(k))

LEMMA IdleInHand ==
  ASSUME NEW k, jobs[k].stage \in {"none", "queued", "cleaning"}
  PROVE  InHand(k)
  BY DEF InHand, Busy

LEMMA LevelSettles ==
  ASSUME CoreInv, LevelInv, Settled, LevelCleaned \/ LevelEvaluated
  PROVE  LevelInv' /\ Settled'
<1>0. TypeOK /\ LoopInv
  BY DEF CoreInv
<1>1. /\ UNCHANGED <<defs, slots, dirty, tears, wired, ran>> /\ LevelIdle /\ Working
      /\ batch'.levels = batch.levels
  BY <1>0, LevelIs DEF regVars, instVars
<1>2. Due' = Due /\ Defined(defs)' = Defined(defs)
  BY <1>1 DEF Due, Owing
<1>3. LevelInv'
  BY <1>1, <1>2 DEF LevelInv, Above
<1>4. ASSUME NEW k \in Defined(defs) \ Due
      PROVE  InHand(k)' /\ (Awaiting(k)' \/ Right(k)')
  <2>0. k \in Services
    BY DEF Defined
  <2>1. InHand(k)'
    <3>1. jobs'[k].stage \in {"none", "queued", "cleaning"}
      BY <1>0, <2>0, LevelFresh DEF Fresh
    <3> QED
      BY <3>1, IdleInHand DEF InHand, Busy
  <2>2. Right(k) => Right(k)'
    BY <1>1 DEF Right, Missing, Ready, Ctx
  <2>3. ASSUME Awaiting(k)
        PROVE  Awaiting(k)'
    <3>1. PICK n \in DOMAIN batch.levels :
            /\ k \in batch.levels[n]
            /\ \/ batch.phase = "cleaning"
               \/ batch.phase = "evaluating" /\ n > batch.at
      BY <1>1, <2>0, <2>3 DEF Awaiting, LevelIdle
    <3>2. n \in Nat /\ n >= 1 /\ batch.at \in Nat
      <4>1. /\ DOMAIN batch.levels = 1 .. Len(batch.levels)
            /\ Len(batch.levels) \in Nat /\ batch.at \in Nat
        BY <1>0, LenProperties DEF TypeOK
      <4> QED
        BY <3>1, <4>1
    <3>3. CASE batch'.phase = "cleaning"
      BY <1>1, <3>1, <3>3 DEF Awaiting
    <3>4. CASE /\ batch'.phase = "evaluating" /\ n >= batch'.at
               /\ jobs' = ReconcileJobs(batch'.levels[batch'.at])
      <4>1. n > batch'.at \/ (n = batch'.at /\ jobs'[k].stage # "none")
        <5>1. CASE n = batch'.at
          <6>1. k \in batch'.levels[batch'.at]
            BY <1>1, <3>1, <5>1
          <6>2. jobs'[k].stage = "queued"
            BY <2>0, <3>4, <6>1, ReconcileJobsAre
          <6> QED
            BY <5>1, <6>2
        <5>2. CASE n # batch'.at
          <6>1. batch'.at \in {1, batch.at - 1, batch.at + 1}
            BY <1>0, LevelIs
          <6> QED
            BY <3>2, <3>4, <5>2, <6>1
        <5> QED
          BY <5>1, <5>2
      <4> QED
        BY <1>1, <3>1, <3>4, <4>1 DEF Awaiting
    <3>5. \/ batch'.phase = "cleaning"
          \/ /\ batch'.phase = "evaluating" /\ n >= batch'.at
             /\ jobs' = ReconcileJobs(batch'.levels[batch'.at])
      BY <1>0, <3>1, <3>2, LevelIs
    <3> QED
      BY <3>3, <3>4, <3>5
  <2> QED
    BY <2>1, <2>2, <2>3 DEF Settled
<1> QED
  BY <1>2, <1>3, <1>4 DEF Settled

\* A batch begins with all that depends on the keys it was begun for.
LEMMA StartSettles ==
  ASSUME CoreInv, CoreInv', Settled, Good', ~Pending,
         NEW D \in SUBSET Services, NEW keys \in SUBSET Services,
         D \cup Owing' \subseteq keys, keys \subseteq D \cup Owing',
         Starting(D)', Disturbs(keys)
  PROVE  LevelInv' /\ Settled'
<1>0. TypeOK /\ InstInv /\ TypeOK'
  BY DEF CoreInv
<1>1. PICK R \in SUBSET Services :
        /\ D \subseteq R /\ Closed(defs', R)
        /\ \/ /\ batch' = [NoBatch EXCEPT !.phase = "empty"]
              /\ R \cap Defined(defs') = {}
           \/ /\ batch'.phase = "cleaning"
              /\ Placed(batch'.levels) = R \cap Defined(defs')
              /\ Sorted(defs', batch'.levels)
  <2>1. batch' # [NoBatch EXCEPT !.phase = "thrown"]
    BY DEF Good, NoBatch
  <2> QED
    BY <2>1 DEF Starting
<1>2. PICK O \in SUBSET Services : O = Owing'
  <2>1. Owing' \in SUBSET Services
    <3>1. tears' \subseteq [key : Services, inst : Nat, of : Nat]
            /\ dirty' \subseteq Services
      BY <1>0 DEF TypeOK
    <3> QED
      BY <3>1 DEF Owing
  <2> QED
    BY <2>1
<1>3. Due' = Within(defs', O)
  BY <1>2 DEF Due
<1>4. ASSUME NEW k \in Defined(defs') \ Due'
      PROVE  InHand(k)' /\ (Awaiting(k)' \/ Right(k)')
  <2>0. k \in Services
    BY DEF Defined
  <2>1. InHand(k)'
    <3>1. jobs'[k].stage \in {"none", "queued", "cleaning"}
      BY <2>0, StartFresh DEF Fresh
    <3> QED
      BY <3>1 DEF InHand, Busy
  <2>2. CASE k \in R
    <3>1. /\ batch'.phase = "cleaning"
          /\ k \in Placed(batch'.levels)
      BY <1>1, <2>2
    <3> QED
      BY <2>1, <3>1 DEF Placed, Awaiting
  <2>3. CASE k \notin R
    <3>1. k \notin Within(defs', keys)
      <4>1. PICK S \in SUBSET Services :
              O \subseteq S /\ Closed(defs', S) /\ k \notin S
        BY <1>3, <1>4, <2>0 DEF Within
      <4>2. keys \subseteq R \cup S /\ R \cup S \in SUBSET Services
        BY <1>1, <1>2, <4>1
      <4>3. Closed(defs', R \cup S)
        BY <1>1, <4>1, ClosedMeans
      <4> QED
        BY <2>3, <4>1, <4>2, <4>3 DEF Within
    <3>2. k \in Defined(defs) \ Due /\ (Right(k) => Right(k)')
      BY <1>0, <3>1, Undisturbed
    <3>3. Right(k)
      BY <2>0, <3>2 DEF Settled, Pending
    <3> QED
      BY <2>1, <3>2, <3>3
  <2> QED
    BY <2>2, <2>3
<1>5. LevelInv'
  <2>1. CASE batch'.phase # "cleaning"
    BY <1>1, <2>1 DEF LevelInv, Working, NoBatch
  <2>2. CASE batch'.phase = "cleaning"
    <3>1. /\ Placed(batch'.levels) = R \cap Defined(defs')
          /\ Sorted(defs', batch'.levels)
      BY <1>1, <2>2 DEF NoBatch
    <3>2. ASSUME NEW k \in Defined(defs') \ Due', NEW m \in DOMAIN batch'.levels,
                 DepsOf(defs'[k]) \cap batch'.levels[m] # {}
          PROVE  Above(m, k)'
      <4>1. PICK d \in DepsOf(defs'[k]) : d \in batch'.levels[m]
        BY <3>2
      <4>2. d \in Placed(batch'.levels) /\ d \in R
        BY <3>1, <4>1 DEF Placed
      <4>3. k \in Placed(batch'.levels)
        BY <1>1, <3>1, <4>1, <4>2, ClosedMeans
      <4>4. PICK n \in DOMAIN batch'.levels : k \in batch'.levels[n]
        BY <4>3 DEF Placed
      <4>5. PICK h \in DOMAIN batch'.levels : h < n /\ d \in batch'.levels[h]
        BY <3>1, <4>1, <4>2, <4>4 DEF Sorted
      <4>6. h = m
        BY <3>1, <4>1, <4>5 DEF Sorted
      <4>7. n > m
        <5>1. /\ DOMAIN batch'.levels = 1 .. Len(batch'.levels)
              /\ Len(batch'.levels) \in Nat
          BY <1>0, LenProperties DEF TypeOK
        <5> QED
          BY <4>4, <4>5, <4>6, <5>1
      <4> QED
        BY <4>4, <4>7 DEF Above
    <3> QED
      BY <3>1, <3>2 DEF LevelInv, Sorted
  <2> QED
    BY <2>1, <2>2
<1> QED
  BY <1>4, <1>5 DEF Settled

LEMMA OtherSettles ==
  ASSUME CoreInv, CoreInv', LevelInv, Settled, OtherStep, Good'
  PROVE  LevelInv' /\ Settled'
<1>0. TypeOK /\ InstInv
  BY DEF CoreInv
<1>1. CASE LevelCleaned \/ LevelEvaluated
  BY <1>1, LevelSettles
<1>2. ASSUME NEW keys \in SUBSET Services, keys = Owing', Disturbs(keys),
             \/ UNCHANGED <<batch, jobs>>
             \/ batch' = NoBatch /\ LevelIdle' /\ ~Pending
      PROVE  LevelInv' /\ Settled'
  <2>1. Due' = Within(defs', keys)
    BY <1>2 DEF Due
  <2>2. ASSUME NEW k \in Defined(defs') \ Due'
        PROVE  /\ k \in Defined(defs) \ Due /\ defs'[k] = defs[k]
               /\ Right(k) => Right(k)'
               /\ jobs'[k] = jobs[k] /\ InHand(k) => InHand(k)'
    BY <1>0, <1>2, <2>1, Undisturbed
  <2>3. CASE UNCHANGED <<batch, jobs>>
    <3>1. LevelInv'
      BY <2>2, <2>3 DEF LevelInv, Working, Above
    <3>2. ASSUME NEW k \in Defined(defs') \ Due'
          PROVE  InHand(k)' /\ (Awaiting(k)' \/ Right(k)')
      BY <2>2, <2>3 DEF Settled, Awaiting
    <3> QED
      BY <3>1, <3>2 DEF Settled
  <2>4. CASE batch' = NoBatch /\ LevelIdle' /\ ~Pending
    <3>1. LevelInv'
      BY <2>4 DEF LevelInv, Working, NoBatch
    <3>2. ASSUME NEW k \in Defined(defs') \ Due'
          PROVE  InHand(k)' /\ Right(k)'
      <4>1. k \in Services
        BY DEF Defined
      <4>2. InHand(k)'
        BY <2>4, <4>1 DEF LevelIdle, InHand, Busy
      <4>3. Right(k)
        BY <2>2, <2>4, <4>1 DEF Settled, Pending
      <4> QED
        BY <2>2, <4>2, <4>3
    <3> QED
      BY <3>1, <3>2 DEF Settled
  <2> QED
    BY <1>2, <2>3, <2>4
<1>3. CASE ~Pending /\ \E D, keys \in SUBSET Services :
             D \cup Owing' \subseteq keys /\ keys \subseteq D \cup Owing'
               /\ Starting(D)' /\ Disturbs(keys)
  BY <1>3, StartSettles
<1>4. Carries
  BY OtherCarries
<1> QED
  BY <1>1, <1>2, <1>3, <1>4 DEF Carries

\* Who depends on a key of the level under way is above, and idle.
LEMMA DependentsAbove ==
  ASSUME CoreInv, LevelInv, NEW h \in Services, jobs[h].stage # "none",
         NEW k \in Defined(defs) \ Due, h \in DepsOf(defs[k])
  PROVE  /\ k # h /\ jobs[k].stage = "none"
         /\ \E n \in DOMAIN batch.levels : n > batch.at /\ k \in batch.levels[n]
<1>1. Working /\ h \in batch.levels[batch.at] /\ batch.at \in DOMAIN batch.levels
  BY DEF CoreInv, LoopInv
<1>2. PICK n \in DOMAIN batch.levels : n > batch.at /\ k \in batch.levels[n]
  BY <1>1 DEF LevelInv, Above
<1>3. n # batch.at
  <2>1. n \in Nat /\ batch.at \in Nat
    BY LenProperties DEF CoreInv, TypeOK
  <2> QED
    BY <1>2, <2>1
<1>4. k \notin batch.levels[batch.at]
  BY <1>1, <1>2, <1>3 DEF LevelInv
<1>5. jobs[k].stage = "none"
  BY <1>4 DEF CoreInv, LoopInv, Defined
<1> QED
  BY <1>1, <1>2, <1>4, <1>5

LEMMA KeyInstsKept ==
  ASSUME CoreInv, NEW h \in Services, KeyStep(h), NEW k \in Services, k # h,
         NEW i \in 1 .. made.insts, Holds(k, i)
  PROVE  ran'[i] = ran[i] /\ wired'[i] = wired[i]
<1>0. TypeOK /\ InstInv /\ made.insts \in Nat
  BY DEF CoreInv, TypeOK
<1>1. CASE Evaluates(h)
  <2>1. i \in Nat \ {0}
    BY <1>0
  <2>2. i # jobs[h].inst
    BY <1>0, <2>1 DEF InstInv, Holds
  <2> QED
    BY <1>0, <1>1, <2>2, EvaluatesInsts
<1>2. CASE Prepare(h)
  BY <1>0, <1>2, PrepareInsts
<1> QED
  BY <1>0, <1>1, <1>2, KeyInsts

LEMMA OtherKeysSettle ==
  ASSUME CoreInv, LevelInv, NEW h \in Services, KeyStep(h),
         NEW k \in Defined(defs) \ Due, k # h, InHand(k), Awaiting(k) \/ Right(k)
  PROVE  InHand(k)' /\ (Awaiting(k)' \/ Right(k)')
<1>0. TypeOK /\ InstInv /\ LoopInv /\ k \in Services
  BY DEF CoreInv, Defined
<1>1. /\ UNCHANGED <<defs, batch>> /\ jobs[h].stage # "none"
      /\ jobs'[k] = jobs[k] /\ slots'[k] = slots[k]
      /\ \A d \in Services : d # h => slots'[d] = slots[d]
  <2>1. \A d \in Services : d # h => slots'[d] = slots[d]
    BY <1>0, KeySlots
  <2>2. /\ UNCHANGED <<defs, batch>> /\ jobs[h].stage # "none"
        /\ jobs'[k] = jobs[k]
    BY <1>0, KeyJobs DEF regVars
  <2> QED
    BY <1>0, <2>1, <2>2
<1>2. Awaiting(k) => Awaiting(k)'
  BY <1>1 DEF Awaiting
<1>3. CASE h \in DepsOf(defs[k])
  <2>1. PICK n \in DOMAIN batch.levels : n > batch.at /\ k \in batch.levels[n]
    BY <1>1, <1>3, DependentsAbove
  <2>2. jobs'[k].stage = "none"
    BY <1>1, <1>3, DependentsAbove
  <2>3. Awaiting(k)'
    BY <1>0, <1>1, <2>1 DEF Awaiting, LoopInv, Working
  <2> QED
    BY <2>2, <2>3 DEF InHand, Busy
<1>4. CASE h \notin DepsOf(defs[k])
  <2>1. DepsOf(defs[k]) \subseteq Services
    BY <1>0, JobTyped DEF DepsOf
  <2>2. \A d \in DepsOf(defs[k]) : slots'[d] = slots[d]
    BY <1>1, <1>4, <2>1
  <2>3. \A i \in 1 .. made.insts :
          Holds(k, i) => ran'[i] = ran[i] /\ wired'[i] = wired[i]
    BY <1>0, KeyInstsKept
  <2>4. (Right(k) => Right(k)') /\ InHand(k)'
    BY <1>0, <1>1, <2>2, <2>3, KeyStays
  <2> QED
    BY <1>2, <2>4
<1> QED
  BY <1>3, <1>4

LEMMA KeyItselfSettles ==
  ASSUME CoreInv, LevelInv, NEW k \in Defined(defs) \ Due, KeyStep(k),
         InHand(k), Awaiting(k) \/ Right(k)
  PROVE  InHand(k)' /\ (Awaiting(k)' \/ Right(k)')
<1>0. TypeOK /\ InstInv /\ LoopInv /\ k \in Services
  BY DEF CoreInv, Defined
<1>1. /\ UNCHANGED <<defs, batch>> /\ jobs[k].stage # "none"
      /\ \A d \in Services : d # k => slots'[d] = slots[d]
  BY <1>0, KeyJobs, KeySlots DEF regVars
<1>2. k \notin DepsOf(defs[k])
  BY <1>0, <1>1, DependentsAbove
<1>3. Missing(k)' = Missing(k) /\ Ctx(defs[k])' = Ctx(defs[k])
  <2>1. DepsOf(defs[k]) \subseteq Services
    BY <1>0, JobTyped DEF DepsOf
  <2>2. \A d \in DepsOf(defs[k]) : slots'[d] = slots[d]
    BY <1>1, <1>2, <2>1
  <2> QED
    BY <1>0, <1>1, <2>2, SameView
<1>4. /\ k \in batch.levels[batch.at] /\ batch.at \in DOMAIN batch.levels
      /\ Working /\ (jobs[k].stage = "cleaning" <=> batch.phase = "cleaning")
  BY <1>0, <1>1 DEF LoopInv
<1>5. jobs'[k].stage # "none" => Awaiting(k)'
  BY <1>1, <1>4 DEF Awaiting, Working
<1>6. /\ jobs \in [Services -> Job] /\ jobs[k] \in Job /\ slots[k] \in Slot
      /\ slots \in [Services -> Slot]
  BY <1>0 DEF TypeOK
<1>7. CASE Cleaned(k)
  <2>1. jobs'[k] = NoJob /\ batch.phase = "cleaning"
    BY <1>0, <1>4, <1>6, <1>7 DEF Cleaned
  <2>2. Awaiting(k)'
    BY <1>1, <1>4, <2>1 DEF Awaiting
  <2> QED
    BY <2>1, <2>2, <1>0, NoJobsAre DEF InHand, Busy
<1>8. CASE Skip(k)
  BY <1>8 DEF Skip, Defined
<1>9. CASE Block(k)
  <2>1. Missing(k) # {} /\ ~Prepare(k)
    BY <1>9 DEF Block, Prepare
  <2>2. /\ slots'[k].inst = 0 /\ slots'[k].status = "blocked"
        /\ jobs'[k] = NoJob \/ jobs'[k].stage = "tearing"
    BY <1>0, <1>9, <2>1, KeySlots
  <2>3. Right(k)'
    BY <1>3, <2>1, <2>2 DEF Right, Ready
  <2>4. InHand(k)'
    BY <1>3, <2>1, <2>2, <1>0, NoJobsAre DEF InHand, Busy
  <2> QED
    BY <2>3, <2>4
<1>10. CASE Prepare(k)
  <2>1. /\ jobs'[k].stage = "recleaning" /\ jobs'[k].inst = slots'[k].inst
        /\ jobs'[k].slot = slots'[k].id /\ jobs'[k].class = defs[k]
    BY <1>0, <1>10, PrepareSlot
  <2>2. Missing(k) = {}
    BY <1>10 DEF Prepare
  <2> QED
    BY <1>1, <1>3, <1>5, <2>1, <2>2 DEF InHand, Busy
<1>11. CASE TornDown(k)
  <2>1. jobs'[k] = NoJob /\ UNCHANGED slots
    BY <1>0, <1>6, <1>11 DEF TornDown
  <2>2. Missing(k) # {} /\ slots[k].status = "blocked" /\ slots[k].inst = 0
    BY <1>11 DEF TornDown, InHand
  <2>3. Right(k)'
    BY <1>3, <2>1, <2>2 DEF Right, Ready
  <2> QED
    BY <2>1, <2>3, <1>0, NoJobsAre DEF InHand, Busy
<1>12. CASE Evaluate(k)
  <2>1. /\ Missing(k) = {} /\ jobs[k].class = defs[k] /\ jobs[k].inst > 0
        /\ slots[k].id = jobs[k].slot /\ slots[k].inst = jobs[k].inst
    BY <1>0, <1>12 DEF Evaluate, InHand, Busy, InstInv
  <2>2. \A d \in jobs[k].class.needs : Ready(slots, d)
    BY <2>1 DEF Missing
  <2>3. jobs' = [jobs EXCEPT ![k].stage = "evaluating"] /\ UNCHANGED slots
    BY <1>12, <2>2 DEF Evaluate
  <2>4. jobs'[k].stage = "evaluating"
    BY <1>0, <1>6, <2>3 DEF Job
  <2>5. Evaluates(k)
    <3>1. ~Prepare(k)
      BY <1>12 DEF Evaluate, Prepare
    <3> QED
      BY <1>0, <2>4, <3>1, KeyInsts
  <2>6. /\ ran'[jobs[k].inst] = defs[k].version
        /\ wired'[jobs[k].inst] = Ctx(defs[k])
        /\ jobs'[k].inst = jobs[k].inst
        /\ jobs'[k].class = jobs[k].class /\ jobs'[k].slot = jobs[k].slot
    BY <1>0, <2>1, <2>5, EvaluatesInsts
  <2>7. InHand(k)'
    BY <1>1, <1>3, <2>1, <2>3, <2>4, <2>6 DEF InHand, Busy
  <2> QED
    BY <1>5, <2>4, <2>7
<1>13. CASE Evaluated(k) \/ EvaluateThrows(k)
  <2>1. /\ Missing(k) = {} /\ slots[k].id = jobs[k].slot
        /\ slots[k].inst = jobs[k].inst
        /\ ran[jobs[k].inst] = defs[k].version
        /\ wired[jobs[k].inst] = Ctx(defs[k])
    BY <1>13 DEF Evaluated, EvaluateThrows, InHand, Busy
  <2>2. /\ UNCHANGED <<wired, ran>> /\ jobs' = [jobs EXCEPT ![k] = NoJob]
        /\ \E s \in {"ready", "failed"} : slots' = WithStatus(k, s)
    BY <1>13 DEF Evaluated, EvaluateThrows, instVars
  <2>3. /\ slots'[k].inst = slots[k].inst
        /\ slots'[k].status \in {"ready", "failed"}
    BY <1>0, <2>1, <2>2, StatusSlots
  <2>4. jobs'[k] = NoJob
    BY <1>0, <1>6, <2>2
  <2>5. Right(k)'
    BY <1>1, <1>3, <2>1, <2>2, <2>3 DEF Right
  <2> QED
    BY <2>4, <2>5, <1>0, NoJobsAre DEF InHand, Busy
<1> QED
  BY <1>7, <1>8, <1>9, <1>10, <1>11, <1>12, <1>13 DEF KeyStep

LEMMA KeySettles ==
  ASSUME CoreInv, LevelInv, Settled, NEW h \in Services, KeyStep(h)
  PROVE  LevelInv' /\ Settled'
<1>1. UNCHANGED <<defs, batch, dirty, tears>>
  BY KeyJobs DEF CoreInv, regVars
<1>2. Due' = Due
  BY <1>1 DEF Due, Owing
<1>3. LevelInv'
  BY <1>1, <1>2 DEF LevelInv, Working, Above
<1>4. ASSUME NEW k \in Defined(defs) \ Due
      PROVE  InHand(k)' /\ (Awaiting(k)' \/ Right(k)')
  BY OtherKeysSettle, KeyItselfSettles DEF Settled
<1> QED
  BY <1>1, <1>2, <1>3, <1>4 DEF Settled

LEMMA SettleHolds == Spec => []SettleInv
<1>1. Init => SettleInv
  BY DEF Init, SettleInv, LevelInv, Working, NoBatch, Defined, NoClass
<1>2. CoreInv /\ SettleInv /\ [Next]_vars => SettleInv'
  <2> SUFFICES ASSUME CoreInv, SettleInv, [Next]_vars, Good'
               PROVE  LevelInv' /\ Settled'
    BY DEF SettleInv, Settled
  <2>1. CoreInv' /\ TypeOK
    BY StepCoreInv DEF CoreInv
  <2>2. LevelInv /\ Settled
    BY <2>1, GoodBefore DEF SettleInv, Settled
  <2> QED
    BY <2>1, <2>2, StepIs, OtherSettles, KeySettles
<1> QED
  BY <1>1, <1>2, CoreInvHolds, PTL DEF Spec

\* An idle runtime has nothing left to do, and every service is as the newest
\* classes say, whatever was registered, reloaded, pruned or thrown meanwhile.
THEOREM IdleMeansSettled == Spec => []IdleIsSettled
<1>1. CoreInv /\ SettleInv => SettledRight /\ UpToDate
  <2> SUFFICES ASSUME CoreInv, SettleInv, Idle, ~drainError,
                      NEW k \in Defined(defs)
               PROVE  Right(k)
    BY DEF SettledRight, UpToDate, Right
  <2>1. dirty = {} /\ tears = {} /\ batch.phase = "none" /\ stop = "no"
    BY DEF CoreInv, LoopInv, Idle, Draining
  <2>2. Due = {}
    <3>1. Owing = {} /\ Closed(defs, {})
      BY <2>1 DEF Owing, Closed, Dependents
    <3> QED
      BY <3>1 DEF Due, Within
  <2>3. Awaiting(k) \/ Right(k)
    BY <2>1, <2>2 DEF SettleInv, Good
  <2> QED
    BY <2>1, <2>3 DEF Awaiting
<1>2. SettledRight /\ UpToDate /\ DrainEnds => IdleIsSettled
  BY DEF IdleIsSettled
<1> QED
  BY <1>1, <1>2, CoreInvHolds, SettleHolds, DrainEndsHolds, PTL

===============================================================================
