-------------------- MODULE KyjuCollectionStoreProofs --------------------
(***************************************************************************)
(* Theorems about the files of a collection: for any number of concats and *)
(* readers, any batches, page size and number of process deaths.           *)
(***************************************************************************)
EXTENDS KyjuCollectionStore, FiniteSetTheorems, SequenceTheorems,
        WellFoundedInduction, TLAPS

\* A set that holds 0 and, with a number, the next one holds every number.
LEMMA NatsIn ==
  ASSUME NEW S, 0 \in S, \A n \in Nat : n \in S => n + 1 \in S
  PROVE  Nat \subseteq S
<1> DEFINE R == OpToRel(<, Nat)
           T == Nat \ S
<1> SUFFICES ASSUME T # {} PROVE FALSE
  OBVIOUS
<1>1. IsWellFoundedOn(R, Nat)
  BY NatLessThanWellFounded
<1>2. \A i, j \in Nat : i < j => <<i, j>> \in R
  BY DEF OpToRel
<1> HIDE DEF R
<1>3. PICK m \in T : \A n \in T : ~(<<n, m>> \in R)
  BY <1>1, WFMin
<1>4. m \in Nat \ {0}
  OBVIOUS
<1>5. m - 1 \in Nat /\ m - 1 < m /\ (m - 1) + 1 = m
  BY <1>4
<1>6. m - 1 \notin T
  BY <1>2, <1>3, <1>5
<1> QED
  BY <1>3, <1>5, <1>6

-----------------------------------------------------------------------------
(* FlattenSeq                                                              *)

\* The partial results of FlattenSeq(s).
Flattening(f, s) ==
  /\ DOMAIN f = 1 .. Len(s) /\ f[1] = s[1]
  /\ \A i \in 2 .. Len(s) : f[i] = f[i - 1] \o s[i]
  /\ FlattenSeq(s) = f[Len(s)]

\* FlattenSeq does what it says.
LEMMA FlattenUnfolds ==
  ASSUME NEW s, Len(s) \in Nat \ {0}
  PROVE  \E f : Flattening(f, s)
<1> DEFINE Flat(f, n) == f = [i \in 1 .. n |-> IF i = 1 THEN s[i]
                                               ELSE f[i - 1] \o s[i]]
           I == {n \in Nat : \E f : Flat(f, n)}
<1>1. 0 \in I
  <2> DEFINE g == [i \in 1 .. 0 |-> s[i]]
  <2>1. Flat(g, 0)
    OBVIOUS
  <2> QED
    BY <2>1
<1>2. ASSUME NEW n \in Nat, n \in I
      PROVE  n + 1 \in I
  <2>1. PICK f : Flat(f, n)
    BY <1>2
  <2> DEFINE g == [i \in 1 .. n + 1 |->
                     IF i = 1 THEN s[i] ELSE f[i - 1] \o s[i]]
  <2>2. ASSUME NEW i \in 1 .. n + 1
        PROVE  g[i] = IF i = 1 THEN s[i] ELSE g[i - 1] \o s[i]
    <3>1. CASE i = 1
      BY <3>1
    <3>2. CASE i # 1
      <4>1. i - 1 \in 1 .. n /\ i - 1 \in 1 .. n + 1
        BY <3>2
      <4>2. g[i - 1] = f[i - 1]
        BY <2>1, <4>1
      <4>3. g[i] = f[i - 1] \o s[i]
        BY <3>2
      <4> QED
        BY <3>2, <4>2, <4>3
    <3> QED
      BY <3>1, <3>2
  <2>3. Flat(g, n + 1)
    BY <2>2
  <2> HIDE DEF g
  <2>4. \E h : Flat(h, n + 1)
    BY <2>3
  <2> HIDE DEF Flat
  <2> QED
    BY <2>4, n + 1 \in Nat
<1>3. \E f : Flat(f, Len(s))
  <2> HIDE DEF I
  <2>1. Len(s) \in I
    BY <1>1, <1>2, NatsIn
  <2> QED
    BY <2>1 DEF I
<1> DEFINE flatten == CHOOSE f : Flat(f, Len(s))
<1>4. Flat(flatten, Len(s))
  BY <1>3
<1>5. FlattenSeq(s) = flatten[Len(s)]
  BY DEF FlattenSeq
<1> HIDE DEF flatten
<1>6. /\ DOMAIN flatten = 1 .. Len(s)
      /\ \A i \in 1 .. Len(s) :
           flatten[i] = IF i = 1 THEN s[i] ELSE flatten[i - 1] \o s[i]
  BY <1>4
<1>7. 1 \in 1 .. Len(s) /\ \A i \in 2 .. Len(s) : i \in 1 .. Len(s) /\ i # 1
  OBVIOUS
<1>8. flatten[1] = s[1]
  BY <1>6, <1>7
<1>9. \A i \in 2 .. Len(s) : flatten[i] = flatten[i - 1] \o s[i]
  BY <1>6, <1>7
<1> HIDE DEF Flat
<1>10. Flattening(flatten, s)
  BY <1>5, <1>6, <1>8, <1>9, Zenon DEF Flattening
<1> QED
  BY <1>10

LEMMA FlatteningIn ==
  ASSUME NEW E, NEW s, Len(s) \in Nat \ {0},
         \A i \in 1 .. Len(s) : s[i] \in Seq(E),
         NEW f, Flattening(f, s)
  PROVE  \A i \in 1 .. Len(s) : f[i] \in Seq(E)
<1> DEFINE I == {n \in Nat : n \in 1 .. Len(s) => f[n] \in Seq(E)}
<1>1. 0 \in I
  OBVIOUS
<1>2. ASSUME NEW n \in Nat, n \in I
      PROVE  n + 1 \in I
  <2> SUFFICES ASSUME n + 1 \in 1 .. Len(s) PROVE f[n + 1] \in Seq(E)
    OBVIOUS
  <2>1. CASE n = 0
    BY <2>1 DEF Flattening
  <2>2. CASE n # 0
    <3>1. n \in 1 .. Len(s) /\ n + 1 \in 2 .. Len(s) /\ (n + 1) - 1 = n
      BY <2>2
    <3>2. f[n] \in Seq(E) /\ s[n + 1] \in Seq(E)
      BY <1>2, <3>1
    <3>3. f[n + 1] = f[n] \o s[n + 1]
      BY <3>1 DEF Flattening
    <3> QED
      BY <3>2, <3>3, ConcatProperties
  <2> QED
    BY <2>1, <2>2
<1> HIDE DEF I
<1>3. Nat \subseteq I
  BY <1>1, <1>2, NatsIn
<1> QED
  BY <1>3 DEF I

\* Flattening yields a sequence over what its parts are sequences over.
LEMMA FlattenIn ==
  ASSUME NEW E, NEW s, Len(s) \in Nat \ {0},
         \A i \in 1 .. Len(s) : s[i] \in Seq(E)
  PROVE  FlattenSeq(s) \in Seq(E)
<1>1. PICK f : Flattening(f, s)
  BY FlattenUnfolds
<1>2. Len(s) \in 1 .. Len(s)
  OBVIOUS
<1>3. f[Len(s)] \in Seq(E)
  BY <1>1, <1>2, FlatteningIn
<1> QED
  BY <1>1, <1>3, Zenon DEF Flattening

\* ... and nothing when they are empty.
LEMMA FlattenEmpty ==
  ASSUME NEW s, Len(s) \in Nat \ {0}, \A i \in 1 .. Len(s) : s[i] = <<>>
  PROVE  FlattenSeq(s) = <<>>
<1>1. FlattenSeq(s) \in Seq({})
  BY EmptySeq, FlattenIn
<1> QED
  BY <1>1, ElementOfSeq, LenProperties, EmptySeq

\* f has the partial results of the parts s; some parts are empty.
Partials(E, s, f) ==
  /\ Len(s) \in Nat \ {0} /\ Flattening(f, s)
  /\ \A i \in 1 .. Len(s) : s[i] \in Seq(E)
Void(s, a, b) == \A i \in a .. b : s[i] = <<>>

\* Where the parts behind part a are empty up to b, the partial results stay.
LEMMA FlatteningKeeps ==
  ASSUME NEW E, NEW s, NEW f, Partials(E, s, f),
         NEW a \in 1 .. Len(s), NEW b \in 1 .. Len(s), a <= b, Void(s, a + 1, b)
  PROVE  f[b] = f[a]
<1>0. Len(s) \in Nat \ {0} /\ Flattening(f, s)
  BY DEF Partials
<1>5. \A i \in 1 .. Len(s) : s[i] \in Seq(E)
  BY DEF Partials
<1>6. \A i \in a + 1 .. b : s[i] = <<>>
  BY DEF Void
<1> DEFINE I == {n \in Nat : a + n \in 1 .. b => f[a + n] = f[a]}
<1>1. 0 \in I
  OBVIOUS
<1>2. ASSUME NEW n \in Nat, n \in I
      PROVE  n + 1 \in I
  <2> SUFFICES ASSUME a + (n + 1) \in 1 .. b
               PROVE  f[a + (n + 1)] = f[a]
    OBVIOUS
  <2>1. /\ a + n \in 1 .. b /\ a + n \in 1 .. Len(s) /\ a + (n + 1) \in 2 .. Len(s)
        /\ a + (n + 1) \in a + 1 .. b /\ (a + (n + 1)) - 1 = a + n
    BY <1>0
  <2>2. f[a + (n + 1)] = f[a + n] \o s[a + (n + 1)]
    BY <1>0, <2>1 DEF Flattening
  <2>3. f[a + n] \in Seq(E) /\ s[a + (n + 1)] = <<>>
    BY <1>0, <1>5, <1>6, <2>1, FlatteningIn
  <2>4. f[a + n] \o <<>> = f[a + n]
    BY <2>3, ConcatEmptySeq
  <2> QED
    BY <1>2, <2>1, <2>2, <2>3, <2>4
<1> HIDE DEF I
<1>3. b - a \in Nat /\ a + (b - a) = b
  BY <1>0
<1>4. b - a \in I
  BY <1>1, <1>2, <1>3, NatsIn
<1> QED
  BY <1>3, <1>4 DEF I

\* ... and the first part that is not empty is the first result.
LEMMA FlatteningFirst ==
  ASSUME NEW E, NEW s, NEW f, Partials(E, s, f),
         NEW a \in 1 .. Len(s), Void(s, 1, a - 1)
  PROVE  f[a] = s[a]
<1>0. Len(s) \in Nat \ {0} /\ Flattening(f, s)
  BY DEF Partials
<1>1. CASE a = 1
  BY <1>0, <1>1 DEF Flattening
<1>2. CASE a # 1
  <2>1. /\ 1 \in 1 .. a - 1 /\ 1 \in 1 .. Len(s) /\ a - 1 \in 1 .. Len(s)
        /\ 1 <= a - 1 /\ a \in 2 .. Len(s)
    BY <1>0, <1>2
  <2>2. Void(s, 1 + 1, a - 1)
    BY DEF Void
  <2>3. f[a - 1] = f[1]
    BY <2>1, <2>2, FlatteningKeeps
  <2>4. f[1] = <<>> /\ s[a] \in Seq(E)
    BY <1>0, <2>1 DEF Flattening, Void, Partials
  <2>5. f[a] = f[a - 1] \o s[a]
    BY <1>0, <2>1 DEF Flattening
  <2>6. <<>> \o s[a] = s[a]
    BY <2>4, ConcatEmptySeq
  <2> QED
    BY <2>3, <2>4, <2>5, <2>6, Zenon
<1> QED
  BY <1>1, <1>2

\* Where every part from k + 1 on is empty, the partial results stay.
LEMMA FlatteningStays ==
  ASSUME NEW E, NEW s, NEW f, Partials(E, s, f),
         NEW k \in 1 .. Len(s), Void(s, k + 1, Len(s))
  PROVE  FlattenSeq(s) = f[k]
<1>1. Len(s) \in 1 .. Len(s) /\ k <= Len(s)
  BY DEF Partials
<1>2. f[Len(s)] = f[k]
  BY <1>1, FlatteningKeeps
<1> QED
  BY <1>2 DEF Partials, Flattening

\* Concatenation is associative.
Associates(E) == \A u, v, w \in Seq(E) : (u \o v) \o w = u \o (v \o w)
LEMMA ConcatAssociates == \A E : Associates(E)
<1> TAKE E
<1>1. ASSUME NEW u \in Seq(E), NEW v \in Seq(E), NEW w \in Seq(E)
      PROVE  (u \o v) \o w = u \o (v \o w)
  BY ConcatAssociative
<1> QED
  BY <1>1 DEF Associates

\* t is s with b added to part k, behind which there is nothing.
Adds(E, s, t, k, b) ==
  /\ Len(s) \in Nat \ {0} /\ Len(t) = Len(s)
  /\ \A i \in 1 .. Len(s) : s[i] \in Seq(E)
  /\ k \in 1 .. Len(s) /\ b \in Seq(E)
  /\ \A i \in k + 1 .. Len(s) : s[i] = <<>> /\ t[i] = <<>>
  /\ \A i \in 1 .. k - 1 : t[i] = s[i]
  /\ t[k] = s[k] \o b

\* ... and so it is added at the end.
LEMMA FlattenAppends ==
  ASSUME NEW E, NEW s, NEW t, NEW k, NEW b, Adds(E, s, t, k, b)
  PROVE  FlattenSeq(t) = FlattenSeq(s) \o b
<1> USE DEF Adds
<1>1. PICK f : Flattening(f, s)
  BY FlattenUnfolds
<1>2. PICK g : Flattening(g, t)
  BY FlattenUnfolds
<1>3. \A i \in 1 .. Len(t) : t[i] \in Seq(E)
  <2> SUFFICES ASSUME NEW i \in 1 .. Len(s) PROVE t[i] \in Seq(E)
    OBVIOUS
  <2>1. s[k] \in Seq(E) /\ s[k] \o b \in Seq(E)
    BY ConcatProperties
  <2>2. CASE i # k
    <3>1. i \in 1 .. k - 1 \/ i \in k + 1 .. Len(s)
      BY <2>2
    <3>2. s[i] \in Seq(E) /\ <<>> \in Seq(E)
      OBVIOUS
    <3> QED
      BY <3>1, <3>2
  <2> QED
    BY <2>1, <2>2
<1>4. FlattenSeq(s) = f[k]
  <2>1. Partials(E, s, f) /\ k \in 1 .. Len(s) /\ Void(s, k + 1, Len(s))
    BY <1>1 DEF Partials, Void
  <2> QED
    BY <2>1, FlatteningStays
<1>5. FlattenSeq(t) = g[k]
  <2>1. /\ Len(t) \in Nat \ {0} /\ k \in 1 .. Len(t)
        /\ \A i \in k + 1 .. Len(t) : t[i] = <<>>
    OBVIOUS
  <2>2. Partials(E, t, g) /\ Void(t, k + 1, Len(t))
    BY <1>2, <1>3, <2>1 DEF Partials, Void
  <2> QED
    BY <2>1, <2>2, FlatteningStays
<1> DEFINE I == {n \in Nat : n \in 1 .. k - 1 => g[n] = f[n]}
<1>6. Nat \subseteq I
  <2>1. 0 \in I
    OBVIOUS
  <2>2. ASSUME NEW n \in Nat, n \in I
        PROVE  n + 1 \in I
    <3> SUFFICES ASSUME n + 1 \in 1 .. k - 1 PROVE g[n + 1] = f[n + 1]
      OBVIOUS
    <3>1. CASE n = 0
      BY <1>1, <1>2, <3>1 DEF Flattening
    <3>2. CASE n # 0
      <4>1. n \in 1 .. k - 1 /\ n + 1 \in 2 .. Len(s) /\ (n + 1) - 1 = n
        BY <3>2
      <4>2. f[n + 1] = f[n] \o s[n + 1] /\ g[n + 1] = g[n] \o t[n + 1]
        BY <1>1, <1>2, <4>1 DEF Flattening
      <4> QED
        BY <2>2, <4>1, <4>2
    <3> QED
      BY <3>1, <3>2
  <2> HIDE DEF I
  <2> QED
    BY <2>1, <2>2, NatsIn
<1>7. g[k] = f[k] \o b
  <2>1. CASE k = 1
    BY <1>1, <1>2, <2>1 DEF Flattening
  <2>2. CASE k # 1
    <3>1. k \in 2 .. Len(s) /\ k - 1 \in 1 .. k - 1 /\ k - 1 \in Nat
          /\ k - 1 \in 1 .. Len(s)
      BY <2>2
    <3>2. f[k] = f[k - 1] \o s[k] /\ g[k] = g[k - 1] \o (s[k] \o b)
      BY <1>1, <1>2, <3>1 DEF Flattening
    <3>3. g[k - 1] = f[k - 1]
      BY <1>6, <3>1
    <3>4. f[k - 1] \in Seq(E) /\ s[k] \in Seq(E)
      BY <1>1, <3>1, FlatteningIn
    <3>5. (f[k - 1] \o s[k]) \o b = f[k - 1] \o (s[k] \o b)
      <4>1. Associates(E) /\ b \in Seq(E)
        BY ConcatAssociates
      <4> QED
        BY <3>4, <4>1, Zenon DEF Associates
    <3> QED
      BY <3>2, <3>3, <3>5
  <2> QED
    BY <2>1, <2>2
<1> QED
  BY <1>4, <1>5, <1>7

-----------------------------------------------------------------------------
(* Who runs, and how many pages there are                                  *)

MakingPlaces == {"createIndex", "createPageIndex", "createData"}
WritingPlaces == {"append", "newPage", "newPageIndex", "newPageData",
                  "writeIndex", "written"}
NewPlaces == {"newPageIndex", "newPageData"}

\* Who may be where.
Fits(f, place) ==
  /\ place \in MakingPlaces => f # Deleter
  /\ place = "opened" => f \in Concats \cup Readers
  /\ place \in WritingPlaces => f \in Concats
  /\ place = "created" => f = Creator
  /\ place = "deleting" => f = Deleter
Roles == \A f \in Fibers : Fits(f, pc[f])

\* collection.create never ran beside another handler.
Quiet == "overlap" \notin halfMade

\* Whoever runs has the mutex, but for collection.create.
Mutex ==
  /\ holder = Running \ {Creator}
  /\ \A f, g \in holder : f = g
  /\ Quiet /\ Creator \in Running => holder = {}

\* There is room for a page more: no fiber makes more than two.
Early == {"idle", "opened", "newPage"} \cup MakingPlaces
Touched == {f \in Fibers : pc[f] # "idle"}
Second == {f \in Fibers : pc[f] \notin Early}
Room == born <= Cardinality(Touched) + Cardinality(Second)

\* Pages are made in the order of their numbers.
Numbered ==
  /\ \A p \in Pages : p > born => pages[p] = NoPage
  /\ index.active <= born
  /\ index.active = 0 => index = NoIndex
  /\ \A f \in Fibers : pc[f] \in MakingPlaces \cup WritingPlaces => at[f] \in 1 .. born

\* Who runs is known, and there is room for what they make.
Footing ==
  /\ pc \in [Fibers -> Ended \cup Places]
  /\ holder \subseteq Fibers /\ Cardinality(holder) <= 1
  /\ born \in 0 .. Cardinality(Pages)
  /\ Roles /\ Mutex /\ Room

Control == TypeOK /\ Roles /\ Mutex /\ Room /\ Numbered

\* What is assumed of the fibers, in the form the proofs use it.
LEMMA FibersAre ==
  /\ Creator \in Fibers /\ Creator \in Writers /\ Deleter \in Fibers
  /\ Concats \subseteq Fibers /\ Concats \subseteq Writers
  /\ Readers \subseteq Fibers /\ Writers \subseteq Fibers
  /\ Creator \notin Concats \cup Readers \cup {Deleter}
  /\ Deleter \notin Concats \cup Readers
  /\ Readers \cap Concats = {}
  /\ \A f \in Writers : Batch[f] \in Seq(Entries)
  /\ \A c \in Concats : Batch[c] # <<>>
  /\ MaxPageSize \in Nat \ {0} /\ MaxCrashes \in Nat
BY StoreAssumption DEF Fibers, Writers

LEMMA PagesAre ==
  /\ IsFiniteSet(Fibers) /\ Cardinality(Fibers) \in Nat \ {0}
  /\ Pages = 1 .. Cardinality(Pages)
  /\ Cardinality(Pages) = Cardinality(Fibers) + Cardinality(Fibers)
  /\ Cardinality(Pages) \in Nat \ {0}
  /\ \A p \in Pages : p \in Nat /\ p # 0
<1>1. IsFiniteSet(Fibers) /\ Cardinality(Fibers) \in Nat \ {0}
  BY StoreAssumption, FibersAre, FS_CardinalityType, FS_EmptySet
<1> DEFINE n == 2 * Cardinality(Fibers)
<1>2. n \in Nat \ {0} /\ n = Cardinality(Fibers) + Cardinality(Fibers)
  BY <1>1
<1>3. Cardinality(1 .. n) = n
  BY <1>2, FS_Interval
<1> QED
  BY <1>1, <1>2, <1>3 DEF Pages

LEMMA OneHolder ==
  ASSUME NEW S \in SUBSET Fibers, \A f, g \in S : f = g
  PROVE  Cardinality(S) <= 1
<1>1. CASE S = {}
  BY <1>1, FS_EmptySet
<1>2. CASE S # {}
  <2>1. PICK f \in S : TRUE
    BY <1>2
  <2>2. S = {f}
    BY <2>1
  <2> QED
    BY <2>2, FS_Singleton
<1> QED
  BY <1>1, <1>2

\* The sets of fibers that count for Room.
LEMMA Counted ==
  ASSUME NEW S \in SUBSET Fibers, NEW T \in SUBSET Fibers, S \subseteq T
  PROVE  /\ Cardinality(S) \in Nat /\ Cardinality(S) <= Cardinality(T)
         /\ S # T => Cardinality(S) + 1 <= Cardinality(T)
         /\ Cardinality(T) <= Cardinality(Fibers) /\ Cardinality(T) \in Nat
<1>1. IsFiniteSet(T) /\ Cardinality(T) <= Cardinality(Fibers)
  BY PagesAre, FS_Subset
<1>2. /\ IsFiniteSet(S) /\ Cardinality(S) <= Cardinality(T)
      /\ Cardinality(T) = Cardinality(S) => T = S
  BY <1>1, FS_Subset
<1>3. Cardinality(S) \in Nat /\ Cardinality(T) \in Nat
  BY <1>1, <1>2, FS_CardinalityType
<1> QED
  BY <1>1, <1>2, <1>3

\* There is room for the page that the bound allows.
LEMMA RoomIsEnough ==
  ASSUME Room', born' \in Nat
  PROVE  born' \in 0 .. Cardinality(Pages)
<1>1. Touched' \in SUBSET Fibers /\ Second' \in SUBSET Fibers
  BY DEF Touched, Second
<1>2. /\ Cardinality(Touched') \in Nat /\ Cardinality(Touched') <= Cardinality(Fibers)
      /\ Cardinality(Second') \in Nat /\ Cardinality(Second') <= Cardinality(Fibers)
  BY <1>1, Counted
<1>3. born' <= Cardinality(Touched') + Cardinality(Second')
  BY DEF Room
<1> QED
  BY <1>2, <1>3, PagesAre

LEMMA RoomKept ==
  ASSUME Room, born \in Nat, Touched \subseteq Touched', Second \subseteq Second',
         \/ born' = born
         \/ born' = born + 1 /\ (Touched' # Touched \/ Second' # Second)
  PROVE  Room' /\ born' \in 0 .. Cardinality(Pages)
<1>1. /\ Touched \in SUBSET Fibers /\ Second \in SUBSET Fibers
      /\ Touched' \in SUBSET Fibers /\ Second' \in SUBSET Fibers
  BY DEF Touched, Second
<1>2. /\ Cardinality(Touched) \in Nat /\ Cardinality(Touched') \in Nat
      /\ Cardinality(Touched) <= Cardinality(Touched')
      /\ Touched # Touched' => Cardinality(Touched) + 1 <= Cardinality(Touched')
  BY <1>1, Counted
<1>3. /\ Cardinality(Second) \in Nat /\ Cardinality(Second') \in Nat
      /\ Cardinality(Second) <= Cardinality(Second')
      /\ Second # Second' => Cardinality(Second) + 1 <= Cardinality(Second')
  BY <1>1, Counted
<1>4. Room'
  BY <1>2, <1>3 DEF Room
<1> QED
  BY <1>4, RoomIsEnough

\* A fiber that runs goes on, or ends and gives the mutex back.
LEMMA Moves ==
  ASSUME Control, NEW f \in Fibers, NEW place \in Ended \cup Places,
         place # "idle", pc[f] \notin Ended, Go(f, place), Fits(f, place),
         place \in Early => pc[f] \in Early /\ place # pc[f],
         pc[f] # "newPage" \/ place \notin Early,
         holder' = (IF place \in Ended THEN holder \ {f} ELSE holder),
         halfMade' = halfMade,
         born' = born + (IF pc[f] = "newPage" THEN 1 ELSE 0)
  PROVE  Footing'
<1>1. pc \in [Fibers -> Ended \cup Places] /\ holder \subseteq Fibers /\ born \in Nat
  BY PagesAre DEF Control, TypeOK
<1>2. /\ pc' \in [Fibers -> Ended \cup Places] /\ pc'[f] = place
      /\ \A g \in Fibers : g # f => pc'[g] = pc[g]
  BY <1>1 DEF Go
<1>3. Roles'
  <2> SUFFICES ASSUME NEW g \in Fibers PROVE Fits(g, pc'[g])
    BY DEF Roles, Fits
  <2> QED
    BY <1>2 DEF Control, Roles
<1>4. Running' = IF place \in Ended THEN Running \ {f} ELSE Running
  BY <1>2 DEF Running
<1>5. Mutex'
  <2>1. holder' = Running' \ {Creator}
    BY <1>4 DEF Control, Mutex
  <2>2. holder' \subseteq holder /\ Running' \subseteq Running
    BY <1>4
  <2>3. \A g, h \in holder' : g = h
    BY <2>2 DEF Control, Mutex
  <2>4. Quiet' /\ Creator \in Running' => holder' = {}
    BY <2>2 DEF Control, Mutex, Quiet
  <2> QED
    BY <2>1, <2>3, <2>4 DEF Mutex
<1>6. holder' \subseteq Fibers /\ Cardinality(holder') <= 1
  <2>1. holder' \subseteq Fibers
    BY <1>1
  <2> QED
    BY <1>5, <2>1, OneHolder DEF Mutex
<1>7. Touched' = Touched
  BY <1>2 DEF Touched, Ended
<1>8. Second \subseteq Second' /\ (pc[f] = "newPage" => Second' # Second)
  <2>1. ASSUME NEW g \in Second PROVE g \in Second'
    BY <1>2 DEF Second
  <2>2. ASSUME pc[f] = "newPage" PROVE f \in Second' /\ f \notin Second
    BY <1>2, <2>2 DEF Second, Early
  <2> QED
    BY <2>1, <2>2
<1>9. Room' /\ born' \in 0 .. Cardinality(Pages)
  <2>1. born' = born \/ (born' = born + 1 /\ Second' # Second)
    BY <1>1, <1>8
  <2> QED
    BY <1>1, <1>7, <1>8, <2>1, RoomKept DEF Control
<1> QED
  BY <1>2, <1>3, <1>5, <1>6, <1>9 DEF Footing

\* A fiber starts: with the mutex, or it is collection.create.
LEMMA Begins ==
  ASSUME Control, NEW f \in Fibers, NEW place \in Places,
         pc[f] = "idle", Go(f, place), Fits(f, place),
         IF f = Creator THEN /\ holder' = holder
                             /\ Quiet' => holder = {}
                        ELSE /\ holder = {} /\ holder' = {f}
                             /\ Quiet' => ~CreatorAtWork,
         born' = born \/ born' = born + 1
  PROVE  Footing'
<1>1. pc \in [Fibers -> Ended \cup Places] /\ holder \subseteq Fibers /\ born \in Nat
  BY PagesAre DEF Control, TypeOK
<1>2. /\ pc' \in [Fibers -> Ended \cup Places] /\ pc'[f] = place
      /\ \A g \in Fibers : g # f => pc'[g] = pc[g]
  BY <1>1 DEF Go
<1>3. Roles'
  <2> SUFFICES ASSUME NEW g \in Fibers PROVE Fits(g, pc'[g])
    BY DEF Roles, Fits
  <2> QED
    BY <1>2 DEF Control, Roles
<1>4. place \notin Ended /\ pc[f] \in Ended
  BY DEF Ended, Places
<1>5. Running' = Running \cup {f}
  BY <1>2, <1>4 DEF Running
<1>6. Mutex'
  <2>1. holder' = Running' \ {Creator}
    BY <1>5 DEF Control, Mutex
  <2>2. \A g, h \in holder' : g = h
    BY DEF Control, Mutex
  <2>3. ASSUME Quiet', Creator \in Running' PROVE holder' = {}
    <3>1. CASE f = Creator
      BY <2>3, <3>1
    <3>2. CASE f # Creator
      <4>1. Creator \in Running /\ ~CreatorAtWork
        BY <2>3, <3>2, <1>5
      <4>2. pc[Creator] \notin MakingPlaces \cup {"created"}
        BY <4>1, FibersAre DEF CreatorAtWork, Creating, MakingPlaces
      <4>3. Fits(Creator, pc[Creator])
        BY FibersAre DEF Control, Roles
      <4>4. pc[Creator] \notin Ended /\ pc[Creator] \in Ended \cup Places
        BY <1>1, <4>1, FibersAre DEF Running
      <4> QED
        BY <4>2, <4>3, <4>4, FibersAre
           DEF Fits, Places, MakingPlaces, WritingPlaces
    <3> QED
      BY <3>1, <3>2
  <2> QED
    BY <2>1, <2>2, <2>3 DEF Mutex
<1>7. holder' \subseteq Fibers /\ Cardinality(holder') <= 1
  <2>1. holder' \subseteq Fibers
    BY <1>1
  <2> QED
    BY <1>6, <2>1, OneHolder DEF Mutex
<1>8. Touched \subseteq Touched' /\ Touched' # Touched
  <2>1. f \in Touched' /\ f \notin Touched
    BY <1>2, <1>4 DEF Touched, Ended
  <2> QED
    BY <1>2, <2>1 DEF Touched
<1>9. Second \subseteq Second'
  BY <1>2 DEF Second, Early
<1>10. Room' /\ born' \in 0 .. Cardinality(Pages)
  BY <1>1, <1>8, <1>9, RoomKept DEF Control
<1> QED
  BY <1>2, <1>3, <1>6, <1>7, <1>10 DEF Footing

\* A fiber ends without having done anything.
LEMMA Skips ==
  ASSUME Control, NEW f \in Fibers, pc[f] = "idle", Go(f, "done"),
         UNCHANGED <<holder, halfMade, born>>
  PROVE  Footing'
<1>1. pc \in [Fibers -> Ended \cup Places] /\ born \in Nat
  BY PagesAre DEF Control, TypeOK
<1>2. /\ pc' \in [Fibers -> Ended \cup Places] /\ pc'[f] = "done"
      /\ \A g \in Fibers : g # f => pc'[g] = pc[g]
  BY <1>1 DEF Go, Ended
<1>3. Roles'
  <2> SUFFICES ASSUME NEW g \in Fibers PROVE Fits(g, pc'[g])
    BY DEF Roles, Fits
  <2>1. Fits(f, "done")
    BY DEF Fits, MakingPlaces, WritingPlaces
  <2> QED
    BY <1>2, <2>1 DEF Control, Roles
<1>4. Running' = Running
  BY <1>2 DEF Running, Ended
<1>5. Mutex'
  BY <1>4 DEF Control, Mutex, Quiet
<1>6. Touched \subseteq Touched' /\ Second \subseteq Second'
  BY <1>2 DEF Touched, Second, Early, MakingPlaces
<1>7. Room' /\ born' \in 0 .. Cardinality(Pages)
  BY <1>1, <1>6, RoomKept DEF Control
<1> QED
  BY <1>2, <1>3, <1>5, <1>7 DEF Footing, Control, TypeOK

\* A running fiber ends, and goes on to the next step.
LEMMA Ends ==
  ASSUME Control, NEW f \in Fibers, NEW place \in {"done", "failed"},
         pc[f] \notin Ended, pc[f] # "newPage", Go(f, place),
         holder' = holder \ {f}, UNCHANGED <<halfMade, born>>
  PROVE  Footing'
<1>1. place \in Ended \cup Places /\ place \in Ended /\ place # "idle"
  BY DEF Ended
<1>2. Fits(f, place) /\ place \notin Early
  BY DEF Fits, Early, MakingPlaces, WritingPlaces
<1>3. born' = born + (IF pc[f] = "newPage" THEN 1 ELSE 0)
  BY PagesAre DEF Control, TypeOK
<1> QED
  BY <1>1, <1>2, <1>3, Moves

LEMMA GoesOn ==
  ASSUME Control, NEW f \in Fibers, NEW place \in Places,
         pc[f] \notin Ended, pc[f] # "newPage", Go(f, place), Fits(f, place),
         place \in Early => pc[f] \in Early /\ place # pc[f],
         UNCHANGED <<holder, halfMade, born>>
  PROVE  Footing'
<1>1. place \in Ended \cup Places /\ place \notin Ended /\ place # "idle"
  BY DEF Ended, Places
<1>2. born' = born + (IF pc[f] = "newPage" THEN 1 ELSE 0)
  BY PagesAre DEF Control, TypeOK
<1> QED
  BY <1>1, <1>2, Moves

Fresh == [NoPage EXCEPT !.dir = TRUE]

LEMMA TheTypes ==
  /\ NoIndex \in Indexes /\ NoPage \in PageFiles /\ Fresh \in PageFiles
  /\ \A f \in Fibers : InitialEntries(f) \in Seq(Entries)
  /\ \A f \in Fibers : Len(InitialEntries(f)) \in Nat
  /\ \A c \in Concats : Len(Batch[c]) \in Nat
<1>1. \A f \in Fibers : InitialEntries(f) \in Seq(Entries)
  BY FibersAre DEF InitialEntries
<1>2. \A f \in Fibers : Len(InitialEntries(f)) \in Nat
  BY <1>1, LenProperties
<1>3. \A c \in Concats : Batch[c] \in Seq(Entries)
  BY FibersAre
<1>4. \A c \in Concats : Len(Batch[c]) \in Nat
  BY <1>3, LenProperties
<1>5. NoPage \in PageFiles
  <2>1. <<>> \in Seq(Entries) /\ 0 \in Nat
    OBVIOUS
  <2> QED
    BY <2>1 DEF NoPage, PageFiles
<1>6. Fresh \in PageFiles
  BY <1>5 DEF Fresh, PageFiles
<1> QED
  BY <1>1, <1>2, <1>4, <1>5, <1>6 DEF NoIndex, Indexes

LEMMA NumberedKept ==
  ASSUME Numbered, born \in Nat, born' \in Nat, born <= born',
         \A p \in Pages : p > born' => pages'[p] = NoPage,
         \/ index' = index
         \/ index' = NoIndex
         \/ index'.active \in 1 .. born',
         index.active \in Nat, NEW f,
         \A g \in Fibers : g # f => pc'[g] = pc[g] /\ at'[g] = at[g],
         pc'[f] \in MakingPlaces \cup WritingPlaces => at'[f] \in 1 .. born'
  PROVE  Numbered'
<1>1. index'.active <= born' /\ (index'.active = 0 => index' = NoIndex)
  BY DEF Numbered, NoIndex
<1>2. ASSUME NEW g \in Fibers, pc'[g] \in MakingPlaces \cup WritingPlaces
      PROVE  at'[g] \in 1 .. born'
  <2>1. g # f => at[g] \in 1 .. born
    BY <1>2 DEF Numbered
  <2> QED
    BY <1>2, <2>1
<1> QED
  BY <1>1, <1>2 DEF Numbered

\* A new directory is the next page.
LEMMA MakesPage ==
  ASSUME Control, NEW f \in Fibers, MakeDirectory(f),
         born' \in 0 .. Cardinality(Pages)
  PROVE  /\ born + 1 \in Pages /\ born' = born + 1 /\ born \in Nat
         /\ pages[born + 1] = NoPage
         /\ pages' = [pages EXCEPT ![born + 1] = Fresh]
         /\ pages' \in [Pages -> PageFiles]
         /\ at' \in [Fibers -> {0} \cup Pages]
         /\ at'[f] = born + 1 /\ \A g \in Fibers : g # f => at'[g] = at[g]
         /\ \A p \in Pages : p > born + 1 => pages'[p] = NoPage
         /\ index \in Indexes => index.active \in Nat
<1>1. born \in Nat /\ pages \in [Pages -> PageFiles]
      /\ at \in [Fibers -> {0} \cup Pages]
  BY PagesAre DEF Control, TypeOK
<1>2. born' = born + 1 /\ born + 1 \in Pages
  BY <1>1, PagesAre DEF MakeDirectory
<1>3. pages[born + 1] = NoPage
  BY <1>1, <1>2 DEF Control, Numbered
<1>4. pages' = [pages EXCEPT ![born + 1] = Fresh]
  <2>1. pages' = [pages EXCEPT ![born + 1] =
                    [pages[born + 1] EXCEPT !.dir = TRUE]]
    BY DEF MakeDirectory
  <2> QED
    BY <1>3, <2>1 DEF Fresh
<1>5. pages' \in [Pages -> PageFiles]
  BY <1>1, <1>2, <1>4, TheTypes
<1>6. ASSUME NEW p \in Pages, p > born + 1 PROVE pages'[p] = NoPage
  <2>1. p > born /\ p # born + 1
    BY <1>1, <1>6, PagesAre
  <2>2. pages[p] = NoPage
    BY <2>1 DEF Control, Numbered
  <2> QED
    BY <1>1, <1>4, <2>1, <2>2
<1>7. index \in Indexes => index.active \in Nat
  BY PagesAre DEF Indexes
<1> QED
  BY <1>1, <1>2, <1>3, <1>4, <1>5, <1>6, <1>7 DEF MakeDirectory

\* What the others do is as it was.
OthersSame(f) == \A g \in Fibers : g # f => pc'[g] = pc[g]

LEMMA GoOthers ==
  ASSUME Control, NEW f \in Fibers, NEW place, Go(f, place)
  PROVE  pc'[f] = place /\ OthersSame(f)
BY DEF Control, TypeOK, Go, OthersSame

-----------------------------------------------------------------------------
(* The creation                                                            *)

LEMMA GoneControl ==
  ASSUME Control, NEW f \in Fibers, Gone(f)
  PROVE  Control'
<1>1. pc[f] \notin Ended /\ pc[f] # "newPage"
  BY DEF Gone, Ended
<1>2. Footing'
  BY <1>1, Ends DEF Gone, files
<1>3. TypeOK'
  BY <1>2 DEF Control, TypeOK, Gone, files, history, Footing
<1>4. pc'[f] = "failed" /\ OthersSame(f)
  BY GoOthers DEF Gone
<1>5. Numbered'
  BY <1>4 DEF Control, Numbered, Gone, files, OthersSame, MakingPlaces,
              WritingPlaces
<1> QED
  BY <1>2, <1>3, <1>5 DEF Control, Footing

\* The page a fiber at work is on was made.
LEMMA AtIsMade ==
  ASSUME Control, NEW f \in Fibers, pc[f] \in MakingPlaces \cup WritingPlaces
  PROVE  /\ at[f] \in Pages /\ at[f] \in 1 .. born /\ born \in Nat
         /\ \A p \in Pages : p > born => p # at[f]
         /\ pages[at[f]] \in PageFiles
BY PagesAre DEF Control, TypeOK, Numbered

LEMMA CreateIndexControl ==
  ASSUME Control, NEW f \in Fibers, CreateIndex(f)
  PROVE  Control'
<1>1. at[f] \in Pages /\ at[f] \in 1 .. born
  BY AtIsMade DEF CreateIndex, MakingPlaces
<1>2. pc[f] \notin Ended /\ pc[f] # "newPage" /\ pc[f] \in Early
      /\ "createPageIndex" # pc[f] /\ "createPageIndex" \in Places
  BY DEF CreateIndex, Ended, Early, MakingPlaces, Places
<1>3. Fits(f, "createPageIndex")
  BY DEF Control, Roles, Fits, CreateIndex, MakingPlaces, WritingPlaces
<1>4. Footing'
  BY <1>2, <1>3, GoesOn DEF CreateIndex
<1>5. index' \in Indexes /\ index'.active = at[f]
  BY <1>1, TheTypes DEF CreateIndex, Indexes
<1>6. TypeOK'
  BY <1>4, <1>5 DEF Control, TypeOK, CreateIndex, history, Footing
<1>7. pc'[f] = "createPageIndex" /\ OthersSame(f)
  BY GoOthers DEF CreateIndex
<1>8. Numbered'
  BY <1>1, <1>5, <1>7 DEF Control, Numbered, CreateIndex, OthersSame
<1> QED
  BY <1>4, <1>6, <1>8 DEF Control, Footing

LEMMA CreatePageIndexControl ==
  ASSUME Control, NEW f \in Fibers, CreatePageIndex(f)
  PROVE  Control'
<1>1. /\ at[f] \in Pages /\ at[f] \in 1 .. born /\ pages[at[f]] \in PageFiles
      /\ \A p \in Pages : p > born => p # at[f]
  BY AtIsMade DEF CreatePageIndex, MakingPlaces
<1>2. pc[f] \notin Ended /\ pc[f] # "newPage" /\ pc[f] \in Early
      /\ "createData" # pc[f] /\ "createData" \in Places
  BY DEF CreatePageIndex, Ended, Early, MakingPlaces, Places
<1>3. Fits(f, "createData")
  BY DEF Control, Roles, Fits, CreatePageIndex, MakingPlaces, WritingPlaces
<1>4. Footing'
  BY <1>2, <1>3, GoesOn DEF CreatePageIndex
<1>5. /\ pages' = [pages EXCEPT ![at[f]] =
                     [pages[at[f]] EXCEPT !.idx = TRUE, !.order = 0]]
      /\ pages' \in [Pages -> PageFiles]
  BY <1>1 DEF CreatePageIndex, PageFiles, Control, TypeOK
<1>6. TypeOK'
  BY <1>4, <1>5 DEF Control, TypeOK, CreatePageIndex, history, Footing
<1>7. pc'[f] = "createData" /\ OthersSame(f)
  BY GoOthers DEF CreatePageIndex
<1>8. \A p \in Pages : p > born => pages'[p] = NoPage
  BY <1>1, <1>5 DEF Control, Numbered, TypeOK
<1>9. Numbered'
  BY <1>1, <1>7, <1>8 DEF Control, Numbered, CreatePageIndex, OthersSame
<1> QED
  BY <1>4, <1>6, <1>9 DEF Control, Footing

LEMMA CreateDataControl ==
  ASSUME Control, NEW f \in Fibers, CreateData(f)
  PROVE  Control'
<1>1. /\ at[f] \in Pages /\ at[f] \in 1 .. born /\ pages[at[f]] \in PageFiles
      /\ \A p \in Pages : p > born => p # at[f]
  BY AtIsMade DEF CreateData, MakingPlaces
<1> DEFINE place == IF f = Creator THEN "created" ELSE "opened"
<1>2. pc[f] \notin Ended /\ pc[f] # "newPage" /\ pc[f] \in Early
      /\ place # pc[f] /\ place \in Places
  BY DEF CreateData, Ended, Early, MakingPlaces, Places
<1>3. Fits(f, place)
  BY DEF Control, Roles, Fits, CreateData, MakingPlaces, WritingPlaces, Fibers,
         Writers
<1>4. Footing'
  BY <1>2, <1>3, GoesOn DEF CreateData
<1>5. /\ pages' = [pages EXCEPT ![at[f]] =
                     [pages[at[f]] EXCEPT !.data = TRUE,
                                          !.entries = InitialEntries(f)]]
      /\ pages' \in [Pages -> PageFiles]
  BY <1>1, TheTypes DEF CreateData, PageFiles, Control, TypeOK
<1>6. TypeOK'
  BY <1>4, <1>5 DEF Control, TypeOK, CreateData, history, Footing
<1>7. pc'[f] = place /\ OthersSame(f)
  BY GoOthers DEF CreateData
<1>8. \A p \in Pages : p > born => pages'[p] = NoPage
  BY <1>1, <1>5 DEF Control, Numbered, TypeOK
<1>9. Numbered'
  BY <1>1, <1>7, <1>8 DEF Control, Numbered, CreateData, OthersSame
<1> QED
  BY <1>4, <1>6, <1>9 DEF Control, Footing

LEMMA CreateControl ==
  ASSUME Control, Create
  PROVE  Control'
<1>1. Creator \in Fibers /\ "createIndex" \in Places
  BY FibersAre DEF Places
<1>2. Fits(Creator, "createIndex")
  BY FibersAre DEF Fits, MakingPlaces, WritingPlaces
<1>3. born' = born + 1 /\ holder' = holder
  BY DEF Create, MakeDirectory
<1>4. Quiet' => holder = {}
  BY DEF Create, Quiet
<1>5. Footing'
  BY <1>1, <1>2, <1>3, <1>4, Begins DEF Create
<1>6. /\ born + 1 \in Pages /\ born \in Nat /\ pages[born + 1] = NoPage
      /\ pages' = [pages EXCEPT ![born + 1] = Fresh]
      /\ pages' \in [Pages -> PageFiles]
      /\ at' \in [Fibers -> {0} \cup Pages] /\ at'[Creator] = born + 1
      /\ \A g \in Fibers : g # Creator => at'[g] = at[g]
      /\ \A p \in Pages : p > born + 1 => pages'[p] = NoPage
      /\ index.active \in Nat
  BY <1>1, <1>5, MakesPage DEF Footing, Create, Control, TypeOK
<1>7. TypeOK'
  BY <1>5, <1>6 DEF Control, TypeOK, Create, history, Footing, MakeDirectory
<1>8. OthersSame(Creator)
  BY <1>1, GoOthers DEF Create
<1>9. Numbered'
  <2>1. index' = index
    BY DEF Create, MakeDirectory
  <2>2. born + 1 \in Nat /\ born <= born + 1 /\ born + 1 \in 1 .. born + 1
    BY <1>6
  <2>3. Numbered
    BY DEF Control
  <2> QED
    BY <1>3, <1>6, <1>8, <2>1, <2>2, <2>3, NumberedKept DEF OthersSame
<1> QED
  BY <1>5, <1>7, <1>9 DEF Control, Footing

LEMMA Acknowledging ==
  ASSUME Control, NEW f, Batch[f] \in Seq(Entries), NEW start \in Nat,
         UNCHANGED <<acked, starts>> \/ Acknowledge(f, start)
  PROVE  acked' \in Seq(Seq(Entries)) /\ starts' \in Seq(Nat)
         /\ Len(starts') = Len(acked')
<1>1. acked \in Seq(Seq(Entries)) /\ starts \in Seq(Nat)
      /\ Len(starts) = Len(acked)
  BY DEF Control, TypeOK
<1>2. CASE Acknowledge(f, start)
  <2>1. acked' \in Seq(Seq(Entries)) /\ Len(acked') = Len(acked) + 1
    BY <1>1, <1>2, AppendProperties DEF Acknowledge
  <2>2. starts' \in Seq(Nat) /\ Len(starts') = Len(starts) + 1
    BY <1>1, <1>2, AppendProperties DEF Acknowledge
  <2> QED
    BY <1>1, <2>1, <2>2
<1> QED
  BY <1>1, <1>2

LEMMA CreateAckControl ==
  ASSUME Control, CreateAck
  PROVE  Control'
<1>1. Creator \in Fibers /\ pc[Creator] \notin Ended /\ pc[Creator] # "newPage"
  BY FibersAre DEF CreateAck, Ended
<1>2. holder' = holder \ {Creator}
  BY DEF CreateAck, Control, Mutex
<1>3. Footing'
  BY <1>1, <1>2, Ends DEF CreateAck, files
<1>4. acked' \in Seq(Seq(Entries)) /\ starts' \in Seq(Nat)
      /\ Len(starts') = Len(acked')
  <2>1. Batch[Creator] \in Seq(Entries) /\ 0 \in Nat
    BY FibersAre
  <2>2. UNCHANGED <<acked, starts>> \/ Acknowledge(Creator, 0)
    BY DEF CreateAck
  <2> QED
    BY <2>1, <2>2, Acknowledging
<1>5. TypeOK'
  BY <1>3, <1>4 DEF Control, TypeOK, CreateAck, files, Footing
<1>6. pc'[Creator] = "done" /\ OthersSame(Creator)
  BY <1>1, GoOthers DEF CreateAck
<1>7. Numbered'
  BY <1>6 DEF Control, Numbered, CreateAck, files, OthersSame, MakingPlaces,
              WritingPlaces
<1> QED
  BY <1>3, <1>5, <1>7 DEF Control, Footing

-----------------------------------------------------------------------------
(* Handlers that take the mutex                                            *)

\* A handler opens the collection, or makes it.
LEMMA BeginControl ==
  ASSUME Control, NEW f \in Concats \cup Readers, Lock(f),
         IF dir THEN Go(f, "opened") /\ UNCHANGED <<files, at>>
                ELSE MakeDirectory(f) /\ Go(f, "createIndex"),
         UNCHANGED <<known, history, torn, crashes>>
  PROVE  Control'
<1>1. f \in Fibers /\ f # Creator /\ f # Deleter
  BY FibersAre
<1> DEFINE place == IF dir THEN "opened" ELSE "createIndex"
<1>2. place \in Places /\ Fits(f, place) /\ Go(f, place)
  BY <1>1 DEF Places, Fits, MakingPlaces, WritingPlaces
<1>3. pc[f] = "idle" /\ holder = {} /\ holder' = {f}
      /\ (Quiet' => ~CreatorAtWork)
  BY DEF Lock, Quiet
<1>4. born' = born \/ born' = born + 1
  BY DEF MakeDirectory, files
<1>5. Footing'
  <2> HIDE DEF place
  <2> QED
    BY <1>1, <1>2, <1>3, <1>4, Begins
<1>6. pc'[f] = place /\ OthersSame(f)
  BY <1>1, <1>2, GoOthers
<1>7. halfMade' \subseteq {"collection", "page", "overlap"}
  BY DEF Lock, Control, TypeOK
<1>8. CASE dir
  <2>1. TypeOK'
    BY <1>5, <1>7, <1>8 DEF Control, TypeOK, history, Footing, files
  <2>2. Numbered'
    BY <1>6, <1>8 DEF Control, Numbered, files, OthersSame, MakingPlaces,
                      WritingPlaces
  <2> QED
    BY <1>5, <2>1, <2>2 DEF Control, Footing
<1>9. CASE ~dir
  <2>1. /\ born + 1 \in Pages /\ born \in Nat /\ born' = born + 1
        /\ pages' = [pages EXCEPT ![born + 1] = Fresh]
        /\ pages' \in [Pages -> PageFiles]
        /\ at' \in [Fibers -> {0} \cup Pages] /\ at'[f] = born + 1
        /\ \A g \in Fibers : g # f => at'[g] = at[g]
        /\ \A p \in Pages : p > born + 1 => pages'[p] = NoPage
        /\ index.active \in Nat
    BY <1>1, <1>5, <1>9, MakesPage DEF Footing, Control, TypeOK
  <2>2. TypeOK'
    BY <1>5, <1>7, <1>9, <2>1 DEF Control, TypeOK, history, Footing, MakeDirectory
  <2>3. Numbered'
    <3>1. index' = index
      BY <1>9 DEF MakeDirectory
    <3>2. born + 1 \in Nat /\ born <= born + 1 /\ born + 1 \in 1 .. born + 1
      BY <2>1
    <3>3. Numbered
      BY DEF Control
    <3> QED
      BY <1>6, <2>1, <3>1, <3>2, <3>3, NumberedKept DEF OthersSame
  <2> QED
    BY <1>5, <2>2, <2>3 DEF Control, Footing
<1> QED
  BY <1>8, <1>9

\* A handler is refused.
LEMMA RefusedControl ==
  ASSUME Control, NEW f \in Fibers, pc[f] = "idle", Go(f, "done"),
         UNCHANGED <<files, at, known, holder, history, torn, halfMade, crashes>>
  PROVE  Control'
<1>1. Footing'
  BY Skips DEF files
<1>2. TypeOK'
  BY <1>1 DEF Control, TypeOK, files, history, Footing
<1>3. pc'[f] = "done" /\ OthersSame(f)
  BY GoOthers
<1>4. Numbered'
  BY <1>3 DEF Control, Numbered, files, OthersSame, MakingPlaces, WritingPlaces
<1> QED
  BY <1>1, <1>2, <1>4 DEF Control, Footing

-----------------------------------------------------------------------------
(* A concat                                                                *)

LEMMA ConcatReadControl ==
  ASSUME Control, NEW c \in Concats, ConcatRead(c)
  PROVE  Control'
<1>1. c \in Fibers /\ pc[c] \notin Ended /\ pc[c] # "newPage" /\ pc[c] = "opened"
  BY FibersAre DEF ConcatRead, Ended
<1>2. CASE index = NoIndex \/ ~pages[index.active].data
  <2>1. Go(c, "failed") /\ holder' = holder \ {c} /\ UNCHANGED <<at, known>>
    BY <1>2 DEF ConcatRead, Fail
  <2>2. Footing'
    BY <1>1, <2>1, Ends DEF ConcatRead, files
  <2>3. TypeOK'
    BY <2>1, <2>2 DEF Control, TypeOK, ConcatRead, files, history, Footing
  <2>4. pc'[c] = "failed" /\ OthersSame(c)
    BY <1>1, <2>1, GoOthers
  <2>5. Numbered'
    BY <2>1, <2>4 DEF Control, Numbered, ConcatRead, files, OthersSame,
                      MakingPlaces, WritingPlaces
  <2> QED
    BY <2>2, <2>3, <2>5 DEF Control, Footing
<1>3. CASE ~(index = NoIndex \/ ~pages[index.active].data)
  <2> DEFINE place == IF Len(pages[index.active].entries) >= MaxPageSize
                        THEN "newPage" ELSE "append"
  <2>1. /\ Go(c, place) /\ UNCHANGED holder
        /\ known' = [known EXCEPT ![c] = index]
        /\ at' = [at EXCEPT ![c] = index.active]
    BY <1>3 DEF ConcatRead
  <2>2. place \in Places /\ Fits(c, place) /\ (place \in Early => place = "newPage")
    BY FibersAre DEF Places, Fits, MakingPlaces, WritingPlaces, Early
  <2>3. Footing'
    <3>1. place \in Early => pc[c] \in Early /\ place # pc[c]
      BY <1>1, <2>2 DEF Early
    <3> HIDE DEF place
    <3> QED
      BY <1>1, <2>1, <2>2, <3>1, GoesOn DEF ConcatRead, files
  <2>4. index \in Indexes /\ index.active \in {0} \cup Pages
    BY DEF Control, TypeOK, Indexes
  <2>5. /\ known' \in [Concats -> Indexes]
        /\ at' \in [Fibers -> {0} \cup Pages]
        /\ at'[c] = index.active /\ \A g \in Fibers : g # c => at'[g] = at[g]
    BY <1>1, <2>1, <2>4 DEF Control, TypeOK
  <2>6. TypeOK'
    BY <2>3, <2>5 DEF Control, TypeOK, ConcatRead, files, history, Footing
  <2>7. OthersSame(c)
    BY <1>1, <2>1, GoOthers
  <2>8. index.active \in 1 .. born
    BY <1>3, <2>4, PagesAre DEF Control, Numbered, TypeOK
  <2>9. Numbered'
    BY <2>5, <2>7, <2>8 DEF Control, Numbered, ConcatRead, files, OthersSame
  <2> QED
    BY <2>3, <2>6, <2>9 DEF Control, Footing
<1> QED
  BY <1>2, <1>3

LEMMA JoinedIn ==
  ASSUME Control, NEW c \in Concats, NEW p \in Pages
  PROVE  Joined(p, Batch[c]) \in Seq(Entries)
<1>1. Batch[c] \in Seq(Entries) /\ Batch[c] # <<>>
  BY FibersAre
<1>2. Tail(Batch[c]) \in Seq(Entries)
  BY <1>1, HeadTailProperties
<1>3. pages[p].entries \in Seq(Entries)
  BY DEF Control, TypeOK, PageFiles
<1> QED
  BY <1>1, <1>2, <1>3, ConcatProperties DEF Joined

\* A concat writes a file of the page it is on.
LEMMA WritesPage ==
  ASSUME Control, NEW c \in Concats, NEW page \in PageFiles,
         pc[c] \in WritingPlaces \ {"newPage"},
         pages' = [pages EXCEPT ![at[c]] = page],
         NEW place \in {"newPageData", "writeIndex"}, Go(c, place),
         UNCHANGED <<dir, index, born, at, known, holder, history, torn,
                     halfMade, crashes>>
  PROVE  Control'
<1>1. /\ c \in Fibers /\ at[c] \in Pages /\ at[c] \in 1 .. born
      /\ \A p \in Pages : p > born => p # at[c]
  BY FibersAre, AtIsMade
<1>2. pc[c] \notin Ended /\ pc[c] # "newPage" /\ place \notin Early /\ place \in Places
  BY DEF Ended, Early, WritingPlaces, MakingPlaces, Places
<1>3. Fits(c, place)
  BY DEF Fits, WritingPlaces, MakingPlaces
<1>4. Footing'
  BY <1>1, <1>2, <1>3, GoesOn
<1>5. pages' \in [Pages -> PageFiles]
  BY <1>1 DEF Control, TypeOK
<1>6. TypeOK'
  BY <1>4, <1>5 DEF Control, TypeOK, history, Footing
<1>7. pc'[c] = place /\ OthersSame(c)
  BY <1>1, GoOthers
<1>8. \A p \in Pages : p > born => pages'[p] = NoPage
  BY <1>1 DEF Control, Numbered, TypeOK
<1>9. Numbered'
  BY <1>1, <1>7, <1>8 DEF Control, Numbered, OthersSame
<1> QED
  BY <1>4, <1>6, <1>9 DEF Control, Footing

\* What each of the steps that write a page makes of it.
LEMMA ConcatAppendWrites ==
  ASSUME Control, NEW c \in Concats, ConcatAppend(c)
  PROVE  \E page \in PageFiles :
           /\ page = [pages[at[c]] EXCEPT !.entries = Joined(at[c], Batch[c])]
           /\ pages' = [pages EXCEPT ![at[c]] = page]
<1>1. at[c] \in Pages /\ pages[at[c]] \in PageFiles
  BY FibersAre, AtIsMade DEF ConcatAppend, WritingPlaces
<1>2. Joined(at[c], Batch[c]) \in Seq(Entries)
  BY <1>1, JoinedIn
<1>3. [pages[at[c]] EXCEPT !.entries = Joined(at[c], Batch[c])] \in PageFiles
  BY <1>1, <1>2 DEF PageFiles
<1> QED
  BY <1>3 DEF ConcatAppend

LEMMA ConcatNewPageIndexWrites ==
  ASSUME Control, NEW c \in Concats, ConcatNewPageIndex(c)
  PROVE  \E page \in PageFiles :
           /\ page = [pages[at[c]] EXCEPT !.idx = TRUE, !.order = known[c].total]
           /\ pages' = [pages EXCEPT ![at[c]] = page]
<1>1. at[c] \in Pages /\ pages[at[c]] \in PageFiles
  BY FibersAre, AtIsMade DEF ConcatNewPageIndex, WritingPlaces
<1>2. known[c].total \in Nat
  BY DEF Control, TypeOK, Indexes
<1>3. [pages[at[c]] EXCEPT !.idx = TRUE, !.order = known[c].total] \in PageFiles
  BY <1>1, <1>2 DEF PageFiles
<1> QED
  BY <1>3 DEF ConcatNewPageIndex

LEMMA ConcatNewPageDataWrites ==
  ASSUME Control, NEW c \in Concats, ConcatNewPageData(c)
  PROVE  \E page \in PageFiles :
           /\ page = [pages[at[c]] EXCEPT !.data = TRUE, !.entries = Batch[c]]
           /\ pages' = [pages EXCEPT ![at[c]] = page]
<1>1. at[c] \in Pages /\ pages[at[c]] \in PageFiles
  BY FibersAre, AtIsMade DEF ConcatNewPageData, WritingPlaces
<1>2. Batch[c] \in Seq(Entries)
  BY FibersAre
<1>3. [pages[at[c]] EXCEPT !.data = TRUE, !.entries = Batch[c]] \in PageFiles
  BY <1>1, <1>2 DEF PageFiles
<1> QED
  BY <1>3 DEF ConcatNewPageData

LEMMA ConcatWritesControl ==
  ASSUME Control, NEW c \in Concats,
         ConcatAppend(c) \/ ConcatNewPageIndex(c) \/ ConcatNewPageData(c)
  PROVE  Control'
<1>1. CASE ConcatAppend(c)
  BY <1>1, ConcatAppendWrites, WritesPage DEF ConcatAppend, WritingPlaces
<1>2. CASE ConcatNewPageIndex(c)
  BY <1>2, ConcatNewPageIndexWrites, WritesPage
     DEF ConcatNewPageIndex, WritingPlaces
<1>3. CASE ConcatNewPageData(c)
  BY <1>3, ConcatNewPageDataWrites, WritesPage
     DEF ConcatNewPageData, WritingPlaces
<1> QED
  BY <1>1, <1>2, <1>3

LEMMA ConcatNewPageControl ==
  ASSUME Control, NEW c \in Concats, ConcatNewPage(c)
  PROVE  Control'
<1>1. c \in Fibers /\ pc[c] \notin Ended /\ pc[c] = "newPage"
  BY FibersAre DEF ConcatNewPage, Ended
<1>2. Fits(c, "newPageIndex") /\ "newPageIndex" \in Places
      /\ "newPageIndex" \notin Early /\ "newPageIndex" \notin Ended
      /\ "newPageIndex" # "idle"
  BY DEF Fits, WritingPlaces, MakingPlaces, Early, Places, Ended
<1>3. born' = born + (IF pc[c] = "newPage" THEN 1 ELSE 0) /\ holder' = holder
      /\ born' = born + 1 /\ halfMade' = halfMade /\ Go(c, "newPageIndex")
  BY <1>1 DEF ConcatNewPage, MakeDirectory
<1>4. Footing'
  BY <1>1, <1>2, <1>3, Moves
<1>5. /\ born + 1 \in Pages /\ born \in Nat
      /\ pages' \in [Pages -> PageFiles]
      /\ at' \in [Fibers -> {0} \cup Pages] /\ at'[c] = born + 1
      /\ \A g \in Fibers : g # c => at'[g] = at[g]
      /\ \A p \in Pages : p > born + 1 => pages'[p] = NoPage
      /\ index.active \in Nat
  BY <1>1, <1>4, MakesPage DEF Footing, ConcatNewPage, Control, TypeOK
<1>6. TypeOK'
  BY <1>4, <1>5 DEF Control, TypeOK, ConcatNewPage, history, Footing, MakeDirectory
<1>7. OthersSame(c)
  BY <1>1, <1>3, GoOthers
<1>8. Numbered'
  <2>1. index' = index
    BY DEF ConcatNewPage, MakeDirectory
  <2>2. born + 1 \in Nat /\ born <= born + 1 /\ born + 1 \in 1 .. born + 1
    BY <1>5
  <2>3. Numbered
    BY DEF Control
  <2> QED
    BY <1>3, <1>5, <1>7, <2>1, <2>2, <2>3, NumberedKept DEF OthersSame
<1> QED
  BY <1>4, <1>6, <1>8 DEF Control, Footing

LEMMA ConcatWriteIndexControl ==
  ASSUME Control, NEW c \in Concats, ConcatWriteIndex(c)
  PROVE  Control'
<1>1. /\ c \in Fibers /\ at[c] \in Pages /\ at[c] \in 1 .. born
      /\ pc[c] \notin Ended /\ pc[c] # "newPage"
  BY FibersAre, AtIsMade DEF ConcatWriteIndex, WritingPlaces, Ended
<1>2. Fits(c, "written") /\ "written" \in Places /\ "written" \notin Early
  BY DEF Fits, WritingPlaces, MakingPlaces, Early, Places
<1>3. Footing'
  BY <1>1, <1>2, GoesOn DEF ConcatWriteIndex
<1>4. known[c].total \in Nat /\ known[c].count \in Nat /\ Len(Batch[c]) \in Nat
  BY TheTypes DEF Control, TypeOK, Indexes
<1>5. index' \in Indexes /\ index'.active = at[c]
  BY <1>1, <1>4 DEF ConcatWriteIndex, Indexes
<1>6. TypeOK'
  BY <1>3, <1>5 DEF Control, TypeOK, ConcatWriteIndex, history, Footing
<1>7. pc'[c] = "written" /\ OthersSame(c)
  BY <1>1, GoOthers DEF ConcatWriteIndex
<1>8. Numbered'
  BY <1>1, <1>5, <1>7 DEF Control, Numbered, ConcatWriteIndex, OthersSame
<1> QED
  BY <1>3, <1>6, <1>8 DEF Control, Footing

LEMMA ConcatAckControl ==
  ASSUME Control, NEW c \in Concats, ConcatAck(c)
  PROVE  Control'
<1>1. c \in Fibers /\ pc[c] \notin Ended /\ pc[c] # "newPage"
  BY FibersAre DEF ConcatAck, Ended
<1>2. Footing'
  BY <1>1, Ends DEF ConcatAck, files
<1>3. acked' \in Seq(Seq(Entries)) /\ starts' \in Seq(Nat)
      /\ Len(starts') = Len(acked')
  <2>1. Batch[c] \in Seq(Entries) /\ known[c].count \in Nat
    BY FibersAre DEF Control, TypeOK, Indexes
  <2> QED
    BY <2>1, Acknowledging DEF ConcatAck
<1>4. TypeOK'
  BY <1>2, <1>3 DEF Control, TypeOK, ConcatAck, files, Footing
<1>5. pc'[c] = "done" /\ OthersSame(c)
  BY <1>1, GoOthers DEF ConcatAck
<1>6. Numbered'
  BY <1>5 DEF Control, Numbered, ConcatAck, files, OthersSame, MakingPlaces,
              WritingPlaces
<1> QED
  BY <1>2, <1>4, <1>6 DEF Control, Footing

LEMMA ConcatControl ==
  ASSUME Control, NEW c \in Concats, Concat(c)
  PROVE  Control'
<1>1. CASE ConcatBegin(c)
  BY <1>1, BeginControl DEF ConcatBegin
<1> QED
  BY <1>1, ConcatReadControl, ConcatWritesControl, ConcatNewPageControl,
     ConcatWriteIndexControl, ConcatAckControl DEF Concat

-----------------------------------------------------------------------------
(* Reads, deletions and deaths                                             *)

\* What is read of some pages is a sequence of entries.
LEMMA ListingIn ==
  ASSUME Control, NEW seq \in SetToSeqs(Present)
  PROVE  FlattenSeq([i \in DOMAIN seq |-> pages[seq[i]].entries]) \in Seq(Entries)
<1>1. Present \in SUBSET Pages /\ IsFiniteSet(Pages)
  BY PagesAre, FS_Interval DEF Present
<1>2. IsFiniteSet(Present)
  BY <1>1, FS_Subset
<1> DEFINE n == Cardinality(Present)
<1>3. n \in Nat
  BY <1>2, FS_CardinalityType
<1>4. seq \in [1 .. n -> Present]
  BY DEF SetToSeqs
<1> HIDE DEF n
<1>5. \A p \in Pages : pages[p].entries \in Seq(Entries)
  BY DEF Control, TypeOK, PageFiles
<1> DEFINE parts == [i \in DOMAIN seq |-> pages[seq[i]].entries]
<1>6. parts = [i \in 1 .. n |-> pages[seq[i]].entries]
  BY <1>4
<1>7. \A i \in 1 .. n : pages[seq[i]].entries \in Seq(Entries)
  BY <1>1, <1>4, <1>5
<1>8. parts \in Seq(Seq(Entries)) /\ Len(parts) = n
      /\ \A i \in 1 .. n : parts[i] \in Seq(Entries)
  BY <1>3, <1>6, <1>7
<1> HIDE DEF parts
<1>9. CASE n = 0
  <2>1. FlattenSeq(parts) = parts /\ parts = <<>>
    BY <1>8, <1>9, EmptySeq DEF FlattenSeq
  <2>2. FlattenSeq(parts) \in Seq(Entries)
    BY <2>1, EmptySeq
  <2> QED
    BY <2>2 DEF parts
<1>10. CASE n # 0
  <2>1. FlattenSeq(parts) \in Seq(Entries)
    BY <1>3, <1>8, <1>10, FlattenIn
  <2> QED
    BY <2>1 DEF parts
<1> QED
  BY <1>9, <1>10

LEMMA ReadAnswerControl ==
  ASSUME Control, NEW r \in Readers, ReadAnswer(r)
  PROVE  Control'
<1>1. r \in Fibers /\ pc[r] \notin Ended /\ pc[r] # "newPage"
  BY FibersAre DEF ReadAnswer, Ended
<1>2. PICK place \in {"done", "failed"} : Go(r, place) /\ holder' = holder \ {r}
  BY DEF ReadAnswer, Fail
<1>3. Footing'
  BY <1>1, <1>2, Ends DEF ReadAnswer, files
<1>4. answer' \in [Readers -> Seq(Entries)]
  <2>1. CASE ~Readable
    BY <2>1 DEF ReadAnswer, Control, TypeOK
  <2>2. CASE Readable
    <3>1. PICK seq \in SetToSeqs(Present) :
            answer' = [answer EXCEPT ![r] =
              FlattenSeq([i \in DOMAIN seq |-> pages[seq[i]].entries])]
      BY <2>2 DEF ReadAnswer
    <3>2. FlattenSeq([i \in DOMAIN seq |-> pages[seq[i]].entries]) \in Seq(Entries)
      BY ListingIn
    <3> QED
      BY <3>1, <3>2 DEF Control, TypeOK
  <2> QED
    BY <2>1, <2>2
<1>5. TypeOK'
  BY <1>3, <1>4 DEF Control, TypeOK, ReadAnswer, files, Footing
<1>6. pc'[r] = place /\ OthersSame(r)
  BY <1>1, <1>2, GoOthers
<1>7. Numbered'
  BY <1>6 DEF Control, Numbered, ReadAnswer, files, OthersSame, MakingPlaces,
              WritingPlaces
<1> QED
  BY <1>3, <1>5, <1>7 DEF Control, Footing

LEMMA ReadControl ==
  ASSUME Control, NEW r \in Readers, Read(r)
  PROVE  Control'
<1>1. CASE ReadBegin(r)
  BY <1>1, BeginControl DEF ReadBegin
<1>2. CASE ReadRefused(r)
  BY <1>2, RefusedControl, FibersAre DEF ReadRefused
<1> QED
  BY <1>1, <1>2, ReadAnswerControl DEF Read

LEMMA NoPages ==
  /\ [p \in Pages |-> NoPage] \in [Pages -> PageFiles]
  /\ \A p \in Pages : [q \in Pages |-> NoPage][p] = NoPage
BY TheTypes

LEMMA DeleteBeginControl ==
  ASSUME Control, DeleteBegin
  PROVE  Control'
<1>1. /\ Deleter \in Fibers /\ Deleter # Creator /\ "deleting" \in Places
      /\ Fits(Deleter, "deleting") /\ Go(Deleter, "deleting")
  BY FibersAre DEF Places, Fits, MakingPlaces, WritingPlaces, DeleteBegin
<1>2. /\ pc[Deleter] = "idle" /\ holder = {} /\ holder' = {Deleter}
      /\ (Quiet' => ~CreatorAtWork) /\ born' = born
  BY DEF DeleteBegin, Lock, Quiet
<1>3. Footing'
  BY <1>1, <1>2, Begins
<1>4. halfMade' \subseteq {"collection", "page", "overlap"}
  BY DEF DeleteBegin, Lock, Control, TypeOK
<1>5. index' \in Indexes /\ pages' \in [Pages -> PageFiles]
      /\ (index' = index \/ index' = NoIndex)
      /\ \A p \in Pages : pages'[p] = pages[p] \/ pages'[p] = NoPage
  BY TheTypes, NoPages DEF DeleteBegin, Control, TypeOK
<1>6. acked' = <<>> /\ starts' = <<>>
  BY DEF DeleteBegin
<1>7. TypeOK'
  BY <1>3, <1>4, <1>5, <1>6 DEF Control, TypeOK, DeleteBegin, Footing
<1>8. pc'[Deleter] = "deleting" /\ OthersSame(Deleter)
  BY <1>1, GoOthers
<1>9. Numbered'
  BY <1>5, <1>8 DEF Control, Numbered, DeleteBegin, OthersSame, MakingPlaces,
                    WritingPlaces, NoIndex, TypeOK
<1> QED
  BY <1>3, <1>7, <1>9 DEF Control, Footing

LEMMA DeleteEndControl ==
  ASSUME Control, DeleteEnd
  PROVE  Control'
<1>1. Deleter \in Fibers /\ pc[Deleter] \notin Ended /\ pc[Deleter] # "newPage"
  BY FibersAre DEF DeleteEnd, Ended
<1>2. Footing'
  BY <1>1, Ends DEF DeleteEnd
<1>3. TypeOK'
  BY <1>2, TheTypes, NoPages DEF Control, TypeOK, DeleteEnd, history, Footing
<1>4. pc'[Deleter] = "done" /\ OthersSame(Deleter)
  BY <1>1, GoOthers DEF DeleteEnd
<1>5. Numbered'
  BY <1>4, NoPages DEF Control, Numbered, DeleteEnd, OthersSame, MakingPlaces,
              WritingPlaces, NoIndex, TypeOK
<1> QED
  BY <1>2, <1>3, <1>5 DEF Control, Footing

\* A torn file is a file, of the page a writer was on.
LEMMA CutsAre ==
  ASSUME Control, NEW f \in Writers, NEW page \in Cuts(f),
         pc[f] \in {"append", "newPageData", "createData"}
  PROVE  /\ page \in PageFiles /\ at[f] \in Pages /\ at[f] \in 1 .. born
         /\ page.dir = pages[at[f]].dir /\ page.idx = pages[at[f]].idx
         /\ page.order = pages[at[f]].order /\ page.data
<1>1. f \in Fibers
  BY FibersAre
<1>2. at[f] \in Pages /\ pages[at[f]] \in PageFiles /\ at[f] \in 1 .. born
  BY <1>1, AtIsMade DEF MakingPlaces, WritingPlaces
<1> DEFINE p == at[f]
           batch == IF f = Creator THEN InitialEntries(f) ELSE Batch[f]
           whole == IF pc[f] = "append" THEN pages[p].entries ELSE <<>>
<1>3. batch \in Seq(Entries) /\ whole \in Seq(Entries)
  BY <1>1, <1>2, FibersAre, TheTypes DEF PageFiles
<1>4. PICK n \in 0 .. Len(batch) - 1 :
        page = [pages[p] EXCEPT !.data = TRUE, !.cut = TRUE,
                                !.entries = whole \o SubSeq(batch, 1, n)]
  BY DEF Cuts
<1> HIDE DEF batch, whole
<1>5. Len(batch) \in Nat /\ \A i \in 1 .. Len(batch) : batch[i] \in Entries
  BY <1>3, LenProperties, ElementOfSeq
<1>6. SubSeq(batch, 1, n) \in Seq(Entries)
  BY <1>5, SubSeqProperties
<1>7. whole \o SubSeq(batch, 1, n) \in Seq(Entries)
  BY <1>3, <1>6, ConcatProperties
<1> QED
  BY <1>2, <1>4, <1>7 DEF PageFiles

LEMMA CrashControl ==
  ASSUME Control, Crash
  PROVE  Control'
<1>1. /\ pc \in [Fibers -> Ended \cup Places] /\ born \in Nat
      /\ pc' = [f \in Fibers |-> IF f \in Running THEN "dead" ELSE pc[f]]
      /\ born' = born /\ holder' = {}
  BY PagesAre DEF Crash, Control, TypeOK
<1>2. pc' \in [Fibers -> Ended] /\ \A f \in Fibers : pc'[f] \in Ended
  BY <1>1 DEF Running, Ended
<1>3. Roles'
  BY <1>2 DEF Roles, Fits, Ended, MakingPlaces, WritingPlaces
<1>4. Mutex'
  BY <1>1, <1>2 DEF Mutex, Running
<1>5. Touched \subseteq Touched' /\ Second \subseteq Second'
  BY <1>1 DEF Touched, Second, Running, Ended, Early, MakingPlaces
<1>6. Footing'
  <2>1. Room' /\ born' \in 0 .. Cardinality(Pages)
    BY <1>1, <1>5, RoomKept DEF Control
  <2>2. Cardinality(holder') <= 1 /\ holder' \subseteq Fibers
    BY <1>1, FS_EmptySet
  <2>3. pc' \in [Fibers -> Ended \cup Places]
    BY <1>2
  <2> QED
    BY <1>3, <1>4, <2>1, <2>2, <2>3 DEF Footing
<1>7. /\ pages' \in [Pages -> PageFiles]
      /\ \A p \in Pages : p > born => pages'[p] = NoPage
      /\ torn' \in BOOLEAN
  <2>1. CASE UNCHANGED <<pages, torn>>
    BY <2>1 DEF Control, TypeOK, Numbered
  <2>2. CASE ~UNCHANGED <<pages, torn>>
    <3>0. PICK f \in Writers :
            /\ pc[f] \in {"append", "newPageData", "createData"} /\ torn' = TRUE
            /\ \E page \in Cuts(f) : pages' = [pages EXCEPT ![at[f]] = page]
      BY <2>2 DEF Crash
    <3>1. PICK page \in Cuts(f) : pages' = [pages EXCEPT ![at[f]] = page]
      BY <3>0
    <3>2. page \in PageFiles /\ at[f] \in Pages /\ at[f] \in 1 .. born
      BY <3>0, CutsAre
    <3>3. \A p \in Pages : p > born => p # at[f]
      BY <1>1, <3>2
    <3>4. pages \in [Pages -> PageFiles]
      BY DEF Control, TypeOK
    <3> QED
      BY <3>0, <3>1, <3>2, <3>3, <3>4 DEF Control, Numbered
  <2> QED
    BY <2>1, <2>2
<1>8. halfMade' \subseteq {"collection", "page", "overlap"}
  BY DEF Crash, Left, Control, TypeOK
<1>9. crashes' \in 0 .. MaxCrashes
  BY FibersAre DEF Crash, Control, TypeOK
<1>10. TypeOK'
  BY <1>6, <1>7, <1>8, <1>9 DEF Control, TypeOK, Crash, history, Footing
<1>11. Numbered'
  BY <1>1, <1>2, <1>7 DEF Control, Numbered, Crash, Ended, MakingPlaces,
                          WritingPlaces
<1> QED
  BY <1>6, <1>10, <1>11 DEF Control, Footing

LEMMA MakingControl ==
  ASSUME Control, NEW f \in Fibers, Making(f)
  PROVE  Control'
BY CreateIndexControl, CreatePageIndexControl, CreateDataControl, GoneControl
   DEF Making

LEMMA InitControl == Init => Control
<1> SUFFICES ASSUME Init PROVE Control
  OBVIOUS
<1>1. Roles
  BY DEF Init, Roles, Fits, MakingPlaces, WritingPlaces
<1>2. Running = {} /\ Mutex
  BY DEF Init, Running, Ended, Mutex
<1>3. Touched = {} /\ Second = {}
  BY DEF Init, Touched, Second, Early
<1>4. Room
  BY <1>3, FS_EmptySet DEF Init, Room
<1>5. Numbered
  BY DEF Init, Numbered, NoIndex, MakingPlaces, WritingPlaces
<1>6. TypeOK
  <2>1. pages \in [Pages -> PageFiles] /\ index \in Indexes
    BY NoPages, TheTypes DEF Init
  <2>2. known \in [Concats -> Indexes]
    BY TheTypes DEF Init
  <2>3. pc \in [Fibers -> Ended \cup Places] /\ at \in [Fibers -> {0} \cup Pages]
    BY DEF Init, Ended
  <2>4. /\ acked \in Seq(Seq(Entries)) /\ starts \in Seq(Nat)
        /\ Len(starts) = Len(acked) /\ answer \in [Readers -> Seq(Entries)]
    BY DEF Init
  <2>5. born \in 0 .. Cardinality(Pages) /\ crashes \in 0 .. MaxCrashes
    BY PagesAre, FibersAre DEF Init
  <2>6. holder \subseteq Fibers /\ Cardinality(holder) <= 1
    BY FS_EmptySet DEF Init
  <2>7. dir \in BOOLEAN /\ torn \in BOOLEAN /\ halfMade = {}
    BY DEF Init
  <2> QED
    BY <2>1, <2>2, <2>3, <2>4, <2>5, <2>6, <2>7 DEF TypeOK
<1> QED
  BY <1>1, <1>2, <1>4, <1>5, <1>6 DEF Control

LEMMA StutterControl == Control /\ UNCHANGED vars => Control'
BY DEF Control, TypeOK, Roles, Fits, Mutex, Quiet, Running, Room, Touched,
       Second, Numbered, vars, files, history

LEMMA NextControl == Control /\ Next => Control'
<1> SUFFICES ASSUME Control, Next PROVE Control'
  OBVIOUS
<1>1. CASE DeleteRefused
  BY <1>1, RefusedControl, FibersAre DEF DeleteRefused
<1> QED
  BY <1>1, MakingControl, CreateControl, CreateAckControl, ConcatControl,
     ReadControl, DeleteBeginControl, DeleteEndControl, CrashControl DEF Next

\* The files and the handlers are of their types, and there is a page for every
\* handler that makes one.
THEOREM TypeCorrect == Spec => []TypeOK
<1>1. Control /\ [Next]_vars => Control'
  BY NextControl, StutterControl
<1>2. Control => TypeOK
  BY DEF Control
<1> QED
  BY InitControl, <1>1, <1>2, PTL DEF Spec

-----------------------------------------------------------------------------
(* What the files hold while no creation ran beside another handler        *)

Indexed(n) == [Fresh EXCEPT !.idx = TRUE, !.order = n]
Only(p, page) == [q \in Pages |-> IF q = p THEN page ELSE NoPage]
Empty == [q \in Pages |-> NoPage]

\* The active page is full.
Full == Len(pages[index.active].entries) >= MaxPageSize

\* A concat makes a page that the index does not count yet.
Adding(c) == pc[c] \in NewPlaces \/ (pc[c] = "writeIndex" /\ at[c] # index.active)

\* A collection that is being made has one page.
Creates(f) ==
  /\ pages = Only(at[f], IF pc[f] = "createData" THEN Indexed(0) ELSE Fresh)
  /\ index = IF pc[f] = "createIndex" THEN NoIndex
             ELSE [active |-> at[f], total |-> 1,
                   count |-> Len(InitialEntries(f))]

\* What a concat knows is so, and the page it appends to is the active one or a
\* new one after it.
KnownPlaces == WritingPlaces \ {"written"}
Concatenates(c) ==
  /\ pc[c] \in KnownPlaces =>
       /\ known[c] = index /\ index # NoIndex /\ pages[index.active].data
  /\ pc[c] \in {"append", "newPage"} => at[c] = index.active
  /\ pc[c] = "append" => ~Full
  /\ pc[c] = "newPage" => Full
  /\ Adding(c) => Full /\ at[c] = born /\ at[c] > index.active
  /\ pc[c] = "newPageIndex" => pages[at[c]] = Fresh
  /\ pc[c] = "newPageData" => pages[at[c]] = Indexed(index.total)
  /\ pc[c] = "writeIndex" =>
       /\ pages[at[c]].data
       /\ Adding(c) => /\ pages[at[c]].dir /\ pages[at[c]].idx
                       /\ pages[at[c]].order = index.total
  /\ pc[c] = "written" =>
       /\ index.active = at[c] /\ pages[at[c]].data
       /\ index.count = known[c].count + Len(Batch[c])

Doing(f) ==
  /\ pc[f] \notin Ended => dir
  /\ pc[f] \in MakingPlaces => Creates(f)
  /\ pc[f] \in WritingPlaces => Concatenates(f)
  /\ pc[f] = "deleting" => /\ index = NoIndex \/ pages = Empty
                           /\ acked = <<>> /\ starts = <<>>

\* Behind an active page with room there is nothing.
TailEmpty ==
  index # NoIndex /\ pages[index.active].data /\ ~Full =>
    \A p \in Pages : p > index.active => pages[p].entries = <<>>

\* A collection that was made is there to be read and written.
Open == dir /\ \A f \in Fibers : pc[f] \notin MakingPlaces \cup {"deleting"}
Healthy == index # NoIndex /\ Whole(index.active) /\ pages[index.active].dir

Sound ==
  Quiet => /\ \A f \in Fibers : Doing(f)
           /\ ~dir => index = NoIndex /\ pages = Empty
           /\ TailEmpty
           /\ CollectionMade /\ Open => Healthy

Uncut == ~torn => \A p \in Pages : ~pages[p].cut

LEMMA PageFields ==
  /\ Fresh.dir /\ ~Fresh.idx /\ ~Fresh.data /\ ~Fresh.cut /\ Fresh.entries = <<>>
  /\ ~NoPage.dir /\ ~NoPage.idx /\ ~NoPage.data /\ ~NoPage.cut
  /\ NoPage.entries = <<>> /\ NoPage.order = 0 /\ Fresh.order = 0
  /\ \A n : LET page == Indexed(n) IN
       /\ page.dir /\ page.idx /\ ~page.data /\ ~page.cut /\ page.entries = <<>>
       /\ page.order = n
BY DEF Fresh, NoPage, Indexed

\* While it is quiet one fiber runs at a time.
LEMMA Alone ==
  ASSUME Control, Quiet, NEW f \in Fibers, pc[f] \notin Ended
  PROVE  \A g \in Fibers : g # f => pc[g] \in Ended
<1> SUFFICES ASSUME NEW g \in Fibers, g # f, pc[g] \notin Ended PROVE FALSE
  OBVIOUS
<1>1. f \in Running /\ g \in Running
  BY DEF Running
<1> QED
  BY <1>1 DEF Control, Mutex

\* ... and so it is where one can start.
LEMMA Nobody ==
  ASSUME Control, holder = {}, Creator \notin Running
  PROVE  \A g \in Fibers : pc[g] \in Ended
BY DEF Control, Mutex, Running

LEMMA CreatorRuns ==
  ASSUME Control, Creator \in Running
  PROVE  CreatorAtWork
<1>1. /\ Fits(Creator, pc[Creator]) /\ pc[Creator] \notin Ended
      /\ pc[Creator] \in Ended \cup Places
  BY FibersAre DEF Control, Roles, TypeOK, Running
<1> QED
  BY <1>1, FibersAre DEF Fits, Places, MakingPlaces, WritingPlaces,
     CreatorAtWork, Creating

\* Whoever starts quietly is alone.
LEMMA NobodyAtLock ==
  ASSUME Control, NEW f \in Fibers, Lock(f), Quiet'
  PROVE  Quiet /\ \A g \in Fibers : pc[g] \in Ended
<1>1. Quiet /\ ~CreatorAtWork /\ holder = {}
  BY DEF Lock, Quiet
<1> QED
  BY <1>1, CreatorRuns, Nobody

LEMMA NobodyAtCreate ==
  ASSUME Control, Create, Quiet'
  PROVE  Quiet /\ ~dir /\ \A g \in Fibers : pc[g] \in Ended
<1>1. Quiet /\ ~dir /\ holder = {} /\ Creator \notin Running
  BY DEF Create, Quiet, Running, Ended
<1> QED
  BY <1>1, Nobody

\* It is enough to look at the one fiber that runs.
LEMMA SoundFrom ==
  ASSUME NEW f \in Fibers, \A g \in Fibers : g # f => pc'[g] \in Ended,
         Doing(f)', TailEmpty',
         ~dir' => index' = NoIndex /\ pages' = Empty,
         CollectionMade' /\ dir' /\ pc'[f] \notin MakingPlaces \cup {"deleting"}
           => Healthy'
  PROVE  Sound'
<1>1. ASSUME NEW g \in Fibers PROVE Doing(g)'
  <2>1. CASE g = f
    BY <2>1
  <2>2. CASE g # f
    <3>1. pc'[g] \in Ended
      BY <2>2
    <3> QED
      BY <3>1 DEF Doing, Ended, MakingPlaces, WritingPlaces
  <2> QED
    BY <2>1, <2>2
<1>2. Open' => dir' /\ pc'[f] \notin MakingPlaces \cup {"deleting"}
  BY DEF Open
<1> QED
  BY <1>1, <1>2 DEF Sound

\* Where nothing is running before a step of the fiber, nor in the others.
LEMMA StillAlone ==
  ASSUME Control, Quiet, NEW f \in Fibers, pc[f] \notin Ended, OthersSame(f)
  PROVE  \A g \in Fibers : g # f => pc'[g] \in Ended
BY Alone DEF OthersSame

LEMMA IndexIn ==
  ASSUME Control
  PROVE  /\ index.active \in {0} \cup Pages /\ index.active \in Nat
         /\ index # NoIndex => index.active \in Pages /\ index.active \in 1 .. born
         /\ index.total \in Nat /\ index.count \in Nat /\ born \in Nat
<1>1. index.active \in {0} \cup Pages /\ index.total \in Nat /\ index.count \in Nat
  BY DEF Control, TypeOK, Indexes
<1>2. index # NoIndex => index.active # 0
  BY DEF Control, Numbered
<1>3. born \in Nat /\ index.active <= born
  BY PagesAre DEF Control, TypeOK, Numbered
<1> QED
  BY <1>1, <1>2, <1>3, PagesAre

-----------------------------------------------------------------------------
(* The steps of a creation keep it so                                      *)

LEMMA NotGone ==
  ASSUME Control, Sound, Quiet, NEW f \in Fibers, Gone(f)
  PROVE  FALSE
<1>1. pc[f] \in MakingPlaces /\ at[f] \in Pages
  BY AtIsMade DEF Gone, MakingPlaces
<1>2. Creates(f)
  BY <1>1 DEF Sound, Doing
<1>3. pages[at[f]].dir
  BY <1>1, <1>2, PageFields DEF Creates, Only
<1> QED
  BY <1>3 DEF Gone

LEMMA GoneSound ==
  ASSUME Control, Sound, NEW f \in Fibers, Gone(f)
  PROVE  Sound'
BY NotGone DEF Gone, Sound, Quiet

LEMMA CreateIndexSound ==
  ASSUME Control, Sound, NEW f \in Fibers, CreateIndex(f)
  PROVE  Sound'
<1> SUFFICES ASSUME Quiet PROVE Sound'
  BY DEF CreateIndex, Sound, Quiet
<1>1. /\ pc[f] \in MakingPlaces /\ pc[f] \notin Ended
      /\ at[f] \in Pages /\ at[f] # 0
  BY AtIsMade, PagesAre DEF CreateIndex, MakingPlaces, Ended
<1>2. Creates(f) /\ dir
  BY <1>1 DEF Sound, Doing
<1>3. /\ pc'[f] = "createPageIndex" /\ OthersSame(f)
      /\ \A g \in Fibers : g # f => pc'[g] \in Ended
  BY <1>1, GoOthers, StillAlone DEF CreateIndex
<1>4. pages' = pages /\ at' = at /\ dir' = dir /\ index'.active = at[f]
  BY DEF CreateIndex
<1>5. Creates(f)'
  BY <1>2, <1>3, <1>4 DEF Creates, CreateIndex, InitialEntries
<1>6. Doing(f)'
  BY <1>2, <1>3, <1>4, <1>5 DEF Doing, Ended, WritingPlaces
<1>7. TailEmpty'
  <2>1. ~pages'[at[f]].data
    BY <1>1, <1>2, <1>4, PageFields DEF Creates, Only, CreateIndex
  <2> QED
    BY <1>4, <2>1 DEF TailEmpty
<1> QED
  BY <1>2, <1>3, <1>4, <1>6, <1>7, SoundFrom DEF MakingPlaces

LEMMA CreatePageIndexSound ==
  ASSUME Control, Sound, NEW f \in Fibers, CreatePageIndex(f)
  PROVE  Sound'
<1> SUFFICES ASSUME Quiet PROVE Sound'
  BY DEF CreatePageIndex, Sound, Quiet
<1>1. /\ pc[f] \in MakingPlaces /\ pc[f] \notin Ended /\ at[f] \in Pages
  BY AtIsMade DEF CreatePageIndex, MakingPlaces, Ended
<1>2. Creates(f) /\ dir
  BY <1>1 DEF Sound, Doing
<1>3. /\ pc'[f] = "createData" /\ OthersSame(f)
      /\ \A g \in Fibers : g # f => pc'[g] \in Ended
  BY <1>1, GoOthers, StillAlone DEF CreatePageIndex
<1>4. index' = index /\ at' = at /\ dir' = dir /\ index.active = at[f]
  BY <1>2 DEF CreatePageIndex, Creates
<1>5. pages' = Only(at[f], Indexed(0))
  <2>1. pages = Only(at[f], Fresh)
    BY <1>2 DEF Creates, CreatePageIndex
  <2>2. pages' = [pages EXCEPT ![at[f]] =
                    [pages[at[f]] EXCEPT !.idx = TRUE, !.order = 0]]
    BY DEF CreatePageIndex
  <2>3. pages[at[f]] = Fresh
    BY <1>1, <2>1 DEF Only
  <2> QED
    BY <1>1, <2>1, <2>2, <2>3 DEF Only, Indexed
<1>6. Creates(f)'
  BY <1>2, <1>3, <1>4, <1>5 DEF Creates, CreatePageIndex, InitialEntries
<1>7. Doing(f)'
  BY <1>2, <1>3, <1>4, <1>6 DEF Doing, Ended, WritingPlaces
<1>8. TailEmpty'
  <2>1. ~pages'[at[f]].data
    BY <1>1, <1>5, PageFields DEF Only
  <2> QED
    BY <1>4, <2>1 DEF TailEmpty
<1> QED
  BY <1>2, <1>3, <1>4, <1>7, <1>8, SoundFrom DEF MakingPlaces

\* What a creation has made when it is done.
LEMMA CreateDataMakes ==
  ASSUME Control, Sound, Quiet, NEW f \in Fibers, CreateData(f)
  PROVE  /\ at[f] \in Pages /\ dir /\ dir' = dir /\ at' = at
         /\ index' = index /\ pages = Only(at[f], Indexed(0))
         /\ index = [active |-> at[f], total |-> 1,
                     count |-> Len(InitialEntries(f))]
         /\ pages'[at[f]] = [Indexed(0) EXCEPT !.data = TRUE,
                                               !.entries = InitialEntries(f)]
         /\ \A p \in Pages : p # at[f] => pages'[p] = NoPage
<1>1. pc[f] \in MakingPlaces /\ pc[f] \notin Ended /\ at[f] \in Pages
  BY AtIsMade DEF CreateData, MakingPlaces, Ended
<1>2. Creates(f) /\ dir
  BY <1>1 DEF Sound, Doing
<1>3. pages = Only(at[f], Indexed(0))
  BY <1>2 DEF Creates, CreateData
<1>4. pages' = [pages EXCEPT ![at[f]] =
                  [pages[at[f]] EXCEPT !.data = TRUE,
                                       !.entries = InitialEntries(f)]]
  BY DEF CreateData
<1>5. pages[at[f]] = Indexed(0)
  BY <1>1, <1>3 DEF Only
<1>6. /\ pages'[at[f]] = [Indexed(0) EXCEPT !.data = TRUE,
                                            !.entries = InitialEntries(f)]
      /\ \A p \in Pages : p # at[f] => pages'[p] = NoPage
  <2> HIDE DEF Indexed
  <2> QED
    BY <1>1, <1>3, <1>4, <1>5 DEF Only
<1> QED
  BY <1>1, <1>2, <1>3, <1>6 DEF CreateData, Creates

LEMMA CreateDataSound ==
  ASSUME Control, Sound, NEW f \in Fibers, CreateData(f)
  PROVE  Sound'
<1> SUFFICES ASSUME Quiet PROVE Sound'
  BY DEF CreateData, Sound, Quiet
<1>1. /\ at[f] \in Pages /\ dir /\ dir' = dir /\ at' = at /\ index' = index
      /\ index = [active |-> at[f], total |-> 1,
                  count |-> Len(InitialEntries(f))]
      /\ pages'[at[f]] = [Indexed(0) EXCEPT !.data = TRUE,
                                            !.entries = InitialEntries(f)]
      /\ \A p \in Pages : p # at[f] => pages'[p] = NoPage
  BY CreateDataMakes
<1>2. pc[f] \notin Ended
  BY DEF CreateData, Ended
<1>3. /\ pc'[f] \in {"created", "opened"} /\ OthersSame(f)
      /\ \A g \in Fibers : g # f => pc'[g] \in Ended
  BY <1>2, GoOthers, StillAlone DEF CreateData
<1>4. Doing(f)'
  BY <1>1, <1>3 DEF Doing, Ended, WritingPlaces, MakingPlaces
<1>5. TailEmpty'
  <2>1. \A p \in Pages : p > at[f] => pages'[p].entries = <<>>
    BY <1>1, PageFields, PagesAre
  <2> QED
    BY <1>1, <2>1 DEF TailEmpty
<1>6. Healthy'
  <2>1. index'.active = at[f] /\ index' # NoIndex
    BY <1>1 DEF NoIndex
  <2>2. pages'[at[f]].idx /\ pages'[at[f]].data /\ pages'[at[f]].dir
    BY <1>1, PageFields DEF Indexed, Fresh, NoPage
  <2> QED
    BY <2>1, <2>2 DEF Healthy, Whole
<1> QED
  BY <1>1, <1>3, <1>4, <1>5, <1>6, SoundFrom

\* Who makes the collection starts with one page.
LEMMA StartsCreation ==
  ASSUME Control, Sound, Quiet, NEW f \in Fibers, ~dir, MakeDirectory(f),
         born' \in 0 .. Cardinality(Pages), Go(f, "createIndex"),
         \A g \in Fibers : g # f => pc[g] \in Ended
  PROVE  Sound'
<1>1. /\ born + 1 \in Pages /\ at'[f] = born + 1
      /\ pages' = [pages EXCEPT ![born + 1] = Fresh]
  BY MakesPage
<1>2. index = NoIndex /\ pages = Empty /\ index' = index /\ dir'
  BY DEF Sound, MakeDirectory
<1>3. pages' = Only(born + 1, Fresh)
  BY <1>1, <1>2 DEF Empty, Only
<1>4. /\ pc'[f] = "createIndex"
      /\ \A g \in Fibers : g # f => pc'[g] \in Ended
  BY GoOthers DEF OthersSame
<1>5. Doing(f)'
  BY <1>1, <1>2, <1>3, <1>4 DEF Doing, Creates, Ended, WritingPlaces
<1>6. TailEmpty'
  BY <1>2 DEF TailEmpty
<1> QED
  BY <1>2, <1>4, <1>5, <1>6, SoundFrom DEF MakingPlaces

LEMMA CreateSound ==
  ASSUME Control, Control', Sound, Create
  PROVE  Sound'
<1> SUFFICES ASSUME Quiet' PROVE Sound'
  BY DEF Sound
<1>1. Quiet /\ ~dir /\ \A g \in Fibers : pc[g] \in Ended
  BY NobodyAtCreate
<1>2. born' \in 0 .. Cardinality(Pages) /\ Creator \in Fibers
  BY FibersAre DEF Control, TypeOK
<1> QED
  BY <1>1, <1>2, StartsCreation DEF Create

\* A step that only ends the fiber.
LEMMA EndSound ==
  ASSUME Control, Sound, NEW f \in Fibers, NEW place \in {"done", "failed"},
         Go(f, place), pc[f] # "idle" => pc[f] \notin MakingPlaces \cup {"deleting"},
         UNCHANGED <<dir, index, pages, halfMade>>,
         pc[f] \notin Ended \/ UNCHANGED <<born, at, known, acked, starts>>
  PROVE  Sound'
<1> SUFFICES ASSUME Quiet PROVE Sound'
  BY DEF Sound, Quiet
<1>1. pc'[f] = place /\ OthersSame(f)
  BY GoOthers
<1>2. pc[f] \notin MakingPlaces \cup {"deleting"}
  BY DEF MakingPlaces
<1>3. TailEmpty' = TailEmpty /\ Healthy' = Healthy
  BY DEF TailEmpty, Healthy, Full, Whole
<1>4. Open' => Open
  BY <1>1, <1>2 DEF Open, OthersSame
<1>5. ASSUME NEW g \in Fibers PROVE Doing(g)'
  <2>1. CASE pc'[g] \in Ended
    BY <2>1 DEF Doing, Ended, MakingPlaces, WritingPlaces
  <2>2. CASE pc'[g] \notin Ended
    <3>1. g # f /\ pc'[g] = pc[g] /\ pc[g] \notin Ended
      BY <1>1, <2>2 DEF OthersSame, Ended
    <3>2. UNCHANGED <<born, at, known, acked, starts>>
      BY <3>1, Alone
    <3>3. Doing(g)
      BY DEF Sound
    <3> QED
      BY <3>1, <3>2, <3>3 DEF Doing, Creates, Concatenates, Full, Adding
  <2> QED
    BY <2>1, <2>2
<1> QED
  BY <1>3, <1>4, <1>5 DEF Sound, CollectionMade

-----------------------------------------------------------------------------
(* The steps of a concat keep it so                                        *)

LEMMA BeginSound ==
  ASSUME Control, Control', Sound, NEW f \in Concats \cup Readers, Lock(f),
         IF dir THEN Go(f, "opened") /\ UNCHANGED <<files, at>>
                ELSE MakeDirectory(f) /\ Go(f, "createIndex")
  PROVE  Sound'
<1> SUFFICES ASSUME Quiet' PROVE Sound'
  BY DEF Sound
<1>1. f \in Fibers
  BY FibersAre
<1>2. Quiet /\ \A g \in Fibers : pc[g] \in Ended
  BY <1>1, NobodyAtLock
<1>3. born' \in 0 .. Cardinality(Pages)
  BY DEF Control, TypeOK
<1>4. CASE ~dir
  BY <1>1, <1>2, <1>3, <1>4, StartsCreation
<1>5. CASE dir
  <2>1. /\ pc'[f] = "opened" /\ UNCHANGED files
        /\ \A g \in Fibers : g # f => pc'[g] \in Ended
    BY <1>1, <1>2, <1>5, GoOthers DEF OthersSame
  <2>2. dir' /\ TailEmpty' = TailEmpty /\ Healthy' = Healthy
    BY <1>5, <2>1 DEF TailEmpty, Healthy, Full, Whole, files
  <2>3. Doing(f)'
    BY <2>1, <2>2 DEF Doing, Ended, MakingPlaces, WritingPlaces
  <2>4. Open
    BY <1>2, <1>5 DEF Open, Ended, MakingPlaces
  <2>5. TailEmpty /\ (CollectionMade => Healthy)
    BY <1>2, <2>4 DEF Sound
  <2>6. CollectionMade' => CollectionMade
    BY DEF CollectionMade, Lock
  <2> QED
    BY <1>1, <2>1, <2>2, <2>3, <2>5, <2>6, SoundFrom
<1> QED
  BY <1>4, <1>5

\* What a step of a concat starts from.
LEMMA AtConcat ==
  ASSUME Control, Sound, Quiet, NEW c \in Concats,
         pc[c] \in WritingPlaces \cup {"opened"}
  PROVE  /\ c \in Fibers /\ dir /\ Doing(c) /\ TailEmpty
         /\ CollectionMade => Healthy
         /\ \A g \in Fibers : g # c => pc[g] \in Ended
         /\ pc[c] \notin Ended
<1>1. c \in Fibers /\ pc[c] \notin Ended /\ pc[c] \notin MakingPlaces \cup {"deleting"}
  BY FibersAre DEF Ended, WritingPlaces, MakingPlaces
<1>2. \A g \in Fibers : g # c => pc[g] \in Ended
  BY <1>1, Alone
<1>3. Doing(c) /\ TailEmpty /\ dir
  BY <1>1 DEF Sound, Doing
<1>4. Open
  BY <1>1, <1>2, <1>3 DEF Open, Ended, MakingPlaces
<1> QED
  BY <1>1, <1>2, <1>3, <1>4 DEF Sound

LEMMA ConcatReadSound ==
  ASSUME Control, Sound, NEW c \in Concats, ConcatRead(c)
  PROVE  Sound'
<1> SUFFICES ASSUME Quiet PROVE Sound'
  BY DEF ConcatRead, Sound, Quiet
<1>1. /\ c \in Fibers /\ dir /\ TailEmpty /\ pc[c] = "opened"
      /\ CollectionMade => Healthy
      /\ \A g \in Fibers : g # c => pc[g] \in Ended
      /\ pc[c] \notin Ended
  BY AtConcat DEF ConcatRead
<1>2. CASE index = NoIndex \/ ~pages[index.active].data
  <2>1. Go(c, "failed")
    BY <1>2 DEF ConcatRead, Fail
  <2> QED
    BY <1>1, <2>1, EndSound DEF ConcatRead, files, MakingPlaces
<1>3. CASE ~(index = NoIndex \/ ~pages[index.active].data)
  <2> DEFINE place == IF Full THEN "newPage" ELSE "append"
  <2>1. /\ Go(c, place) /\ known' = [known EXCEPT ![c] = index]
        /\ at' = [at EXCEPT ![c] = index.active]
        /\ UNCHANGED <<dir, index, pages, born, halfMade>>
    BY <1>3 DEF ConcatRead, Full, files
  <2>2. /\ pc'[c] = place /\ \A g \in Fibers : g # c => pc'[g] \in Ended
    BY <1>1, <2>1, GoOthers DEF OthersSame
  <2>3. known'[c] = index /\ at'[c] = index.active
    BY <1>1, <2>1 DEF Control, TypeOK
  <2>4. Concatenates(c)'
    BY <1>3, <2>1, <2>2, <2>3
       DEF Concatenates, Full, KnownPlaces, WritingPlaces, Adding, NewPlaces
  <2>5. Doing(c)'
    BY <1>1, <2>1, <2>2, <2>4 DEF Doing, Ended, MakingPlaces
  <2>6. TailEmpty' /\ (CollectionMade' => Healthy')
    BY <1>1, <2>1 DEF TailEmpty, Healthy, Full, Whole, CollectionMade
  <2> QED
    BY <1>1, <2>1, <2>2, <2>5, <2>6, SoundFrom
<1> QED
  BY <1>2, <1>3

\* What an append does: the active page has room, and gets the entries.
LEMMA Appends ==
  ASSUME Control, Sound, Quiet, NEW c \in Concats, ConcatAppend(c)
  PROVE  /\ at[c] = index.active /\ index # NoIndex /\ index.active \in Pages
         /\ ~Full /\ pages[index.active].data /\ known[c] = index
         /\ pages'[index.active] =
              [pages[index.active] EXCEPT !.entries = Joined(index.active, Batch[c])]
         /\ \A p \in Pages : p # index.active => pages'[p] = pages[p]
         /\ \A p \in Pages : p > index.active => pages[p].entries = <<>>
<1>1. Doing(c) /\ TailEmpty /\ pc[c] = "append"
  BY AtConcat DEF ConcatAppend, WritingPlaces
<1>2. Concatenates(c)
  BY <1>1 DEF Doing, WritingPlaces
<1>3. /\ at[c] = index.active /\ index # NoIndex /\ ~Full
      /\ pages[index.active].data /\ known[c] = index
  BY <1>1, <1>2 DEF Concatenates, KnownPlaces, WritingPlaces
<1>4. index.active \in Pages
  BY <1>3, IndexIn
<1>5. PICK page \in PageFiles :
        /\ page = [pages[at[c]] EXCEPT !.entries = Joined(at[c], Batch[c])]
        /\ pages' = [pages EXCEPT ![at[c]] = page]
  BY ConcatAppendWrites
<1>6. pages \in [Pages -> PageFiles]
  BY DEF Control, TypeOK
<1>7. /\ pages'[index.active] = page
      /\ \A p \in Pages : p # index.active => pages'[p] = pages[p]
  BY <1>3, <1>4, <1>5, <1>6
<1> QED
  BY <1>1, <1>3, <1>4, <1>5, <1>7 DEF TailEmpty

LEMMA ConcatAppendSound ==
  ASSUME Control, Sound, NEW c \in Concats, ConcatAppend(c)
  PROVE  Sound'
<1> SUFFICES ASSUME Quiet PROVE Sound'
  BY DEF ConcatAppend, Sound, Quiet
<1>1. /\ c \in Fibers /\ dir /\ pc[c] \notin Ended
      /\ CollectionMade => Healthy
      /\ \A g \in Fibers : g # c => pc[g] \in Ended
  BY AtConcat DEF ConcatAppend, WritingPlaces
<1>2. /\ at[c] = index.active /\ index # NoIndex /\ index.active \in Pages
      /\ pages[index.active].data /\ known[c] = index
      /\ pages'[index.active] =
           [pages[index.active] EXCEPT !.entries = Joined(index.active, Batch[c])]
      /\ \A p \in Pages : p # index.active => pages'[p] = pages[p]
      /\ \A p \in Pages : p > index.active => pages[p].entries = <<>>
  BY Appends
<1>3. pages[index.active] \in PageFiles
  BY <1>2 DEF Control, TypeOK
<1>4. /\ pages'[index.active].data /\ pages'[index.active].idx = pages[index.active].idx
      /\ pages'[index.active].dir = pages[index.active].dir
  BY <1>2, <1>3 DEF PageFiles
<1>5. /\ UNCHANGED <<dir, index, born, at, known, halfMade>>
      /\ pc'[c] = "writeIndex" /\ \A g \in Fibers : g # c => pc'[g] \in Ended
  BY <1>1, GoOthers DEF ConcatAppend, OthersSame
<1>6. Concatenates(c)'
  BY <1>2, <1>4, <1>5
     DEF Concatenates, KnownPlaces, WritingPlaces, Adding, NewPlaces
<1>7. Doing(c)'
  BY <1>1, <1>5, <1>6 DEF Doing, Ended, MakingPlaces
<1>8. TailEmpty'
  <2>1. \A p \in Pages : p > index.active => pages'[p].entries = <<>>
    BY <1>2, PagesAre, IndexIn
  <2> QED
    BY <1>5, <2>1 DEF TailEmpty
<1>9. CollectionMade' => Healthy'
  BY <1>1, <1>4, <1>5 DEF Healthy, Whole, CollectionMade
<1> QED
  BY <1>1, <1>5, <1>7, <1>8, <1>9, SoundFrom

LEMMA ConcatNewPageSound ==
  ASSUME Control, Control', Sound, NEW c \in Concats, ConcatNewPage(c)
  PROVE  Sound'
<1> SUFFICES ASSUME Quiet PROVE Sound'
  BY DEF ConcatNewPage, Sound, Quiet
<1>1. /\ c \in Fibers /\ dir /\ pc[c] \notin Ended /\ Doing(c) /\ TailEmpty
      /\ CollectionMade => Healthy
      /\ \A g \in Fibers : g # c => pc[g] \in Ended
  BY AtConcat DEF ConcatNewPage, WritingPlaces
<1>2. Concatenates(c)
  BY <1>1 DEF Doing, WritingPlaces, ConcatNewPage
<1>3. /\ known[c] = index /\ index # NoIndex /\ pages[index.active].data
      /\ Full
  BY <1>2 DEF Concatenates, KnownPlaces, WritingPlaces, ConcatNewPage
<1>4. /\ born + 1 \in Pages /\ born' = born + 1 /\ born \in Nat
      /\ pages' = [pages EXCEPT ![born + 1] = Fresh] /\ at'[c] = born + 1
      /\ pages \in [Pages -> PageFiles]
  BY <1>1, MakesPage DEF ConcatNewPage, Control, TypeOK
<1>5. /\ UNCHANGED <<index, known, halfMade>> /\ dir'
      /\ pc'[c] = "newPageIndex" /\ \A g \in Fibers : g # c => pc'[g] \in Ended
  BY <1>1, GoOthers DEF ConcatNewPage, OthersSame, MakeDirectory
<1>6. /\ index.active \in Pages /\ index.active # born + 1 /\ born + 1 > index.active
  BY <1>3, <1>4, IndexIn
<1>7. pages'[index.active] = pages[index.active] /\ pages'[born + 1] = Fresh
  BY <1>4, <1>6
<1>8. Full'
  BY <1>3, <1>5, <1>7 DEF Full
<1>9. Concatenates(c)'
  BY <1>3, <1>4, <1>5, <1>6, <1>7, <1>8
     DEF Concatenates, KnownPlaces, WritingPlaces, Adding, NewPlaces
<1>10. Doing(c)'
  BY <1>5, <1>9 DEF Doing, Ended, MakingPlaces
<1>11. TailEmpty'
  BY <1>8 DEF TailEmpty
<1>12. CollectionMade' => Healthy'
  BY <1>1, <1>5, <1>7 DEF Healthy, Whole, CollectionMade
<1> QED
  BY <1>1, <1>5, <1>10, <1>11, <1>12, SoundFrom

\* What a concat writes in a page it adds leaves the active one as it is.
LEMMA AtNewPage ==
  ASSUME Control, Sound, Quiet, NEW c \in Concats, pc[c] \in NewPlaces
  PROVE  /\ known[c] = index /\ index # NoIndex /\ pages[index.active].data
         /\ Full /\ at[c] = born /\ at[c] > index.active /\ at[c] # index.active
         /\ at[c] \in Pages /\ index.active \in Pages
         /\ pages[at[c]] = IF pc[c] = "newPageIndex" THEN Fresh
                           ELSE Indexed(index.total)
<1>1. Doing(c) /\ c \in Fibers
  BY AtConcat DEF NewPlaces, WritingPlaces
<1>2. Concatenates(c) /\ Adding(c)
  BY <1>1 DEF Doing, WritingPlaces, NewPlaces, Adding
<1>3. /\ known[c] = index /\ index # NoIndex /\ pages[index.active].data
      /\ Full /\ at[c] = born /\ at[c] > index.active
      /\ pages[at[c]] = IF pc[c] = "newPageIndex" THEN Fresh
                        ELSE Indexed(index.total)
  BY <1>2 DEF Concatenates, KnownPlaces, WritingPlaces, NewPlaces
<1>4. at[c] \in Pages
  BY <1>1, AtIsMade DEF NewPlaces, WritingPlaces
<1>5. index.active \in Pages
  BY <1>3, IndexIn
<1>6. at[c] # index.active
  BY <1>3, <1>4, <1>5, PagesAre
<1> QED
  BY <1>3, <1>4, <1>5, <1>6

LEMMA ConcatNewPageIndexSound ==
  ASSUME Control, Sound, NEW c \in Concats, ConcatNewPageIndex(c)
  PROVE  Sound'
<1> SUFFICES ASSUME Quiet PROVE Sound'
  BY DEF ConcatNewPageIndex, Sound, Quiet
<1>1. /\ c \in Fibers /\ dir /\ pc[c] \notin Ended /\ TailEmpty
      /\ CollectionMade => Healthy
      /\ \A g \in Fibers : g # c => pc[g] \in Ended
  BY AtConcat DEF ConcatNewPageIndex, WritingPlaces
<1>2. /\ known[c] = index /\ index # NoIndex /\ pages[index.active].data
      /\ Full /\ at[c] = born /\ at[c] > index.active /\ at[c] # index.active
      /\ at[c] \in Pages /\ index.active \in Pages /\ pages[at[c]] = Fresh
  BY AtNewPage DEF ConcatNewPageIndex, NewPlaces
<1>3. /\ UNCHANGED <<dir, index, known, born, at, halfMade>>
      /\ pc'[c] = "newPageData" /\ \A g \in Fibers : g # c => pc'[g] \in Ended
  BY <1>1, GoOthers DEF ConcatNewPageIndex, OthersSame
<1>4. /\ pages'[at[c]] = Indexed(index.total)
      /\ \A p \in Pages : p # at[c] => pages'[p] = pages[p]
  <2>1. PICK page \in PageFiles :
          /\ page = [pages[at[c]] EXCEPT !.idx = TRUE, !.order = known[c].total]
          /\ pages' = [pages EXCEPT ![at[c]] = page]
    BY ConcatNewPageIndexWrites
  <2>2. page = Indexed(index.total)
    BY <1>2, <2>1 DEF Indexed
  <2>3. pages \in [Pages -> PageFiles]
    BY DEF Control, TypeOK
  <2> QED
    BY <1>2, <2>1, <2>2, <2>3
<1>5. Full' /\ pages'[index.active] = pages[index.active]
  BY <1>2, <1>3, <1>4 DEF Full
<1>6. Concatenates(c)'
  BY <1>2, <1>3, <1>4, <1>5
     DEF Concatenates, KnownPlaces, WritingPlaces, Adding, NewPlaces
<1>7. Doing(c)'
  BY <1>1, <1>3, <1>6 DEF Doing, Ended, MakingPlaces
<1>8. TailEmpty'
  BY <1>5 DEF TailEmpty
<1>9. CollectionMade' => Healthy'
  BY <1>1, <1>3, <1>5 DEF Healthy, Whole, CollectionMade
<1> QED
  BY <1>1, <1>3, <1>7, <1>8, <1>9, SoundFrom

\* The new page gets the batch.
LEMMA AddsPage ==
  ASSUME Control, Sound, Quiet, NEW c \in Concats, ConcatNewPageData(c)
  PROVE  /\ pages[at[c]] = Indexed(index.total)
         /\ pages'[at[c]] = [Indexed(index.total) EXCEPT !.data = TRUE,
                                                         !.entries = Batch[c]]
         /\ \A p \in Pages : p # at[c] => pages'[p] = pages[p]
<1>1. at[c] \in Pages /\ pages[at[c]] = Indexed(index.total)
  BY AtNewPage DEF ConcatNewPageData, NewPlaces
<1>2. PICK page \in PageFiles :
        /\ page = [pages[at[c]] EXCEPT !.data = TRUE, !.entries = Batch[c]]
        /\ pages' = [pages EXCEPT ![at[c]] = page]
  BY ConcatNewPageDataWrites
<1>3. pages \in [Pages -> PageFiles]
  BY DEF Control, TypeOK
<1> HIDE DEF Indexed
<1> QED
  BY <1>1, <1>2, <1>3

LEMMA ConcatNewPageDataSound ==
  ASSUME Control, Sound, NEW c \in Concats, ConcatNewPageData(c)
  PROVE  Sound'
<1> SUFFICES ASSUME Quiet PROVE Sound'
  BY DEF ConcatNewPageData, Sound, Quiet
<1>1. /\ c \in Fibers /\ dir /\ pc[c] \notin Ended /\ TailEmpty
      /\ CollectionMade => Healthy
      /\ \A g \in Fibers : g # c => pc[g] \in Ended
  BY AtConcat DEF ConcatNewPageData, WritingPlaces
<1>2. /\ known[c] = index /\ index # NoIndex /\ pages[index.active].data
      /\ Full /\ at[c] = born /\ at[c] > index.active /\ at[c] # index.active
      /\ at[c] \in Pages /\ index.active \in Pages
  BY AtNewPage DEF ConcatNewPageData, NewPlaces
<1>3. /\ UNCHANGED <<dir, index, known, born, at, halfMade>>
      /\ pc'[c] = "writeIndex" /\ \A g \in Fibers : g # c => pc'[g] \in Ended
  BY <1>1, GoOthers DEF ConcatNewPageData, OthersSame
<1>4. /\ pages'[at[c]] = [Indexed(index.total) EXCEPT !.data = TRUE,
                                                      !.entries = Batch[c]]
      /\ \A p \in Pages : p # at[c] => pages'[p] = pages[p]
  BY AddsPage
<1>5. Full' /\ pages'[index.active] = pages[index.active]
  BY <1>2, <1>3, <1>4 DEF Full
<1>6. /\ pages'[at[c]].dir /\ pages'[at[c]].idx /\ pages'[at[c]].data
      /\ pages'[at[c]].order = index.total
  BY <1>4 DEF Indexed, Fresh, NoPage
<1>7. Concatenates(c)'
  BY <1>2, <1>3, <1>5, <1>6
     DEF Concatenates, KnownPlaces, WritingPlaces, Adding, NewPlaces
<1>8. Doing(c)'
  BY <1>1, <1>3, <1>7 DEF Doing, Ended, MakingPlaces
<1>9. TailEmpty'
  BY <1>5 DEF TailEmpty
<1>10. CollectionMade' => Healthy'
  BY <1>1, <1>3, <1>5 DEF Healthy, Whole, CollectionMade
<1> QED
  BY <1>1, <1>3, <1>8, <1>9, <1>10, SoundFrom

\* The index is set to what a concat knows and has added.
LEMMA SetsIndex ==
  ASSUME Control, Sound, Quiet, NEW c \in Concats, ConcatWriteIndex(c)
  PROVE  /\ known[c] = index /\ index # NoIndex /\ pages[at[c]].data
         /\ index' = [active |-> at[c],
                      total |-> index.total +
                                  (IF at[c] = index.active THEN 0 ELSE 1),
                      count |-> index.count + Len(Batch[c])]
         /\ at[c] # index.active =>
              /\ at[c] = born /\ pages[at[c]].dir /\ pages[at[c]].idx
              /\ pages[at[c]].order = index.total /\ Full /\ at[c] > index.active
         /\ at[c] \in Pages /\ index.active \in Pages
<1>1. Doing(c) /\ c \in Fibers
  BY AtConcat DEF ConcatWriteIndex, WritingPlaces
<1>2. Concatenates(c) /\ (at[c] # index.active => Adding(c))
  BY <1>1 DEF Doing, WritingPlaces, ConcatWriteIndex, Adding
<1>3. known[c] = index /\ index # NoIndex /\ pages[at[c]].data
  BY <1>2 DEF Concatenates, KnownPlaces, WritingPlaces, ConcatWriteIndex
<1>4. at[c] # index.active =>
        /\ at[c] = born /\ pages[at[c]].dir /\ pages[at[c]].idx
        /\ pages[at[c]].order = index.total /\ Full /\ at[c] > index.active
  BY <1>2 DEF Concatenates, ConcatWriteIndex
<1>5. index' = [active |-> at[c],
                total |-> index.total +
                            (IF at[c] = index.active THEN 0 ELSE 1),
                count |-> index.count + Len(Batch[c])]
  BY <1>3 DEF ConcatWriteIndex
<1>6. at[c] \in Pages /\ index.active \in Pages
  BY <1>1, <1>3, AtIsMade, IndexIn DEF ConcatWriteIndex, WritingPlaces
<1> QED
  BY <1>3, <1>4, <1>5, <1>6

LEMMA ConcatWriteIndexSound ==
  ASSUME Control, Sound, NEW c \in Concats, ConcatWriteIndex(c)
  PROVE  Sound'
<1> SUFFICES ASSUME Quiet PROVE Sound'
  BY DEF ConcatWriteIndex, Sound, Quiet
<1>1. /\ c \in Fibers /\ dir /\ pc[c] \notin Ended /\ TailEmpty
      /\ CollectionMade => Healthy
      /\ \A g \in Fibers : g # c => pc[g] \in Ended
  BY AtConcat DEF ConcatWriteIndex, WritingPlaces
<1>2. /\ known[c] = index /\ index # NoIndex /\ pages[at[c]].data
      /\ index'.active = at[c] /\ index'.count = known[c].count + Len(Batch[c])
      /\ at[c] # index.active =>
           at[c] = born /\ pages[at[c]].dir /\ pages[at[c]].idx
      /\ at[c] \in Pages
  BY SetsIndex
<1>3. /\ UNCHANGED <<dir, pages, known, born, at, halfMade>>
      /\ pc'[c] = "written" /\ \A g \in Fibers : g # c => pc'[g] \in Ended
  BY <1>1, GoOthers DEF ConcatWriteIndex, OthersSame
<1>4. index' # NoIndex
  BY <1>2, PagesAre DEF NoIndex
<1>5. Concatenates(c)'
  BY <1>2, <1>3 DEF Concatenates, KnownPlaces, WritingPlaces, Adding, NewPlaces
<1>6. Doing(c)'
  BY <1>1, <1>3, <1>5 DEF Doing, Ended, MakingPlaces
<1>7. TailEmpty'
  <2>1. CASE at[c] = index.active
    BY <1>1, <1>2, <1>3, <2>1 DEF TailEmpty, Full
  <2>2. CASE at[c] # index.active
    <3>1. \A p \in Pages : p > born => pages[p] = NoPage
      BY DEF Control, Numbered
    <3> QED
      BY <1>2, <1>3, <2>2, <3>1, PageFields DEF TailEmpty
  <2> QED
    BY <2>1, <2>2
<1>8. CollectionMade' => Healthy'
  BY <1>1, <1>2, <1>3, <1>4 DEF Healthy, Whole, CollectionMade
<1> QED
  BY <1>1, <1>3, <1>6, <1>7, <1>8, SoundFrom

LEMMA ConcatSound ==
  ASSUME Control, Control', Sound, NEW c \in Concats, Concat(c)
  PROVE  Sound'
<1>1. CASE ConcatBegin(c)
  BY <1>1, BeginSound DEF ConcatBegin
<1>2. CASE ConcatAck(c)
  BY <1>2, EndSound, FibersAre DEF ConcatAck, files, MakingPlaces, Ended
<1> QED
  BY <1>1, <1>2, ConcatReadSound, ConcatAppendSound, ConcatNewPageSound,
     ConcatNewPageIndexSound, ConcatNewPageDataSound, ConcatWriteIndexSound
     DEF Concat

-----------------------------------------------------------------------------
(* Reads, deletions and deaths keep it so                                  *)

LEMMA ReadSound ==
  ASSUME Control, Control', Sound, NEW r \in Readers, Read(r)
  PROVE  Sound'
<1>1. CASE ReadBegin(r)
  BY <1>1, BeginSound DEF ReadBegin
<1>2. CASE ReadRefused(r)
  BY <1>2, EndSound, FibersAre DEF ReadRefused, files, history
<1>3. CASE ReadAnswer(r)
  <2>1. PICK place \in {"done", "failed"} : Go(r, place)
    BY <1>3 DEF ReadAnswer, Fail
  <2> QED
    BY <1>3, <2>1, EndSound, FibersAre DEF ReadAnswer, files, MakingPlaces, Ended
<1> QED
  BY <1>1, <1>2, <1>3 DEF Read

LEMMA DeleteBeginSound ==
  ASSUME Control, Sound, DeleteBegin
  PROVE  Sound'
<1> SUFFICES ASSUME Quiet' PROVE Sound'
  BY DEF Sound
<1>1. Deleter \in Fibers
  BY FibersAre
<1>2. Quiet /\ \A g \in Fibers : pc[g] \in Ended
  BY <1>1, NobodyAtLock DEF DeleteBegin
<1>3. /\ pc'[Deleter] = "deleting" /\ dir'
      /\ \A g \in Fibers : g # Deleter => pc'[g] \in Ended
  BY <1>1, <1>2, GoOthers DEF DeleteBegin, OthersSame
<1>4. /\ index' = NoIndex \/ pages' = Empty
      /\ acked' = <<>> /\ starts' = <<>>
  BY DEF DeleteBegin, Empty
<1>5. Doing(Deleter)'
  BY <1>3, <1>4 DEF Doing, MakingPlaces, WritingPlaces
<1>6. TailEmpty'
  <2>1. \A p \in Pages : Empty[p].entries = <<>>
    BY PageFields DEF Empty
  <2> QED
    BY <1>4, <2>1 DEF TailEmpty
<1> QED
  BY <1>1, <1>3, <1>5, <1>6, SoundFrom

LEMMA DeleteEndSound ==
  ASSUME Control, Sound, DeleteEnd
  PROVE  Sound'
<1> SUFFICES ASSUME Quiet PROVE Sound'
  BY DEF DeleteEnd, Sound, Quiet
<1>1. Deleter \in Fibers /\ pc[Deleter] \notin Ended
  BY FibersAre DEF DeleteEnd, Ended
<1>2. /\ pc'[Deleter] = "done" /\ ~dir' /\ index' = NoIndex /\ pages' = Empty
      /\ \A g \in Fibers : g # Deleter => pc'[g] \in Ended
  BY <1>1, GoOthers, StillAlone DEF DeleteEnd, Empty
<1>3. Doing(Deleter)'
  BY <1>2 DEF Doing, Ended, MakingPlaces, WritingPlaces
<1>4. TailEmpty'
  BY <1>2 DEF TailEmpty
<1> QED
  BY <1>1, <1>2, <1>3, <1>4, SoundFrom

\* What a death leaves of the files.
LEMMA CrashLeaves ==
  ASSUME Control, Sound, Quiet, Crash
  PROVE  /\ UNCHANGED <<dir, index, born, acked, starts, at, known, answer>>
         /\ \A f \in Fibers : pc'[f] \in Ended
         /\ ~dir => UNCHANGED pages
         /\ CollectionMade' => CollectionMade /\ Running \cap Creating = {}
                               /\ Deleter \notin Running
         /\ \A p \in Pages :
              /\ pages'[p].dir = pages[p].dir /\ pages'[p].idx = pages[p].idx
              /\ pages'[p].order = pages[p].order
              /\ pages[p].data => pages'[p].data
         /\ \/ UNCHANGED <<pages, torn>>
            \/ /\ torn'
               /\ \E f \in Writers :
                    /\ pc[f] \in {"append", "newPageData", "createData"}
                    /\ at[f] \in Pages
                    /\ \A p \in Pages : p # at[f] => pages'[p] = pages[p]
<1>1. UNCHANGED <<dir, index, born, acked, starts, at, known, answer>>
  BY DEF Crash, history
<1>2. \A f \in Fibers : pc'[f] \in Ended
  BY DEF Crash, Running, Ended
<1>3. CollectionMade' => CollectionMade /\ Running \cap Creating = {}
                         /\ Deleter \notin Running
  BY FibersAre DEF Crash, CollectionMade, Left
<1>4. CASE UNCHANGED <<pages, torn>>
  BY <1>1, <1>2, <1>3, <1>4
<1>5. CASE ~UNCHANGED <<pages, torn>>
  <2>1. PICK f \in Writers :
          /\ pc[f] \in {"append", "newPageData", "createData"} /\ torn' = TRUE
          /\ \E page \in Cuts(f) : pages' = [pages EXCEPT ![at[f]] = page]
    BY <1>5 DEF Crash
  <2>2. PICK page \in Cuts(f) : pages' = [pages EXCEPT ![at[f]] = page]
    BY <2>1
  <2>3. /\ at[f] \in Pages /\ page.dir = pages[at[f]].dir
        /\ page.idx = pages[at[f]].idx /\ page.order = pages[at[f]].order
        /\ page.data
    BY <2>1, CutsAre
  <2>4. pages \in [Pages -> PageFiles] /\ f \in Fibers /\ pc[f] \notin Ended
    BY <2>1, FibersAre DEF Control, TypeOK, Ended
  <2>5. /\ pages'[at[f]] = page
        /\ \A p \in Pages : p # at[f] => pages'[p] = pages[p]
    BY <2>2, <2>3, <2>4
  <2>6. dir
    BY <2>4 DEF Sound, Doing
  <2> QED
    BY <1>1, <1>2, <1>3, <2>1, <2>3, <2>5, <2>6
<1> QED
  BY <1>4, <1>5

LEMMA CrashSound ==
  ASSUME Control, Sound, Crash
  PROVE  Sound'
<1> SUFFICES ASSUME Quiet' PROVE Sound'
  BY DEF Sound
<1>1. Quiet
  BY DEF Quiet, Crash
<1>2. /\ UNCHANGED <<dir, index, born>> /\ \A f \in Fibers : pc'[f] \in Ended
      /\ ~dir => UNCHANGED pages
      /\ CollectionMade' => CollectionMade /\ Running \cap Creating = {}
                            /\ Deleter \notin Running
      /\ \A p \in Pages :
           /\ pages'[p].dir = pages[p].dir /\ pages'[p].idx = pages[p].idx
           /\ pages[p].data => pages'[p].data
      /\ \/ UNCHANGED <<pages, torn>>
         \/ /\ torn'
            /\ \E f \in Writers :
                 /\ pc[f] \in {"append", "newPageData", "createData"}
                 /\ at[f] \in Pages
                 /\ \A p \in Pages : p # at[f] => pages'[p] = pages[p]
  BY <1>1, CrashLeaves
<1>3. TailEmpty'
  <2>1. TailEmpty
    BY <1>1 DEF Sound
  <2>2. CASE UNCHANGED pages
    BY <1>2, <2>1, <2>2 DEF TailEmpty, Full
  <2>3. CASE ~UNCHANGED pages
    <3>1. PICK f \in Writers :
            /\ pc[f] \in {"append", "newPageData", "createData"}
            /\ at[f] \in Pages
            /\ \A p \in Pages : p # at[f] => pages'[p] = pages[p]
      BY <1>2, <2>3
    <3>2. f \in Fibers /\ Doing(f)
      BY <1>1, FibersAre DEF Sound
    <3>3. CASE pc[f] = "createData"
      <4>1. index.active = at[f] /\ pages = Only(at[f], Indexed(0))
        BY <3>2, <3>3 DEF Doing, Creates, MakingPlaces
      <4>2. \A p \in Pages : p > at[f] => pages'[p].entries = <<>>
        BY <3>1, <4>1, PagesAre, PageFields DEF Only
      <4> QED
        BY <1>2, <4>1, <4>2 DEF TailEmpty
    <3>4. CASE pc[f] = "append"
      <4>1. f \in Concats
        BY <3>2, <3>4 DEF Control, Roles, Fits, WritingPlaces
      <4>2. /\ index.active = at[f] /\ index # NoIndex /\ ~Full
            /\ pages[index.active].data
        BY <3>2, <3>4 DEF Doing, Concatenates, KnownPlaces, WritingPlaces
      <4>3. \A p \in Pages : p > at[f] => pages'[p].entries = <<>>
        BY <2>1, <3>1, <4>2, PagesAre DEF TailEmpty
      <4> QED
        BY <1>2, <4>2, <4>3 DEF TailEmpty
    <3>5. CASE pc[f] = "newPageData"
      <4>1. f \in Concats /\ pc[f] \in NewPlaces
        BY <3>2, <3>5 DEF Control, Roles, Fits, WritingPlaces, NewPlaces
      <4>2. Full /\ at[f] # index.active /\ index.active \in Pages
        BY <1>1, <4>1, AtNewPage
      <4>3. Full'
        BY <1>2, <3>1, <4>2 DEF Full
      <4> QED
        BY <4>3 DEF TailEmpty
    <3> QED
      BY <3>1, <3>3, <3>4, <3>5
  <2> QED
    BY <2>2, <2>3
<1>4. CollectionMade' /\ dir' => Healthy'
  <2> SUFFICES ASSUME CollectionMade', dir' PROVE Healthy'
    OBVIOUS
  <2>1. \A f \in Fibers : pc[f] \notin MakingPlaces \cup {"deleting"}
    <3> SUFFICES ASSUME NEW f \in Fibers, pc[f] \in MakingPlaces \cup {"deleting"}
                 PROVE  FALSE
      OBVIOUS
    <3>1. f \in Running
      BY DEF Running, Ended, MakingPlaces
    <3>2. pc[f] # "deleting"
      BY <1>2, <3>1 DEF Control, Roles, Fits
    <3> QED
      BY <1>2, <3>1, <3>2 DEF Creating, MakingPlaces
  <2>2. Healthy
    BY <1>1, <1>2, <2>1 DEF Open, Sound
  <2>3. index.active \in Pages
    BY <2>2, IndexIn DEF Healthy
  <2> QED
    BY <1>2, <2>2, <2>3 DEF Healthy, Whole
<1>5. \A f \in Fibers : Doing(f)'
  BY <1>2 DEF Doing, Ended, MakingPlaces, WritingPlaces
<1>6. ~dir' => index' = NoIndex /\ pages' = Empty
  BY <1>1, <1>2 DEF Sound
<1> QED
  BY <1>3, <1>4, <1>5, <1>6 DEF Sound, Open

LEMMA StutterSound == Sound /\ UNCHANGED vars => Sound'
BY DEF Sound, Quiet, Doing, Creates, Concatenates, Adding, Full, TailEmpty,
       CollectionMade, Open, Healthy, Whole, vars, files, history

LEMMA NextSound == Control /\ Control' /\ Sound /\ Next => Sound'
<1> SUFFICES ASSUME Control, Control', Sound, Next PROVE Sound'
  OBVIOUS
<1>1. ASSUME NEW f \in Fibers, Making(f) PROVE Sound'
  BY <1>1, CreateIndexSound, CreatePageIndexSound, CreateDataSound, GoneSound
     DEF Making
<1>2. CASE CreateAck
  BY <1>2, EndSound, FibersAre DEF CreateAck, files, MakingPlaces, Ended
<1>3. CASE DeleteRefused
  BY <1>3, EndSound, FibersAre DEF DeleteRefused, files, history
<1> QED
  BY <1>1, <1>2, <1>3, CreateSound, ConcatSound, ReadSound, DeleteBeginSound,
     DeleteEndSound, CrashSound DEF Next

LEMMA InitSound == Init => Sound
BY DEF Init, Sound, Quiet, Doing, Ended, MakingPlaces, WritingPlaces,
       TailEmpty, Open, Empty

-----------------------------------------------------------------------------
(* What is in the files, and what the steps add                            *)

Listing(pgs) == FlattenSeq([p \in Pages |-> pgs[p].entries])

LEMMA PartsAre ==
  ASSUME NEW pgs \in [Pages -> PageFiles]
  PROVE  LET parts == [p \in Pages |-> pgs[p].entries]
         IN  /\ Len(parts) = Cardinality(Pages) /\ Len(parts) \in Nat \ {0}
             /\ 1 .. Len(parts) = Pages
             /\ \A p \in Pages : parts[p] = pgs[p].entries
             /\ \A p \in 1 .. Len(parts) : parts[p] \in Seq(Entries)
<1> DEFINE parts == [p \in Pages |-> pgs[p].entries]
           n == Cardinality(Pages)
<1>1. Pages = 1 .. n /\ n \in Nat \ {0}
  BY PagesAre
<1>2. \A p \in Pages : pgs[p].entries \in Seq(Entries)
  BY DEF PageFiles
<1> HIDE DEF n
<1>3. parts \in Seq(Seq(Entries)) /\ Len(parts) = n
  <2>1. parts = [p \in 1 .. n |-> pgs[p].entries]
    BY <1>1
  <2>2. \A p \in 1 .. n : pgs[p].entries \in Seq(Entries)
    BY <1>1, <1>2
  <2> HIDE DEF parts
  <2> QED
    BY <1>1, <2>1, <2>2
<1> QED
  BY <1>1, <1>2, <1>3 DEF n

LEMMA ListingOver ==
  ASSUME NEW pgs \in [Pages -> PageFiles]
  PROVE  Listing(pgs) \in Seq(Entries)
<1> DEFINE parts == [p \in Pages |-> pgs[p].entries]
<1>1. Len(parts) \in Nat \ {0} /\ \A p \in 1 .. Len(parts) : parts[p] \in Seq(Entries)
  BY PartsAre
<1> HIDE DEF parts
<1>2. FlattenSeq(parts) \in Seq(Entries)
  BY <1>1, FlattenIn
<1> QED
  BY <1>2 DEF Listing, parts

LEMMA ListingSame ==
  ASSUME NEW pgs, NEW pgt, \A p \in Pages : pgt[p].entries = pgs[p].entries
  PROVE  Listing(pgt) = Listing(pgs)
<1>1. [p \in Pages |-> pgt[p].entries] = [p \in Pages |-> pgs[p].entries]
  OBVIOUS
<1> QED
  BY <1>1 DEF Listing

LEMMA ListingEmpty ==
  ASSUME NEW pgs \in [Pages -> PageFiles], \A p \in Pages : pgs[p].entries = <<>>
  PROVE  Listing(pgs) = <<>>
<1> DEFINE parts == [p \in Pages |-> pgs[p].entries]
<1>1. Len(parts) \in Nat \ {0} /\ \A p \in 1 .. Len(parts) : parts[p] = <<>>
  BY PartsAre
<1> HIDE DEF parts
<1>2. FlattenSeq(parts) = <<>>
  BY <1>1, FlattenEmpty
<1> QED
  BY <1>2 DEF Listing, parts

LEMMA ListingAppends ==
  ASSUME NEW pgs \in [Pages -> PageFiles], NEW pgt \in [Pages -> PageFiles],
         NEW k \in Pages, NEW b \in Seq(Entries),
         \A p \in Pages : p > k => pgs[p].entries = <<>>,
         \A p \in Pages : p # k => pgt[p].entries = pgs[p].entries,
         pgt[k].entries = pgs[k].entries \o b
  PROVE  Listing(pgt) = Listing(pgs) \o b
<1> DEFINE s == [p \in Pages |-> pgs[p].entries]
           t == [p \in Pages |-> pgt[p].entries]
<1>1. /\ Len(s) \in Nat \ {0} /\ Len(t) = Len(s) /\ 1 .. Len(s) = Pages
      /\ \A p \in 1 .. Len(s) : s[p] \in Seq(Entries)
  BY PartsAre
<1>2. /\ \A p \in Pages : p > k => s[p] = <<>> /\ t[p] = <<>>
      /\ \A p \in Pages : p # k => t[p] = s[p]
      /\ t[k] = s[k] \o b
  BY PagesAre
<1> HIDE DEF s, t
<1>3. k \in 1 .. Len(s)
  BY <1>1
<1>4. /\ \A i \in k + 1 .. Len(s) : s[i] = <<>> /\ t[i] = <<>>
      /\ \A i \in 1 .. k - 1 : t[i] = s[i]
  <2>1. ASSUME NEW i \in k + 1 .. Len(s) PROVE s[i] = <<>> /\ t[i] = <<>>
    <3>1. i \in 1 .. Len(s) /\ i > k
      BY <1>1, <1>3
    <3> QED
      BY <1>1, <1>2, <3>1
  <2>2. ASSUME NEW i \in 1 .. k - 1 PROVE t[i] = s[i]
    <3>1. i \in 1 .. Len(s) /\ i # k
      BY <1>1, <1>3
    <3> QED
      BY <1>1, <1>2, <3>1
  <2> QED
    BY <2>1, <2>2
<1>5. FlattenSeq(t) = FlattenSeq(s) \o b
  <2>1. Adds(Entries, s, t, k, b)
    BY <1>1, <1>2, <1>3, <1>4 DEF Adds
  <2> QED
    BY <2>1, FlattenAppends
<1> QED
  BY <1>5 DEF Listing, s, t

LEMMA ContentsAre ==
  /\ Contents = Listing(pages) /\ Contents' = Listing(pages')
  /\ Control => Contents \in Seq(Entries) /\ Len(Contents) \in Nat
<1>1. Contents = Listing(pages) /\ Contents' = Listing(pages')
  BY DEF Contents, Listing
<1>2. ASSUME Control PROVE Contents \in Seq(Entries)
  BY <1>1, <1>2, ListingOver DEF Control, TypeOK
<1> QED
  BY <1>1, <1>2, LenProperties

LEMMA PresentIs ==
  ASSUME Control
  PROVE  /\ IsFiniteSet(Present) /\ Cardinality(Present) \in Nat
         /\ IsFiniteSet(Present') /\ Cardinality(Present') \in Nat
<1>1. IsFiniteSet(Pages)
  BY PagesAre, FS_Interval
<1>2. Present \in SUBSET Pages /\ Present' \in SUBSET Pages
  BY DEF Present
<1>3. IsFiniteSet(Present) /\ IsFiniteSet(Present')
  BY <1>1, <1>2, FS_Subset
<1> QED
  BY <1>3, FS_CardinalityType

\* A step that leaves the entries and the directories.
LEMMA FilesSame ==
  ASSUME \A p \in Pages : /\ pages'[p].entries = pages[p].entries
                          /\ pages'[p].dir = pages[p].dir
  PROVE  Contents' = Contents /\ Present' = Present
<1>1. Contents' = Contents
  BY ListingSame, ContentsAre
<1> QED
  BY <1>1 DEF Present

\* A concat adds its batch at the end.
LEMMA AppendAdds ==
  ASSUME Control, Control', Sound, Uncut, Quiet, ~torn, NEW c \in Concats,
         ConcatAppend(c)
  PROVE  Contents' = Contents \o Batch[c] /\ Present' = Present
<1>1. /\ index.active \in Pages
      /\ pages'[index.active] =
           [pages[index.active] EXCEPT !.entries = Joined(index.active, Batch[c])]
      /\ \A p \in Pages : p # index.active => pages'[p] = pages[p]
      /\ \A p \in Pages : p > index.active => pages[p].entries = <<>>
  BY Appends
<1>2. pages \in [Pages -> PageFiles] /\ pages' \in [Pages -> PageFiles]
  BY DEF Control, TypeOK
<1>3. pages[index.active] \in PageFiles /\ ~pages[index.active].cut
  BY <1>1, <1>2 DEF Uncut
<1>4. Joined(index.active, Batch[c]) = pages[index.active].entries \o Batch[c]
  BY <1>3 DEF Joined
<1>5. /\ pages'[index.active].entries = pages[index.active].entries \o Batch[c]
      /\ pages'[index.active].dir = pages[index.active].dir
  BY <1>1, <1>3, <1>4 DEF PageFiles
<1>6. Batch[c] \in Seq(Entries)
  BY FibersAre
<1>7. Listing(pages') = Listing(pages) \o Batch[c]
  <2> DEFINE k == index.active
  <2>1. \A p \in Pages : p # k => pages'[p].entries = pages[p].entries
    BY <1>1
  <2>2. /\ k \in Pages /\ pages'[k].entries = pages[k].entries \o Batch[c]
        /\ \A p \in Pages : p > k => pages[p].entries = <<>>
    BY <1>1, <1>5
  <2> HIDE DEF k
  <2> QED
    BY <1>2, <1>6, <2>1, <2>2, ListingAppends
<1>8. Present' = Present
  BY <1>1, <1>5 DEF Present
<1> QED
  BY <1>7, <1>8, ContentsAre

LEMMA NewPageAdds ==
  ASSUME Control, Control', Sound, Quiet, NEW c \in Concats, ConcatNewPageData(c)
  PROVE  Contents' = Contents \o Batch[c] /\ Present' = Present
<1>1. /\ pages[at[c]] = Indexed(index.total)
      /\ pages'[at[c]] = [Indexed(index.total) EXCEPT !.data = TRUE,
                                                      !.entries = Batch[c]]
      /\ \A p \in Pages : p # at[c] => pages'[p] = pages[p]
  BY AddsPage
<1>2. at[c] \in Pages /\ at[c] = born
  BY AtNewPage DEF ConcatNewPageData, NewPlaces
<1>3. /\ pages[at[c]].entries = <<>> /\ pages'[at[c]].entries = Batch[c]
      /\ pages[at[c]].dir /\ pages'[at[c]].dir
  BY <1>1, PageFields DEF Indexed, Fresh, NoPage
<1>4. pages \in [Pages -> PageFiles] /\ pages' \in [Pages -> PageFiles]
  BY DEF Control, TypeOK
<1>5. Batch[c] \in Seq(Entries) /\ <<>> \o Batch[c] = Batch[c]
  BY FibersAre, ConcatEmptySeq
<1>6. \A p \in Pages : p > at[c] => pages[p].entries = <<>>
  BY <1>2, PageFields DEF Control, Numbered
<1>7. Listing(pages') = Listing(pages) \o Batch[c]
  <2> DEFINE k == at[c]
  <2>1. \A p \in Pages : p # k => pages'[p].entries = pages[p].entries
    BY <1>1
  <2>2. /\ k \in Pages /\ pages'[k].entries = pages[k].entries \o Batch[c]
        /\ \A p \in Pages : p > k => pages[p].entries = <<>>
    BY <1>2, <1>3, <1>5, <1>6
  <2> HIDE DEF k
  <2> QED
    BY <1>4, <1>5, <2>1, <2>2, ListingAppends
<1>8. Present' = Present
  BY <1>1, <1>3 DEF Present
<1> QED
  BY <1>7, <1>8, ContentsAre

\* The creation fills one page.
LEMMA CreateAdds ==
  ASSUME Control, Control', Sound, Quiet, NEW f \in Fibers, CreateData(f)
  PROVE  /\ Contents = <<>> /\ Contents' = InitialEntries(f)
         /\ Cardinality(Present') = 1
<1>1. /\ at[f] \in Pages /\ pages = Only(at[f], Indexed(0))
      /\ pages'[at[f]] = [Indexed(0) EXCEPT !.data = TRUE,
                                            !.entries = InitialEntries(f)]
      /\ \A p \in Pages : p # at[f] => pages'[p] = NoPage
  BY CreateDataMakes
<1>2. /\ pages'[at[f]].dir /\ pages'[at[f]].entries = InitialEntries(f)
  BY <1>1, PageFields DEF Indexed, Fresh, NoPage
<1>3. \A p \in Pages : pages[p].entries = <<>>
  BY <1>1, PageFields DEF Only
<1>4. pages \in [Pages -> PageFiles] /\ pages' \in [Pages -> PageFiles]
  BY DEF Control, TypeOK
<1>5. /\ InitialEntries(f) \in Seq(Entries)
      /\ <<>> \o InitialEntries(f) = InitialEntries(f)
  BY TheTypes, ConcatEmptySeq
<1>6. \A p \in Pages : p # at[f] => pages'[p].entries = pages[p].entries
  BY <1>1, <1>3, PageFields
<1>7. Contents = <<>>
  BY <1>3, <1>4, ListingEmpty, ContentsAre
<1>8. Listing(pages') = Listing(pages) \o InitialEntries(f)
  <2> DEFINE k == at[f]
             b == InitialEntries(f)
  <2>1. \A p \in Pages : p # k => pages'[p].entries = pages[p].entries
    BY <1>6
  <2>2. /\ k \in Pages /\ pages'[k].entries = pages[k].entries \o b
        /\ b \in Seq(Entries) /\ \A p \in Pages : p > k => pages[p].entries = <<>>
    BY <1>1, <1>2, <1>3, <1>5
  <2> HIDE DEF k, b
  <2>3. Listing(pages') = Listing(pages) \o b
    BY <1>4, <2>1, <2>2, ListingAppends
  <2> QED
    BY <2>3 DEF b
<1>9. Present' = {at[f]}
  BY <1>1, <1>2, PageFields DEF Present
<1>10. Contents' = InitialEntries(f)
  BY <1>5, <1>7, <1>8, ContentsAre
<1> QED
  BY <1>7, <1>9, <1>10, FS_Singleton

\* A new directory holds nothing yet.
LEMMA DirectoryAdds ==
  ASSUME Control, Control', NEW f \in Fibers, MakeDirectory(f)
  PROVE  /\ Contents' = Contents
         /\ Cardinality(Present') = Cardinality(Present) + 1
<1>1. /\ born + 1 \in Pages /\ pages[born + 1] = NoPage
      /\ pages' = [pages EXCEPT ![born + 1] = Fresh]
      /\ pages \in [Pages -> PageFiles]
  BY MakesPage DEF Control, TypeOK
<1>2. /\ pages'[born + 1] = Fresh
      /\ \A p \in Pages : p # born + 1 => pages'[p] = pages[p]
  BY <1>1
<1>3. \A p \in Pages : pages'[p].entries = pages[p].entries
  BY <1>1, <1>2, PageFields
<1>4. Contents' = Contents
  BY <1>3, ListingSame, ContentsAre
<1>5. Present' = Present \cup {born + 1} /\ born + 1 \notin Present
  BY <1>1, <1>2, PageFields DEF Present
<1> QED
  BY <1>4, <1>5, PresentIs, FS_AddElement

\* The index of a page holds no entries.
LEMMA PageIndexAdds ==
  ASSUME Control, NEW f \in Fibers,
         CreatePageIndex(f) \/ (f \in Concats /\ ConcatNewPageIndex(f))
  PROVE  Contents' = Contents /\ Present' = Present
<1>1. at[f] \in Pages /\ pages[at[f]] \in PageFiles /\ pages \in [Pages -> PageFiles]
  BY AtIsMade DEF CreatePageIndex, ConcatNewPageIndex, MakingPlaces,
                  WritingPlaces, Control, TypeOK
<1>2. PICK n : pages' = [pages EXCEPT ![at[f]] =
                           [pages[at[f]] EXCEPT !.idx = TRUE, !.order = n]]
  BY DEF CreatePageIndex, ConcatNewPageIndex
<1>3. /\ pages'[at[f]] = [pages[at[f]] EXCEPT !.idx = TRUE, !.order = n]
      /\ \A p \in Pages : p # at[f] => pages'[p] = pages[p]
  BY <1>1, <1>2
<1>4. /\ pages'[at[f]].entries = pages[at[f]].entries
      /\ pages'[at[f]].dir = pages[at[f]].dir
  BY <1>1, <1>3 DEF PageFiles
<1>5. \A p \in Pages : /\ pages'[p].entries = pages[p].entries
                       /\ pages'[p].dir = pages[p].dir
  BY <1>3, <1>4
<1> QED
  BY <1>5, FilesSame

-----------------------------------------------------------------------------
(* The index counts what is there                                          *)

\* No other fiber runs.
Sole(f) == \A g \in Fibers : g # f => pc[g] \in Ended

\* n of something, at least, and just that while no process has died.
Counts(n, m) == n <= m /\ (crashes = 0 => n = m)

\* What fiber f has written and is about to count.
DueEntries(f) == IF pc[f] = "writeIndex" THEN Len(Batch[f]) ELSE 0
DuePages(f) == IF Adding(f) THEN 1 ELSE 0

Tally(f) == /\ Counts(index.count + DueEntries(f), Len(Contents))
            /\ Counts(index.total + DuePages(f), Cardinality(Present))

Counting ==
  CollectionMade /\ ~torn /\ Open => \A f \in Fibers : Sole(f) => Tally(f)

\* Every page has its two files, unless it is being made.
PageMade(f, p) == Whole(p) \/ (pc[f] \in MakingPlaces \cup NewPlaces /\ at[f] = p)
AllMade ==
  crashes = 0 /\ CollectionMade => \A f \in Fibers : Sole(f) =>
    \A p \in Pages : pages[p].dir => PageMade(f, p)

NoTear == crashes = 0 => ~torn

Files == Uncut /\ NoTear /\ Counting /\ AllMade /\ NobodyFails

LEMMA DueIn ==
  ASSUME Control, NEW f \in Fibers
  PROVE  /\ DueEntries(f) \in Nat /\ DuePages(f) \in Nat
         /\ pc[f] \in Ended => DueEntries(f) = 0 /\ DuePages(f) = 0
         /\ crashes \in Nat
<1>1. pc[f] = "writeIndex" => f \in Concats
  BY DEF Control, Roles, Fits, WritingPlaces
<1>2. DueEntries(f) \in Nat
  BY <1>1, TheTypes DEF DueEntries
<1>3. crashes \in Nat
  BY FibersAre DEF Control, TypeOK
<1> QED
  BY <1>2, <1>3 DEF DueEntries, DuePages, Adding, NewPlaces, Ended

LEMMA QuietWhenMade == /\ CollectionMade => Quiet
                       /\ CollectionMade' => Quiet'
BY DEF CollectionMade, Quiet

\* It is enough to look at the one fiber that runs.
LEMMA CountingFrom ==
  ASSUME NEW f \in Fibers, Sole(f)',
         CollectionMade' /\ ~torn' /\ dir'
           /\ pc'[f] \notin MakingPlaces \cup {"deleting"} => Tally(f)'
  PROVE  Counting'
<1> SUFFICES ASSUME CollectionMade', ~torn', Open', NEW g \in Fibers, Sole(g)'
             PROVE  Tally(g)'
  BY DEF Counting
<1>1. Tally(f)'
  BY DEF Open
<1>2. CASE g = f
  BY <1>1, <1>2
<1>3. CASE g # f
  <2>1. pc'[f] \in Ended /\ pc'[g] \in Ended
    BY <1>3 DEF Sole
  <2>2. /\ DueEntries(f)' = 0 /\ DuePages(f)' = 0
        /\ DueEntries(g)' = 0 /\ DuePages(g)' = 0
    BY <2>1 DEF DueEntries, DuePages, Adding, NewPlaces, Ended
  <2> QED
    BY <1>1, <2>2 DEF Tally, Counts
<1> QED
  BY <1>2, <1>3

LEMMA AllMadeFrom ==
  ASSUME NEW f \in Fibers, Sole(f)',
         crashes' = 0 /\ CollectionMade' =>
           \A p \in Pages : pages'[p].dir => PageMade(f, p)'
  PROVE  AllMade'
<1> SUFFICES ASSUME crashes' = 0, CollectionMade', NEW g \in Fibers, Sole(g)',
                    NEW p \in Pages, pages'[p].dir
             PROVE  PageMade(g, p)'
  BY DEF AllMade
<1>1. PageMade(f, p)'
  OBVIOUS
<1>2. CASE g = f
  BY <1>1, <1>2
<1>3. CASE g # f
  <2>1. pc'[f] \in Ended
    BY <1>3 DEF Sole
  <2> QED
    BY <1>1, <2>1 DEF PageMade, Ended, MakingPlaces, NewPlaces
<1> QED
  BY <1>2, <1>3

\* Some fiber is alone, the one that runs if there is one.
LEMMA SomeSole ==
  ASSUME Control, Quiet
  PROVE  \E f \in Fibers : Sole(f) /\ (\A g \in Running : g = f)
<1>1. CASE Running = {}
  BY <1>1, FibersAre DEF Sole, Running
<1>2. CASE Running # {}
  <2>1. PICK f \in Fibers : pc[f] \notin Ended
    BY <1>2 DEF Running
  <2>2. \A g \in Fibers : g # f => pc[g] \in Ended
    BY <2>1, Alone
  <2> QED
    BY <2>2 DEF Sole, Running
<1> QED
  BY <1>1, <1>2

\* A step that leaves the files, of a fiber that owes nothing before and after.
LEMMA IdleTally ==
  ASSUME Control, Files, Quiet, NEW f \in Fibers, Sole(f), Sole(f)',
         pc[f] \notin MakingPlaces \cup {"deleting"},
         DueEntries(f)' = DueEntries(f), DuePages(f)' = DuePages(f),
         pc'[f] \in MakingPlaces \cup NewPlaces <=> pc[f] \in MakingPlaces \cup NewPlaces,
         pc[f] \in NewPlaces => at'[f] = at[f],
         UNCHANGED <<dir, index, pages, halfMade, torn, crashes>>
  PROVE  Counting' /\ AllMade'
<1>1. Contents' = Contents /\ Present' = Present
  BY FilesSame
<1>2. ASSUME CollectionMade, ~torn, dir PROVE Tally(f)'
  <2>1. Open
    BY <1>2 DEF Open, Sole, Ended, MakingPlaces
  <2>2. Tally(f)
    BY <1>2, <2>1 DEF Files, Counting
  <2> QED
    BY <1>1, <2>2 DEF Tally, Counts
<1>3. ASSUME crashes = 0, CollectionMade, NEW p \in Pages, pages[p].dir
      PROVE  PageMade(f, p)'
  <2>1. PageMade(f, p)
    BY <1>3 DEF Files, AllMade
  <2> QED
    BY <2>1 DEF PageMade, Whole
<1>4. Counting'
  BY <1>2, CountingFrom DEF CollectionMade
<1>5. AllMade'
  BY <1>3, AllMadeFrom DEF CollectionMade
<1> QED
  BY <1>4, <1>5

\* No page is cut but by a death.
LEMMA StepCuts ==
  ASSUME Control, Control', Next, ~Crash
  PROVE  /\ \A p \in Pages : pages'[p].cut => pages[p].cut
         /\ UNCHANGED <<torn, crashes>>
<1>1. UNCHANGED <<torn, crashes>>
  BY DEF Next, Making, CreateIndex, CreatePageIndex, CreateData, Gone, Create,
         CreateAck, Concat, ConcatBegin, ConcatRead, ConcatAppend, ConcatNewPage,
         ConcatNewPageIndex, ConcatNewPageData, ConcatWriteIndex, ConcatAck,
         Read, ReadBegin, ReadRefused, ReadAnswer, DeleteBegin, DeleteEnd,
         DeleteRefused
<1>2. ASSUME NEW p \in Pages, NEW page \in PageFiles, NEW q,
             pages' = [pages EXCEPT ![q] = page], q \in Pages,
             page.cut => pages[q].cut
      PROVE  pages'[p].cut => pages[p].cut
  BY <1>2 DEF Control, TypeOK
<1>3. ASSUME NEW p \in Pages, NEW f \in Fibers, MakeDirectory(f)
      PROVE  pages'[p].cut => pages[p].cut
  BY <1>3, MakesPage, PageFields DEF Control, TypeOK
<1>4. ASSUME NEW p \in Pages, NEW f \in Fibers,
             CreatePageIndex(f) \/ CreateData(f)
      PROVE  pages'[p].cut => pages[p].cut
  <2>1. at[f] \in Pages /\ pages[at[f]] \in PageFiles
    BY <1>4, AtIsMade DEF CreatePageIndex, CreateData, MakingPlaces
  <2>2. \A n \in Nat :
          LET page == [pages[at[f]] EXCEPT !.idx = TRUE, !.order = n]
          IN  page \in PageFiles /\ page.cut = pages[at[f]].cut
    BY <2>1 DEF PageFiles
  <2>3. LET page == [pages[at[f]] EXCEPT !.data = TRUE,
                                         !.entries = InitialEntries(f)]
        IN  page \in PageFiles /\ page.cut = pages[at[f]].cut
    BY <2>1, TheTypes DEF PageFiles
  <2>4. CASE CreatePageIndex(f)
    <3>1. pages' = [pages EXCEPT ![at[f]] =
                      [pages[at[f]] EXCEPT !.idx = TRUE, !.order = 0]]
      BY <2>4 DEF CreatePageIndex
    <3> QED
      BY <1>2, <2>1, <2>2, <3>1
  <2>5. CASE CreateData(f)
    <3>1. pages' = [pages EXCEPT ![at[f]] =
                      [pages[at[f]] EXCEPT !.data = TRUE,
                                           !.entries = InitialEntries(f)]]
      BY <2>5 DEF CreateData
    <3> QED
      BY <1>2, <2>1, <2>3, <3>1
  <2> QED
    BY <1>4, <2>4, <2>5
<1>5. ASSUME NEW p \in Pages, NEW c \in Concats,
             ConcatAppend(c) \/ ConcatNewPageIndex(c) \/ ConcatNewPageData(c)
      PROVE  pages'[p].cut => pages[p].cut
  <2>1. at[c] \in Pages /\ pages[at[c]] \in PageFiles
    BY <1>5, FibersAre, AtIsMade
       DEF ConcatAppend, ConcatNewPageIndex, ConcatNewPageData, WritingPlaces
  <2>2. PICK page \in PageFiles : /\ pages' = [pages EXCEPT ![at[c]] = page]
                                  /\ page.cut = pages[at[c]].cut
    <3>1. CASE ConcatAppend(c)
      BY <2>1, <3>1, ConcatAppendWrites DEF PageFiles
    <3>2. CASE ConcatNewPageIndex(c)
      BY <2>1, <3>2, ConcatNewPageIndexWrites DEF PageFiles
    <3>3. CASE ConcatNewPageData(c)
      BY <2>1, <3>3, ConcatNewPageDataWrites DEF PageFiles
    <3> QED
      BY <1>5, <3>1, <3>2, <3>3
  <2> QED
    BY <1>2, <2>1, <2>2
<1>6. ASSUME NEW p \in Pages PROVE pages'[p].cut => pages[p].cut
  <2>1. CASE UNCHANGED pages
    BY <2>1
  <2>2. CASE \E f \in Fibers : MakeDirectory(f)
    BY <1>3, <2>2
  <2>3. CASE \E f \in Fibers : CreatePageIndex(f) \/ CreateData(f)
    BY <1>4, <2>3
  <2>4. CASE \E c \in Concats :
               ConcatAppend(c) \/ ConcatNewPageIndex(c) \/ ConcatNewPageData(c)
    BY <1>5, <2>4
  <2>5. CASE pages' = Empty
    BY <2>5, PageFields DEF Empty
  <2>6. ASSUME NEW f \in Fibers, Making(f)
        PROVE  UNCHANGED pages \/ CreatePageIndex(f) \/ CreateData(f)
    BY <2>6 DEF Making, CreateIndex, Gone, files
  <2>7. ASSUME NEW c \in Concats, Concat(c)
        PROVE  \/ UNCHANGED pages \/ MakeDirectory(c)
               \/ ConcatAppend(c) \/ ConcatNewPageIndex(c) \/ ConcatNewPageData(c)
    BY <2>7 DEF Concat, ConcatBegin, ConcatRead, ConcatNewPage, ConcatWriteIndex,
                ConcatAck, files
  <2>8. ASSUME NEW r \in Readers, Read(r)
        PROVE  UNCHANGED pages \/ MakeDirectory(r)
    BY <2>8 DEF Read, ReadBegin, ReadRefused, ReadAnswer, files
  <2>9. Create => MakeDirectory(Creator)
    BY DEF Create
  <2>10. CreateAck \/ DeleteRefused => UNCHANGED pages
    BY DEF CreateAck, DeleteRefused, files
  <2>11. DeleteBegin \/ DeleteEnd => UNCHANGED pages \/ pages' = Empty
    BY DEF DeleteBegin, DeleteEnd, Empty
  <2> QED
    BY <2>1, <2>2, <2>3, <2>4, <2>5, <2>6, <2>7, <2>8, <2>9, <2>10, <2>11,
       FibersAre DEF Next
<1> QED
  BY <1>1, <1>6

LEMMA StepTears ==
  ASSUME Control, Control', Files, Next
  PROVE  Uncut' /\ NoTear'
<1>1. CASE ~Crash
  BY <1>1, StepCuts DEF Files, Uncut, NoTear
<1>2. CASE Crash
  <2>1. crashes' # 0
    BY <1>2, FibersAre DEF Crash, Control, TypeOK
  <2>2. UNCHANGED <<pages, torn>> \/ torn'
    BY <1>2 DEF Crash
  <2> QED
    BY <2>1, <2>2 DEF Files, Uncut, NoTear
<1> QED
  BY <1>1, <1>2

\* A fiber that goes on has not failed.
LEMMA GoesOnFails ==
  ASSUME Control, Files, NEW f \in Fibers, NEW place, Go(f, place),
         place # "failed", crashes' = crashes, halfMade \subseteq halfMade'
  PROVE  NobodyFails'
<1>1. pc'[f] = place /\ OthersSame(f)
  BY GoOthers
<1>2. CollectionMade' => CollectionMade
  BY DEF CollectionMade
<1> QED
  BY <1>1, <1>2 DEF Files, NobodyFails, OthersSame

-----------------------------------------------------------------------------
(* ... through a creation                                                  *)

\* While the collection is being made its one page is unfinished.
LEMMA MakingFiles ==
  ASSUME Control', Sound', NEW f \in Fibers, Sole(f)', pc'[f] \in MakingPlaces
  PROVE  Counting' /\ AllMade'
<1>1. Counting'
  BY CountingFrom
<1>2. ASSUME CollectionMade', NEW p \in Pages, pages'[p].dir
      PROVE  PageMade(f, p)'
  <2>1. Creates(f)'
    BY <1>2, QuietWhenMade DEF Sound, Doing
  <2>2. p = at'[f]
    BY <1>2, <2>1, PageFields DEF Creates, Only
  <2> QED
    BY <2>2 DEF PageMade
<1> QED
  BY <1>1, <1>2, AllMadeFrom

\* Where nothing was made there is nothing to count.
LEMMA NotMade ==
  ASSUME ~Quiet'
  PROVE  Counting' /\ AllMade' /\ NobodyFails'
BY QuietWhenMade DEF Counting, AllMade, NobodyFails

LEMMA SoleStays ==
  ASSUME Control, Quiet, NEW f \in Fibers, pc[f] \notin Ended, NEW place,
         Go(f, place)
  PROVE  Sole(f) /\ Sole(f)' /\ pc'[f] = place
BY Alone, GoOthers DEF OthersSame, Sole

LEMMA CreateIndexFiles ==
  ASSUME Control, Control', Sound, Sound', Files, NEW f \in Fibers,
         CreateIndex(f) \/ CreatePageIndex(f)
  PROVE  Counting' /\ AllMade' /\ NobodyFails'
<1>1. CASE ~Quiet'
  BY <1>1, NotMade
<1>2. CASE Quiet'
  <2>1. PICK place \in {"createPageIndex", "createData"} : Go(f, place)
    BY DEF CreateIndex, CreatePageIndex
  <2>2. Quiet /\ pc[f] \notin Ended /\ crashes' = crashes /\ halfMade' = halfMade
    BY <1>2 DEF CreateIndex, CreatePageIndex, Quiet, Ended
  <2>3. Sole(f)' /\ pc'[f] = place
    BY <2>1, <2>2, SoleStays
  <2>4. place \in MakingPlaces /\ place # "failed"
    BY DEF MakingPlaces
  <2>5. NobodyFails'
    BY <2>1, <2>2, <2>4, GoesOnFails
  <2> QED
    BY <2>3, <2>4, <2>5, MakingFiles
<1> QED
  BY <1>1, <1>2

LEMMA CreateDataFiles ==
  ASSUME Control, Control', Sound, Files, NEW f \in Fibers, CreateData(f)
  PROVE  Counting' /\ AllMade' /\ NobodyFails'
<1>1. CASE ~Quiet'
  BY <1>1, NotMade
<1>2. CASE Quiet'
  <2>1. PICK place \in {"created", "opened"} : Go(f, place)
    BY DEF CreateData
  <2>2. Quiet /\ pc[f] \notin Ended /\ crashes' = crashes /\ halfMade' = halfMade
    BY <1>2 DEF CreateData, Quiet, Ended
  <2>3. Sole(f)' /\ pc'[f] = place
    BY <2>1, <2>2, SoleStays
  <2>4. /\ at[f] \in Pages /\ index' = index
        /\ index = [active |-> at[f], total |-> 1,
                    count |-> Len(InitialEntries(f))]
        /\ pages'[at[f]] = [Indexed(0) EXCEPT !.data = TRUE,
                                              !.entries = InitialEntries(f)]
        /\ \A p \in Pages : p # at[f] => pages'[p] = NoPage
    BY <2>2, CreateDataMakes
  <2>5. Contents' = InitialEntries(f) /\ Cardinality(Present') = 1
    BY <2>2, CreateAdds
  <2>6. DueEntries(f)' = 0 /\ DuePages(f)' = 0
    BY <2>3 DEF DueEntries, DuePages, Adding, NewPlaces
  <2>7. Tally(f)'
    <3>1. Len(InitialEntries(f)) \in Nat
      BY TheTypes
    <3> QED
      BY <2>4, <2>5, <2>6, <3>1 DEF Tally, Counts
  <2>8. ASSUME NEW p \in Pages, pages'[p].dir PROVE PageMade(f, p)'
    <3>1. p = at[f]
      BY <2>4, <2>8, PageFields
    <3>2. pages'[at[f]].idx /\ pages'[at[f]].data
      BY <2>4, PageFields DEF Indexed, Fresh, NoPage
    <3> QED
      BY <3>1, <3>2 DEF PageMade, Whole
  <2>9. NobodyFails'
    BY <2>1, <2>2, GoesOnFails
  <2> QED
    BY <2>3, <2>7, <2>8, <2>9, CountingFrom, AllMadeFrom
<1> QED
  BY <1>1, <1>2

LEMMA GoneFiles ==
  ASSUME Control, Sound, Files, NEW f \in Fibers, Gone(f)
  PROVE  Counting' /\ AllMade' /\ NobodyFails'
BY NotGone, NotMade DEF Gone, Quiet

LEMMA CreateFiles ==
  ASSUME Control, Control', Sound', Files, Create
  PROVE  Counting' /\ AllMade' /\ NobodyFails'
<1>1. CASE ~Quiet'
  BY <1>1, NotMade
<1>2. CASE Quiet'
  <2>1. \A g \in Fibers : pc[g] \in Ended
    BY <1>2, NobodyAtCreate
  <2>2. Creator \in Fibers /\ Go(Creator, "createIndex") /\ crashes' = crashes
        /\ halfMade \subseteq halfMade'
    BY FibersAre DEF Create
  <2>3. Sole(Creator)' /\ pc'[Creator] = "createIndex"
    BY <2>1, <2>2, GoOthers DEF Sole, OthersSame
  <2>4. NobodyFails'
    BY <2>2, GoesOnFails
  <2> QED
    BY <2>2, <2>3, <2>4, MakingFiles DEF MakingPlaces
<1> QED
  BY <1>1, <1>2

\* A fiber that owes nothing ends, and leaves the files.
LEMMA EndFiles ==
  ASSUME Control, Files, Quiet, NEW f \in Fibers, NEW place \in {"done", "failed"},
         Go(f, place), pc[f] \in {"opened", "created", "written"},
         UNCHANGED <<dir, index, pages, halfMade, torn, crashes>>
  PROVE  Counting' /\ AllMade'
<1>1. pc[f] \notin Ended /\ pc[f] \notin MakingPlaces \cup {"deleting"}
      /\ pc[f] \notin NewPlaces /\ pc[f] # "writeIndex"
  BY DEF Ended, MakingPlaces, NewPlaces
<1>2. Sole(f) /\ Sole(f)' /\ pc'[f] = place
  BY <1>1, SoleStays
<1>3. /\ DueEntries(f) = 0 /\ DuePages(f) = 0
      /\ DueEntries(f)' = 0 /\ DuePages(f)' = 0
      /\ pc'[f] \notin MakingPlaces \cup NewPlaces
  BY <1>1, <1>2 DEF DueEntries, DuePages, Adding, NewPlaces, MakingPlaces
<1> QED
  BY <1>1, <1>2, <1>3, IdleTally

LEMMA CreateAckFiles ==
  ASSUME Control, Files, CreateAck
  PROVE  Counting' /\ AllMade' /\ NobodyFails'
<1>1. /\ Creator \in Fibers /\ Go(Creator, "done")
      /\ UNCHANGED <<dir, index, pages, halfMade, torn, crashes>>
  BY FibersAre DEF CreateAck, files
<1>2. NobodyFails'
  BY <1>1, GoesOnFails
<1>3. CASE Quiet
  <2>1. Counting' /\ AllMade'
    BY <1>1, <1>3, EndFiles DEF CreateAck
  <2> QED
    BY <1>2, <2>1
<1>4. CASE ~Quiet
  BY <1>1, <1>4, NotMade DEF Quiet
<1> QED
  BY <1>3, <1>4

-----------------------------------------------------------------------------
(* ... through a concat                                                    *)

LEMMA BeginFiles ==
  ASSUME Control, Control', Sound, Sound', Files, NEW f \in Concats \cup Readers,
         Lock(f),
         IF dir THEN Go(f, "opened") /\ UNCHANGED <<files, at>>
                ELSE MakeDirectory(f) /\ Go(f, "createIndex"),
         UNCHANGED <<known, history, torn, crashes>>
  PROVE  Counting' /\ AllMade' /\ NobodyFails'
<1>1. CASE ~Quiet'
  BY <1>1, NotMade
<1>2. CASE Quiet'
  <2> DEFINE place == IF dir THEN "opened" ELSE "createIndex"
  <2>1. f \in Fibers /\ Go(f, place) /\ pc[f] = "idle"
    BY FibersAre DEF Lock
  <2>2. Quiet /\ \A g \in Fibers : pc[g] \in Ended
    BY <1>2, <2>1, NobodyAtLock
  <2>3. pc'[f] = place /\ Sole(f) /\ Sole(f)'
    BY <2>1, <2>2, GoOthers DEF Sole, OthersSame
  <2>4. halfMade' = halfMade
    BY <1>2 DEF Lock, Quiet
  <2>5. NobodyFails'
    BY <2>1, <2>4, GoesOnFails
  <2>6. CASE dir
    <3>1. /\ DueEntries(f) = 0 /\ DuePages(f) = 0
          /\ DueEntries(f)' = 0 /\ DuePages(f)' = 0
          /\ pc'[f] \notin MakingPlaces \cup NewPlaces
          /\ pc[f] \notin MakingPlaces \cup NewPlaces \cup {"deleting"}
      BY <2>1, <2>3, <2>6 DEF DueEntries, DuePages, Adding, NewPlaces, MakingPlaces
    <3>2. UNCHANGED <<dir, index, pages, halfMade, torn, crashes>>
      BY <2>4, <2>6 DEF files
    <3> QED
      BY <2>1, <2>2, <2>3, <2>5, <3>1, <3>2, IdleTally
  <2>7. CASE ~dir
    BY <2>1, <2>3, <2>5, <2>7, MakingFiles DEF MakingPlaces
  <2> QED
    BY <2>6, <2>7
<1> QED
  BY <1>1, <1>2

LEMMA ConcatReadFiles ==
  ASSUME Control, Sound, Files, NEW c \in Concats, ConcatRead(c)
  PROVE  Counting' /\ AllMade' /\ NobodyFails'
<1>1. CASE ~Quiet
  BY <1>1, NotMade DEF Quiet, ConcatRead
<1>2. CASE Quiet
  <2>1. /\ c \in Fibers /\ pc[c] = "opened" /\ pc[c] \notin Ended
        /\ UNCHANGED <<dir, index, pages, halfMade, torn, crashes>>
    BY FibersAre DEF ConcatRead, files, Ended
  <2>2. CollectionMade => Healthy
    BY <1>2, <2>1, AtConcat
  <2>3. CASE index = NoIndex \/ ~pages[index.active].data
    <3>1. Go(c, "failed") /\ ~CollectionMade'
      BY <2>1, <2>2, <2>3 DEF ConcatRead, Fail, Healthy, Whole, CollectionMade
    <3> QED
      BY <3>1 DEF Counting, AllMade, NobodyFails
  <2>4. CASE ~(index = NoIndex \/ ~pages[index.active].data)
    <3>1. PICK place \in {"newPage", "append"} : Go(c, place)
      BY <2>4 DEF ConcatRead
    <3>2. Sole(c) /\ Sole(c)' /\ pc'[c] = place
      BY <1>2, <2>1, <3>1, SoleStays
    <3>3. /\ DueEntries(c) = 0 /\ DuePages(c) = 0
          /\ DueEntries(c)' = 0 /\ DuePages(c)' = 0
          /\ pc'[c] \notin MakingPlaces \cup NewPlaces
          /\ pc[c] \notin MakingPlaces \cup NewPlaces \cup {"deleting"}
      BY <2>1, <3>2 DEF DueEntries, DuePages, Adding, NewPlaces, MakingPlaces
    <3>4. Counting' /\ AllMade'
      BY <1>2, <2>1, <3>2, <3>3, IdleTally
    <3>5. NobodyFails'
      BY <2>1, <3>1, GoesOnFails
    <3> QED
      BY <3>4, <3>5
  <2> QED
    BY <2>3, <2>4
<1> QED
  BY <1>1, <1>2

\* What a concat starts from that writes.
LEMMA TallyBefore ==
  ASSUME Control, Sound, Files, Quiet, NEW c \in Concats, pc[c] \in WritingPlaces
  PROVE  /\ c \in Fibers /\ pc[c] \notin Ended /\ Sole(c)
         /\ CollectionMade /\ ~torn => Tally(c)
         /\ crashes = 0 /\ CollectionMade =>
              \A p \in Pages : pages[p].dir => PageMade(c, p)
         /\ index.count \in Nat /\ index.total \in Nat
         /\ Len(Batch[c]) \in Nat /\ Len(Contents) \in Nat
         /\ Cardinality(Present) \in Nat
         /\ Contents \in Seq(Entries) /\ Batch[c] \in Seq(Entries)
<1>1. /\ c \in Fibers /\ dir /\ pc[c] \notin Ended
      /\ \A g \in Fibers : g # c => pc[g] \in Ended
  BY AtConcat
<1>2. Sole(c) /\ Open
  BY <1>1 DEF Sole, Open, Ended, MakingPlaces, WritingPlaces
<1> QED
  BY <1>1, <1>2, IndexIn, TheTypes, PresentIs, ContentsAre, FibersAre
     DEF Files, Counting, AllMade

LEMMA ConcatAppendFiles ==
  ASSUME Control, Control', Sound, Files, NEW c \in Concats, ConcatAppend(c)
  PROVE  Counting' /\ AllMade' /\ NobodyFails'
<1>1. CASE ~Quiet
  BY <1>1, NotMade DEF Quiet, ConcatAppend
<1>2. CASE Quiet
  <2>1. /\ c \in Fibers /\ Go(c, "writeIndex") /\ pc[c] = "append"
        /\ UNCHANGED <<dir, index, at, halfMade, torn, crashes>>
    BY FibersAre DEF ConcatAppend
  <2>2. /\ pc[c] \notin Ended /\ (CollectionMade /\ ~torn => Tally(c))
        /\ crashes = 0 /\ CollectionMade =>
             \A p \in Pages : pages[p].dir => PageMade(c, p)
        /\ index.count \in Nat /\ index.total \in Nat
        /\ Len(Batch[c]) \in Nat /\ Len(Contents) \in Nat
        /\ Contents \in Seq(Entries) /\ Batch[c] \in Seq(Entries)
    BY <1>2, <2>1, TallyBefore DEF WritingPlaces
  <2>3. Sole(c)' /\ pc'[c] = "writeIndex"
    BY <1>2, <2>1, <2>2, SoleStays
  <2>4. /\ at[c] = index.active /\ index.active \in Pages
        /\ pages'[index.active] =
             [pages[index.active] EXCEPT !.entries = Joined(index.active, Batch[c])]
        /\ \A p \in Pages : p # index.active => pages'[p] = pages[p]
    BY <1>2, Appends
  <2>5. /\ DueEntries(c) = 0 /\ DuePages(c) = 0
        /\ DueEntries(c)' = Len(Batch[c]) /\ DuePages(c)' = 0
    BY <2>1, <2>3, <2>4 DEF DueEntries, DuePages, Adding, NewPlaces
  <2>6. ASSUME CollectionMade, ~torn PROVE Tally(c)'
    <3>1. Contents' = Contents \o Batch[c] /\ Present' = Present
      BY <1>2, <2>6, AppendAdds DEF Files
    <3>2. Len(Contents') = Len(Contents) + Len(Batch[c])
      BY <2>2, <3>1, ConcatProperties
    <3>3. /\ Counts(index.count, Len(Contents))
          /\ Counts(index.total + DuePages(c), Cardinality(Present))
      BY <2>2, <2>5, <2>6 DEF Tally
    <3>4. Counts(index.count + Len(Batch[c]), Len(Contents'))
      BY <2>2, <3>2, <3>3 DEF Counts
    <3> QED
      BY <2>1, <2>5, <3>1, <3>3, <3>4 DEF Tally, Counts
  <2>7. ASSUME crashes = 0, CollectionMade, NEW p \in Pages, pages'[p].dir
        PROVE  PageMade(c, p)'
    <3>1. pages[p] \in PageFiles
      BY DEF Control, TypeOK
    <3>2. pages'[p].idx = pages[p].idx /\ pages'[p].data = pages[p].data
          /\ pages'[p].dir = pages[p].dir
      BY <2>4, <3>1 DEF PageFiles
    <3>3. Whole(p)
      BY <2>1, <2>2, <2>7, <3>2 DEF PageMade, MakingPlaces, NewPlaces
    <3> QED
      BY <3>2, <3>3 DEF PageMade, Whole
  <2>8. NobodyFails'
    BY <2>1, GoesOnFails
  <2>9. Counting'
    BY <2>1, <2>3, <2>6, CountingFrom DEF CollectionMade
  <2>10. AllMade'
    BY <2>1, <2>3, <2>7, AllMadeFrom DEF CollectionMade
  <2> QED
    BY <2>8, <2>9, <2>10
<1> QED
  BY <1>1, <1>2

LEMMA ConcatNewPageFiles ==
  ASSUME Control, Control', Sound, Files, NEW c \in Concats, ConcatNewPage(c)
  PROVE  Counting' /\ AllMade' /\ NobodyFails'
<1>1. CASE ~Quiet
  BY <1>1, NotMade DEF Quiet, ConcatNewPage
<1>2. CASE Quiet
  <2>1. /\ c \in Fibers /\ Go(c, "newPageIndex") /\ pc[c] = "newPage"
        /\ MakeDirectory(c) /\ UNCHANGED <<index, halfMade, torn, crashes>>
    BY FibersAre DEF ConcatNewPage, MakeDirectory
  <2>2. /\ pc[c] \notin Ended /\ (CollectionMade /\ ~torn => Tally(c))
        /\ crashes = 0 /\ CollectionMade =>
             \A p \in Pages : pages[p].dir => PageMade(c, p)
        /\ index.total \in Nat /\ Cardinality(Present) \in Nat
        /\ index.count \in Nat
    BY <1>2, <2>1, TallyBefore DEF WritingPlaces
  <2>3. Sole(c)' /\ pc'[c] = "newPageIndex"
    BY <1>2, <2>1, <2>2, SoleStays
  <2>4. /\ DueEntries(c) = 0 /\ DuePages(c) = 0
        /\ DueEntries(c)' = 0 /\ DuePages(c)' = 1
    BY <2>1, <2>3 DEF DueEntries, DuePages, Adding, NewPlaces
  <2>5. ASSUME CollectionMade, ~torn PROVE Tally(c)'
    <3>1. /\ Contents' = Contents
          /\ Cardinality(Present') = Cardinality(Present) + 1
      BY <2>1, DirectoryAdds
    <3> QED
      BY <2>1, <2>2, <2>4, <2>5, <3>1 DEF Tally, Counts
  <2>6. ASSUME crashes = 0, CollectionMade, NEW p \in Pages, pages'[p].dir
        PROVE  PageMade(c, p)'
    <3>1. /\ born + 1 \in Pages /\ at'[c] = born + 1
          /\ pages' = [pages EXCEPT ![born + 1] = Fresh]
          /\ pages \in [Pages -> PageFiles]
      BY <2>1, MakesPage DEF Control, TypeOK
    <3>2. CASE p = born + 1
      BY <2>3, <3>1, <3>2 DEF PageMade, NewPlaces
    <3>3. CASE p # born + 1
      <4>1. pages'[p] = pages[p]
        BY <3>1, <3>3
      <4>2. Whole(p)
        BY <2>1, <2>2, <2>6, <4>1 DEF PageMade, MakingPlaces, NewPlaces
      <4> QED
        BY <4>1, <4>2 DEF PageMade, Whole
    <3> QED
      BY <3>2, <3>3
  <2>7. NobodyFails'
    BY <2>1, GoesOnFails
  <2>8. Counting'
    BY <2>1, <2>3, <2>5, CountingFrom DEF CollectionMade
  <2>9. AllMade'
    BY <2>1, <2>3, <2>6, AllMadeFrom DEF CollectionMade
  <2> QED
    BY <2>7, <2>8, <2>9
<1> QED
  BY <1>1, <1>2

LEMMA ConcatNewPageIndexFiles ==
  ASSUME Control, Control', Sound, Files, NEW c \in Concats, ConcatNewPageIndex(c)
  PROVE  Counting' /\ AllMade' /\ NobodyFails'
<1>1. CASE ~Quiet
  BY <1>1, NotMade DEF Quiet, ConcatNewPageIndex
<1>2. CASE Quiet
  <2>1. /\ c \in Fibers /\ Go(c, "newPageData") /\ pc[c] = "newPageIndex"
        /\ UNCHANGED <<dir, index, at, halfMade, torn, crashes>>
    BY FibersAre DEF ConcatNewPageIndex
  <2>2. /\ pc[c] \notin Ended /\ (CollectionMade /\ ~torn => Tally(c))
        /\ crashes = 0 /\ CollectionMade =>
             \A p \in Pages : pages[p].dir => PageMade(c, p)
    BY <1>2, <2>1, TallyBefore DEF WritingPlaces
  <2>3. Sole(c)' /\ pc'[c] = "newPageData"
    BY <1>2, <2>1, <2>2, SoleStays
  <2>4. /\ DueEntries(c) = 0 /\ DuePages(c) = 1
        /\ DueEntries(c)' = 0 /\ DuePages(c)' = 1
    BY <2>1, <2>3 DEF DueEntries, DuePages, Adding, NewPlaces
  <2>5. ASSUME CollectionMade, ~torn PROVE Tally(c)'
    <3>1. Contents' = Contents /\ Present' = Present
      BY <2>1, PageIndexAdds
    <3> QED
      BY <2>1, <2>2, <2>4, <2>5, <3>1 DEF Tally, Counts
  <2>6. ASSUME crashes = 0, CollectionMade, NEW p \in Pages, pages'[p].dir
        PROVE  PageMade(c, p)'
    <3>1. CASE p = at[c]
      BY <2>1, <2>3, <3>1 DEF PageMade, NewPlaces
    <3>2. CASE p # at[c]
      <4>1. pages'[p] = pages[p]
        BY <3>2, ConcatNewPageIndexWrites DEF Control, TypeOK
      <4>2. Whole(p)
        BY <2>2, <2>6, <3>2, <4>1 DEF PageMade
      <4> QED
        BY <4>1, <4>2 DEF PageMade, Whole
    <3> QED
      BY <3>1, <3>2
  <2>7. NobodyFails'
    BY <2>1, GoesOnFails
  <2>8. Counting'
    BY <2>1, <2>3, <2>5, CountingFrom DEF CollectionMade
  <2>9. AllMade'
    BY <2>1, <2>3, <2>6, AllMadeFrom DEF CollectionMade
  <2> QED
    BY <2>7, <2>8, <2>9
<1> QED
  BY <1>1, <1>2

LEMMA ConcatNewPageDataFiles ==
  ASSUME Control, Control', Sound, Files, NEW c \in Concats, ConcatNewPageData(c)
  PROVE  Counting' /\ AllMade' /\ NobodyFails'
<1>1. CASE ~Quiet
  BY <1>1, NotMade DEF Quiet, ConcatNewPageData
<1>2. CASE Quiet
  <2>1. /\ c \in Fibers /\ Go(c, "writeIndex") /\ pc[c] = "newPageData"
        /\ UNCHANGED <<dir, index, at, halfMade, torn, crashes>>
    BY FibersAre DEF ConcatNewPageData
  <2>2. /\ pc[c] \notin Ended /\ (CollectionMade /\ ~torn => Tally(c))
        /\ crashes = 0 /\ CollectionMade =>
             \A p \in Pages : pages[p].dir => PageMade(c, p)
        /\ index.count \in Nat /\ Len(Batch[c]) \in Nat /\ Len(Contents) \in Nat
        /\ Contents \in Seq(Entries) /\ Batch[c] \in Seq(Entries)
    BY <1>2, <2>1, TallyBefore DEF WritingPlaces
  <2>3. Sole(c)' /\ pc'[c] = "writeIndex"
    BY <1>2, <2>1, <2>2, SoleStays
  <2>4. at[c] # index.active
    BY <1>2, <2>1, AtNewPage DEF NewPlaces
  <2>5. /\ DueEntries(c) = 0 /\ DuePages(c) = 1
        /\ DueEntries(c)' = Len(Batch[c]) /\ DuePages(c)' = 1
    BY <2>1, <2>3, <2>4 DEF DueEntries, DuePages, Adding, NewPlaces
  <2>6. ASSUME CollectionMade, ~torn PROVE Tally(c)'
    <3>1. Contents' = Contents \o Batch[c] /\ Present' = Present
      BY <1>2, NewPageAdds
    <3>2. Len(Contents') = Len(Contents) + Len(Batch[c])
      BY <2>2, <3>1, ConcatProperties
    <3> QED
      BY <2>1, <2>2, <2>5, <2>6, <3>1, <3>2 DEF Tally, Counts
  <2>7. ASSUME crashes = 0, CollectionMade, NEW p \in Pages, pages'[p].dir
        PROVE  PageMade(c, p)'
    <3>1. /\ pages'[at[c]] = [Indexed(index.total) EXCEPT !.data = TRUE,
                                                          !.entries = Batch[c]]
          /\ \A q \in Pages : q # at[c] => pages'[q] = pages[q]
      BY <1>2, AddsPage
    <3>2. CASE p = at[c]
      <4>1. pages'[p].idx /\ pages'[p].data
        BY <3>1, <3>2 DEF Indexed, Fresh, NoPage
      <4> QED
        BY <4>1 DEF PageMade, Whole
    <3>3. CASE p # at[c]
      <4>1. pages'[p] = pages[p]
        BY <3>1, <3>3
      <4>2. Whole(p)
        BY <2>2, <2>7, <3>3, <4>1 DEF PageMade
      <4> QED
        BY <4>1, <4>2 DEF PageMade, Whole
    <3> QED
      BY <3>2, <3>3
  <2>8. NobodyFails'
    BY <2>1, GoesOnFails
  <2>9. Counting'
    BY <2>1, <2>3, <2>6, CountingFrom DEF CollectionMade
  <2>10. AllMade'
    BY <2>1, <2>3, <2>7, AllMadeFrom DEF CollectionMade
  <2> QED
    BY <2>8, <2>9, <2>10
<1> QED
  BY <1>1, <1>2

LEMMA ConcatWriteIndexFiles ==
  ASSUME Control, Control', Sound, Files, NEW c \in Concats, ConcatWriteIndex(c)
  PROVE  Counting' /\ AllMade' /\ NobodyFails'
<1>1. CASE ~Quiet
  BY <1>1, NotMade DEF Quiet, ConcatWriteIndex
<1>2. CASE Quiet
  <2>1. /\ c \in Fibers /\ Go(c, "written") /\ pc[c] = "writeIndex"
        /\ UNCHANGED <<dir, pages, at, halfMade, torn, crashes>>
    BY FibersAre DEF ConcatWriteIndex
  <2>2. /\ pc[c] \notin Ended /\ (CollectionMade /\ ~torn => Tally(c))
        /\ crashes = 0 /\ CollectionMade =>
             \A p \in Pages : pages[p].dir => PageMade(c, p)
        /\ index.count \in Nat /\ index.total \in Nat /\ Len(Batch[c]) \in Nat
    BY <1>2, <2>1, TallyBefore DEF WritingPlaces
  <2>3. Sole(c)' /\ pc'[c] = "written"
    BY <1>2, <2>1, <2>2, SoleStays
  <2>4. index' = [active |-> at[c],
                  total |-> index.total +
                              (IF at[c] = index.active THEN 0 ELSE 1),
                  count |-> index.count + Len(Batch[c])]
    BY <1>2, SetsIndex
  <2>5. /\ DueEntries(c) = Len(Batch[c])
        /\ DuePages(c) = (IF at[c] = index.active THEN 0 ELSE 1)
        /\ DueEntries(c)' = 0 /\ DuePages(c)' = 0
    BY <2>1, <2>3 DEF DueEntries, DuePages, Adding, NewPlaces
  <2>6. Contents' = Contents /\ Present' = Present
    BY <2>1, FilesSame
  <2>7. ASSUME CollectionMade, ~torn PROVE Tally(c)'
    <3>1. /\ index'.count + 0 = index.count + DueEntries(c)
          /\ index'.total + 0 = index.total + DuePages(c)
      BY <2>2, <2>4, <2>5
    <3> QED
      BY <2>1, <2>2, <2>5, <2>6, <2>7, <3>1 DEF Tally, Counts
  <2>8. ASSUME crashes = 0, CollectionMade, NEW p \in Pages, pages'[p].dir
        PROVE  PageMade(c, p)'
    BY <2>1, <2>2, <2>8 DEF PageMade, Whole, MakingPlaces, NewPlaces
  <2>9. NobodyFails'
    BY <2>1, GoesOnFails
  <2>10. Counting'
    BY <2>1, <2>3, <2>7, CountingFrom DEF CollectionMade
  <2>11. AllMade'
    BY <2>1, <2>3, <2>8, AllMadeFrom DEF CollectionMade
  <2> QED
    BY <2>9, <2>10, <2>11
<1> QED
  BY <1>1, <1>2

LEMMA ConcatAckFiles ==
  ASSUME Control, Files, NEW c \in Concats, ConcatAck(c)
  PROVE  Counting' /\ AllMade' /\ NobodyFails'
<1>1. /\ c \in Fibers /\ Go(c, "done") /\ pc[c] = "written"
      /\ UNCHANGED <<dir, index, pages, halfMade, torn, crashes>>
  BY FibersAre DEF ConcatAck, files
<1>2. NobodyFails'
  BY <1>1, GoesOnFails
<1>3. CASE Quiet
  <2>1. Counting' /\ AllMade'
    BY <1>1, <1>3, EndFiles
  <2> QED
    BY <1>2, <2>1
<1>4. CASE ~Quiet
  BY <1>1, <1>4, NotMade DEF Quiet
<1> QED
  BY <1>3, <1>4

LEMMA ConcatFiles ==
  ASSUME Control, Control', Sound, Sound', Files, NEW c \in Concats, Concat(c)
  PROVE  Counting' /\ AllMade' /\ NobodyFails'
<1>1. CASE ConcatBegin(c)
  BY <1>1, BeginFiles DEF ConcatBegin
<1> QED
  BY <1>1, ConcatReadFiles, ConcatAppendFiles, ConcatNewPageFiles,
     ConcatNewPageIndexFiles, ConcatNewPageDataFiles, ConcatWriteIndexFiles,
     ConcatAckFiles DEF Concat

-----------------------------------------------------------------------------
(* ... through a read, a deletion and a death                              *)

\* Where the collection was made and nobody died every page can be read.
LEMMA AllReadable ==
  ASSUME Control, Files, NEW r \in Readers, pc[r] = "opened",
         crashes = 0, CollectionMade
  PROVE  Readable
<1>1. r \in Fibers /\ Quiet /\ pc[r] \notin Ended
  BY FibersAre, QuietWhenMade DEF Ended
<1>2. Sole(r)
  BY <1>1, Alone DEF Sole
<1>3. \A p \in Pages : pages[p].dir => Whole(p)
  BY <1>1, <1>2 DEF Files, AllMade, PageMade, MakingPlaces, NewPlaces
<1>4. \A p \in Pages : ~pages[p].cut
  BY DEF Files, NoTear, Uncut
<1> QED
  BY <1>3, <1>4 DEF Readable, Present

LEMMA ReadAnswerFiles ==
  ASSUME Control, Files, NEW r \in Readers, ReadAnswer(r)
  PROVE  Counting' /\ AllMade' /\ NobodyFails'
<1>1. /\ r \in Fibers /\ pc[r] = "opened"
      /\ UNCHANGED <<dir, index, pages, halfMade, torn, crashes>>
  BY FibersAre DEF ReadAnswer, files
<1>2. CASE ~Readable
  <2>1. crashes' = 0 => ~CollectionMade'
    BY <1>1, <1>2, AllReadable DEF CollectionMade
  <2>2. Go(r, "failed")
    BY <1>2 DEF ReadAnswer, Fail
  <2>3. CASE Quiet
    BY <1>1, <2>1, <2>2, <2>3, EndFiles DEF NobodyFails
  <2>4. CASE ~Quiet
    BY <1>1, <2>4, NotMade DEF Quiet
  <2> QED
    BY <2>3, <2>4
<1>3. CASE Readable
  <2>1. Go(r, "done")
    BY <1>3 DEF ReadAnswer
  <2>2. NobodyFails'
    BY <1>1, <2>1, GoesOnFails
  <2>3. CASE Quiet
    BY <1>1, <2>1, <2>2, <2>3, EndFiles
  <2>4. CASE ~Quiet
    BY <1>1, <2>4, NotMade DEF Quiet
  <2> QED
    BY <2>3, <2>4
<1> QED
  BY <1>2, <1>3

\* A collection that is not there has nothing to count.
LEMMA NothingThere ==
  ASSUME ~dir', pages' = Empty
  PROVE  Counting' /\ AllMade'
<1>1. \A p \in Pages : ~pages'[p].dir
  BY PageFields DEF Empty
<1> QED
  BY <1>1 DEF Counting, AllMade, Open

LEMMA RefusedFiles ==
  ASSUME Control, Sound, Files, NEW f \in Fibers, ~dir, Go(f, "done"),
         UNCHANGED <<files, at, known, holder, history, torn, halfMade, crashes>>
  PROVE  Counting' /\ AllMade' /\ NobodyFails'
<1>1. UNCHANGED <<dir, pages, halfMade, crashes>>
  BY DEF files
<1>2. NobodyFails'
  BY <1>1, GoesOnFails
<1>3. CASE Quiet
  <2>1. pages = Empty
    BY <1>3 DEF Sound
  <2> QED
    BY <1>1, <1>2, <2>1, NothingThere
<1>4. CASE ~Quiet
  BY <1>1, <1>4, NotMade DEF Quiet
<1> QED
  BY <1>3, <1>4

LEMMA ReadFiles ==
  ASSUME Control, Control', Sound, Sound', Files, NEW r \in Readers, Read(r)
  PROVE  Counting' /\ AllMade' /\ NobodyFails'
<1>1. CASE ReadBegin(r)
  BY <1>1, BeginFiles DEF ReadBegin
<1>2. CASE ReadRefused(r)
  BY <1>2, RefusedFiles, FibersAre DEF ReadRefused
<1> QED
  BY <1>1, <1>2, ReadAnswerFiles DEF Read

LEMMA DeleteBeginFiles ==
  ASSUME Control, Control', Sound, Files, DeleteBegin
  PROVE  Counting' /\ AllMade' /\ NobodyFails'
<1>1. /\ Deleter \in Fibers /\ Lock(Deleter) /\ Go(Deleter, "deleting")
      /\ UNCHANGED <<dir, at, torn, crashes>>
  BY FibersAre DEF DeleteBegin
<1>2. CASE ~Quiet'
  BY <1>2, NotMade
<1>3. CASE Quiet'
  <2>1. Quiet /\ \A g \in Fibers : pc[g] \in Ended
    BY <1>1, <1>3, NobodyAtLock
  <2>2. pc'[Deleter] = "deleting" /\ Sole(Deleter) /\ Sole(Deleter)'
    BY <1>1, <2>1, GoOthers DEF Sole, OthersSame
  <2>3. halfMade' = halfMade
    BY <1>1, <1>3 DEF Lock, Quiet
  <2>4. NobodyFails'
    BY <1>1, <2>3, GoesOnFails
  <2>5. Counting'
    BY <1>1, <2>2 DEF Counting, Open
  <2>6. ASSUME crashes = 0, CollectionMade, NEW p \in Pages, pages'[p].dir
        PROVE  PageMade(Deleter, p)'
    <3>1. pages' = pages
      <4>1. ~Empty[p].dir
        BY PageFields DEF Empty
      <4> QED
        BY <2>6, <4>1 DEF DeleteBegin, Empty
    <3>2. PageMade(Deleter, p)
      BY <1>1, <2>2, <2>6, <3>1 DEF Files, AllMade
    <3>3. Whole(p)
      BY <1>1, <2>1, <3>2 DEF PageMade, Ended, MakingPlaces, NewPlaces
    <3> QED
      BY <3>1, <3>3 DEF PageMade, Whole
  <2>7. AllMade'
    BY <1>1, <2>2, <2>3, <2>6, AllMadeFrom DEF CollectionMade
  <2> QED
    BY <2>4, <2>5, <2>7
<1> QED
  BY <1>2, <1>3

LEMMA DeleteEndFiles ==
  ASSUME Control, Files, DeleteEnd
  PROVE  Counting' /\ AllMade' /\ NobodyFails'
<1>1. /\ Deleter \in Fibers /\ Go(Deleter, "done") /\ ~dir' /\ pages' = Empty
      /\ UNCHANGED <<halfMade, crashes>>
  BY FibersAre DEF DeleteEnd, Empty
<1>2. NobodyFails'
  BY <1>1, GoesOnFails
<1> QED
  BY <1>1, <1>2, NothingThere

LEMMA CrashFiles ==
  ASSUME Control, Control', Sound, Files, Crash
  PROVE  Counting' /\ AllMade' /\ NobodyFails'
<1>1. crashes' # 0
  BY DEF Crash, Control, TypeOK
<1>2. AllMade' /\ NobodyFails'
  BY <1>1 DEF AllMade, NobodyFails
<1>3. ASSUME CollectionMade', ~torn', Open', NEW g \in Fibers
      PROVE  Tally(g)'
  <2>1. Quiet
    BY <1>3, QuietWhenMade DEF Crash, Quiet
  <2>2. /\ UNCHANGED <<dir, index>> /\ \A f \in Fibers : pc'[f] \in Ended
        /\ CollectionMade /\ Running \cap Creating = {} /\ Deleter \notin Running
        /\ UNCHANGED <<pages, torn>>
    BY <1>3, <2>1, CrashLeaves
  <2>3. PICK f \in Fibers : Sole(f)
    BY <2>1, SomeSole
  <2>4. Open
    <3>1. ASSUME NEW h \in Fibers PROVE pc[h] \notin MakingPlaces \cup {"deleting"}
      <4>1. pc[h] \notin MakingPlaces
        BY <2>2 DEF Running, Creating, Ended, MakingPlaces
      <4>2. pc[h] # "deleting"
        <5>1. pc[h] = "deleting" => h = Deleter
          BY DEF Control, Roles, Fits
        <5> QED
          BY <2>2, <5>1 DEF Running, Ended
      <4> QED
        BY <4>1, <4>2
    <3> QED
      BY <1>3, <2>2, <3>1 DEF Open
  <2>5. Tally(f)
    BY <1>3, <2>2, <2>3, <2>4 DEF Files, Counting
  <2>6. DueEntries(f) \in Nat /\ DuePages(f) \in Nat
    BY DueIn
  <2>7. DueEntries(g)' = 0 /\ DuePages(g)' = 0
    BY <2>2, DueIn DEF DueEntries, DuePages, Adding, Ended, NewPlaces
  <2>8. Contents' = Contents /\ Present' = Present
    BY <2>2, FilesSame
  <2>9. /\ index.count \in Nat /\ index.total \in Nat
        /\ Len(Contents) \in Nat /\ Cardinality(Present) \in Nat
    BY IndexIn, ContentsAre, PresentIs
  <2>10. index.count <= Len(Contents) /\ index.total <= Cardinality(Present)
    BY <2>5, <2>6, <2>9 DEF Tally, Counts
  <2> QED
    BY <1>1, <2>2, <2>7, <2>8, <2>9, <2>10 DEF Tally, Counts
<1> QED
  BY <1>2, <1>3 DEF Counting

-----------------------------------------------------------------------------
(* The index agrees with the pages                                         *)

LEMMA InitFiles == Init => Files
<1> SUFFICES ASSUME Init PROVE Files
  OBVIOUS
<1>1. \A p \in Pages : ~pages[p].dir /\ ~pages[p].cut
  BY PageFields DEF Init
<1>2. NobodyFails
  BY DEF Init, NobodyFails
<1> QED
  BY <1>1, <1>2 DEF Init, Files, Uncut, NoTear, Counting, AllMade, Open

LEMMA StutterFiles == Files /\ UNCHANGED vars => Files'
<1> SUFFICES ASSUME Files, UNCHANGED vars PROVE Files'
  OBVIOUS
<1>1. UNCHANGED <<dir, index, pages, pc, at, torn, halfMade, crashes>>
  BY DEF vars, files
<1>2. Contents' = Contents /\ Present' = Present
  BY <1>1, FilesSame
<1>3. Uncut' /\ NoTear' /\ NobodyFails'
  BY <1>1 DEF Files, Uncut, NoTear, NobodyFails, CollectionMade
<1>4. Counting'
  BY <1>1, <1>2 DEF Files, Counting, CollectionMade, Open, Sole, Tally, Counts,
     DueEntries, DuePages, Adding
<1>5. AllMade'
  BY <1>1 DEF Files, AllMade, CollectionMade, Sole, PageMade, Whole
<1> QED
  BY <1>3, <1>4, <1>5 DEF Files

LEMMA NextFiles == Control /\ Control' /\ Sound /\ Sound' /\ Files /\ Next => Files'
<1> SUFFICES ASSUME Control, Control', Sound, Sound', Files, Next PROVE Files'
  OBVIOUS
<1>1. Uncut' /\ NoTear'
  BY StepTears
<1>2. Counting' /\ AllMade' /\ NobodyFails'
  <2>1. ASSUME NEW f \in Fibers, Making(f)
        PROVE  Counting' /\ AllMade' /\ NobodyFails'
    BY <2>1, CreateIndexFiles, CreateDataFiles, GoneFiles DEF Making
  <2>2. CASE DeleteRefused
    BY <2>2, RefusedFiles, FibersAre DEF DeleteRefused
  <2> QED
    BY <2>1, <2>2, CreateFiles, CreateAckFiles, ConcatFiles, ReadFiles,
       DeleteBeginFiles, DeleteEndFiles, CrashFiles DEF Next
<1> QED
  BY <1>1, <1>2 DEF Files

Agreement == Control /\ Sound /\ Files

LEMMA AgreementHolds == Spec => []Agreement
<1>1. Init => Agreement
  BY InitControl, InitSound, InitFiles DEF Agreement
<1>2. Agreement /\ [Next]_vars => Agreement'
  BY NextControl, StutterControl, NextSound, StutterSound, NextFiles,
     StutterFiles DEF Agreement
<1> QED
  BY <1>1, <1>2, PTL DEF Spec

\* At rest the collection is open where it has an index.
LEMMA OpenAtRest ==
  ASSUME Agreement, CollectionMade, AtRest, index # NoIndex
  PROVE  Open /\ \A f \in Fibers : pc[f] \in Ended
<1>1. Quiet /\ \A f \in Fibers : pc[f] \in Ended
  BY QuietWhenMade DEF AtRest, Running
<1>2. dir
  BY <1>1 DEF Agreement, Sound
<1> QED
  BY <1>1, <1>2 DEF Open, Ended, MakingPlaces

LEMMA AgreementCounts == Agreement => CountsAgree
<1> SUFFICES ASSUME Agreement, CollectionMade, ~torn, AtRest, index # NoIndex
             PROVE  /\ index.count <= Len(Contents)
                    /\ index.total <= Cardinality(Present)
                    /\ crashes = 0 => /\ index.count = Len(Contents)
                                      /\ index.total = Cardinality(Present)
  BY DEF CountsAgree
<1>1. Open /\ pc[Creator] \in Ended /\ Sole(Creator) /\ Creator \in Fibers
  BY OpenAtRest, FibersAre DEF Sole
<1>2. Tally(Creator)
  BY <1>1 DEF Agreement, Files, Counting
<1>3. DueEntries(Creator) = 0 /\ DuePages(Creator) = 0
  BY <1>1, DueIn DEF Agreement
<1>4. index.count \in Nat /\ index.total \in Nat
  BY IndexIn DEF Agreement
<1> QED
  BY <1>2, <1>3, <1>4 DEF Tally, Counts

LEMMA AgreementActive == Agreement => ActivePageThere
<1> SUFFICES ASSUME Agreement, CollectionMade, AtRest, index # NoIndex
             PROVE  Whole(index.active)
  BY DEF ActivePageThere
<1> QED
  BY OpenAtRest, QuietWhenMade DEF Agreement, Sound, Healthy

-----------------------------------------------------------------------------
(* What stands in a log                                                    *)

\* The batch stands in the log, behind the first start entries.
StandsAt(log, start, batch) ==
  /\ start + Len(batch) <= Len(log)
  /\ batch = SubSeq(log, start + 1, start + Len(batch))

\* What stands in a log stands there when it has grown.
LEMMA StandsMore ==
  ASSUME NEW E, NEW s \in Seq(E), NEW t \in Seq(E), NEW b \in Seq(E),
         NEW start \in Nat, StandsAt(s, start, b)
  PROVE  StandsAt(s \o t, start, b)
<1>1. Len(s \o t) = Len(s) + Len(t) /\ Len(b) \in Nat /\ Len(s) \in Nat /\ Len(t) \in Nat
  OBVIOUS
<1>2. SubSeq(s \o t, start + 1, start + Len(b)) = SubSeq(s, start + 1, start + Len(b))
  BY <1>1 DEF StandsAt
<1> QED
  BY <1>1, <1>2 DEF StandsAt

LEMMA StandsLast ==
  ASSUME NEW E, NEW s \in Seq(E), NEW b \in Seq(E)
  PROVE  StandsAt(s \o b, Len(s), b)
<1>1. Len(s \o b) = Len(s) + Len(b) /\ Len(b) \in Nat /\ Len(s) \in Nat
  OBVIOUS
<1>2. SubSeq(s \o b, Len(s) + 1, Len(s) + Len(b)) = b
  BY <1>1
<1> QED
  BY <1>1, <1>2 DEF StandsAt

LEMMA ContainsMore ==
  ASSUME NEW E, NEW s \in Seq(E), NEW t \in Seq(E), NEW b \in Seq(E),
         Log!Contains(s, b)
  PROVE  Log!Contains(s \o t, b)
<1>1. Len(s \o t) = Len(s) + Len(t) /\ Len(b) \in Nat /\ Len(s) \in Nat /\ Len(t) \in Nat
  OBVIOUS
<1>2. PICK i \in 0 .. Len(s) - Len(b) : b = [j \in 1 .. Len(b) |-> s[i + j]]
  BY DEF Log!Contains
<1>3. \A j \in 1 .. Len(b) : (s \o t)[i + j] = s[i + j]
  BY <1>1, <1>2
<1>4. b = [j \in 1 .. Len(b) |-> (s \o t)[i + j]]
  BY <1>2, <1>3
<1>5. i \in 0 .. Len(s \o t) - Len(b)
  BY <1>1, <1>2
<1> QED
  BY <1>4, <1>5 DEF Log!Contains

LEMMA ContainsLast ==
  ASSUME NEW E, NEW s \in Seq(E), NEW b \in Seq(E)
  PROVE  Log!Contains(s \o b, b)
<1>1. Len(s \o b) = Len(s) + Len(b) /\ Len(b) \in Nat /\ Len(s) \in Nat
  OBVIOUS
<1>2. \A j \in 1 .. Len(b) : (s \o b)[Len(s) + j] = b[j]
  BY <1>1
<1>3. b = [j \in 1 .. Len(b) |-> (s \o b)[Len(s) + j]]
  BY <1>2
<1>4. Len(s) \in 0 .. Len(s \o b) - Len(b)
  BY <1>1
<1> QED
  BY <1>3, <1>4 DEF Log!Contains

LEMMA ContainsNothing ==
  ASSUME NEW E, NEW b \in Seq(E), b # <<>>
  PROVE  ~Log!Contains(<<>>, b)
BY DEF Log!Contains

\* What stands before the last batch begins before it.
LEMMA ContainsBefore ==
  ASSUME NEW E, NEW s \in Seq(E), NEW b \in Seq(E), NEW a \in Seq(E),
         a # <<>>, b # <<>>, Log!Contains(s, a)
  PROVE  Log!Before(s \o b, a[1], b[1])
<1>1. /\ Len(s \o b) = Len(s) + Len(b) /\ Len(b) \in Nat \ {0} /\ Len(s) \in Nat
      /\ Len(a) \in Nat \ {0} /\ DOMAIN (s \o b) = 1 .. Len(s) + Len(b)
  OBVIOUS
<1>2. PICK i \in 0 .. Len(s) - Len(a) : a = [j \in 1 .. Len(a) |-> s[i + j]]
  BY DEF Log!Contains
<1>3. a[1] = s[i + 1] /\ i + 1 \in 1 .. Len(s)
  BY <1>1, <1>2
<1>4. (s \o b)[i + 1] = a[1] /\ (s \o b)[Len(s) + 1] = b[1]
  BY <1>1, <1>3
<1>5. i + 1 < Len(s) + 1 /\ i + 1 \in DOMAIN (s \o b) /\ Len(s) + 1 \in DOMAIN (s \o b)
  BY <1>1, <1>3
<1> QED
  BY <1>4, <1>5 DEF Log!Before

-----------------------------------------------------------------------------
(* What a step adds to the log                                             *)

Intact == Quiet /\ ~torn

\* A writer has written its batch and does not say so yet.
DuePlaces == {"writeIndex", "written", "created"}

\* A step adds no entry and acknowledges none, ...
Stays ==
  /\ Contents' = Contents /\ UNCHANGED <<acked, starts>>
  /\ \A g \in Fibers : pc'[g] \in DuePlaces => pc[g] \in DuePlaces
  /\ pc'[Creator] = "created" => pc[Creator] = "created"
\* ... or adds a batch at the end,
Grows(f) ==
  /\ f \in Writers /\ Contents' = Contents \o Batch[f] /\ UNCHANGED <<acked, starts>>
  /\ \A g \in Fibers : pc'[g] \in DuePlaces => g = f
  /\ pc'[Creator] = "created" => Contents' = Batch[Creator]
\* ... or says where one stands,
Acks(f, start) ==
  /\ f \in Writers /\ pc[f] \in DuePlaces /\ Batch[f] # <<>> /\ start \in Nat
  /\ Contents' = Contents /\ Acknowledge(f, start)
  /\ start = (IF f = Creator THEN 0 ELSE known[f].count)
  /\ pc[f] = (IF f = Creator THEN "created" ELSE "written")
  /\ \A g \in Fibers : pc'[g] \notin DuePlaces
\* ... or takes everything along.
Goes ==
  /\ acked' = <<>> /\ Contents' \in {Contents, <<>>}
  /\ \A g \in Fibers : pc'[g] \notin DuePlaces
Effect ==
  Intact' => \/ Stays \/ Goes
             \/ \E f \in Writers : Grows(f) \/ \E start \in Nat : Acks(f, start)

\* What is lost stays lost.
LEMMA Losses ==
  ASSUME Control, Next
  PROVE  /\ Intact' => Intact
         /\ crashes' = 0 => crashes = 0
         /\ CollectionMade' => CollectionMade
<1>1. CASE Crash
  <2>1. crashes' # 0 /\ halfMade \subseteq halfMade' /\ (torn => torn')
    BY <1>1 DEF Crash, Control, TypeOK
  <2> QED
    BY <2>1 DEF Intact, Quiet, CollectionMade
<1>2. CASE ~Crash
  <2>1. UNCHANGED <<torn, crashes>> /\ halfMade \subseteq halfMade'
    BY <1>2 DEF Next, Making, CreateIndex, CreatePageIndex, CreateData, Gone, Create,
       CreateAck, Concat, ConcatBegin, ConcatRead, ConcatAppend, ConcatNewPage,
       ConcatNewPageIndex, ConcatNewPageData, ConcatWriteIndex, ConcatAck, Lock,
       Read, ReadBegin, ReadRefused, ReadAnswer, DeleteBegin, DeleteEnd,
       DeleteRefused
  <2> QED
    BY <2>1 DEF Intact, Quiet, CollectionMade
<1> QED
  BY <1>1, <1>2

\* A fiber goes on, and has written nothing.
LEMMA GoesOnStays ==
  ASSUME Control, Contents' = Contents, UNCHANGED <<acked, starts>>,
         NEW f \in Fibers, NEW place, Go(f, place),
         place \in DuePlaces => pc[f] \in DuePlaces, place # "created"
  PROVE  Stays
<1>1. pc'[f] = place /\ OthersSame(f)
  BY GoOthers
<1>2. \A g \in Fibers : pc'[g] \in DuePlaces => pc[g] \in DuePlaces
  BY <1>1 DEF OthersSame
<1>3. pc'[Creator] = "created" => pc[Creator] = "created"
  BY <1>1, FibersAre DEF OthersSame
<1> QED
  BY <1>2, <1>3 DEF Stays

\* ... or is the only one that has.
LEMMA OnlyOneWrote ==
  ASSUME Control, Quiet, NEW f \in Fibers, pc[f] \notin Ended, NEW place, Go(f, place)
  PROVE  /\ \A g \in Fibers : pc'[g] \in DuePlaces => g = f
         /\ place \notin DuePlaces => \A g \in Fibers : pc'[g] \notin DuePlaces
         /\ pc'[f] = place
<1>1. pc'[f] = place /\ OthersSame(f)
  BY GoOthers
<1>2. \A g \in Fibers : g # f => pc'[g] \in Ended
  BY <1>1, StillAlone
<1> QED
  BY <1>1, <1>2 DEF Ended, DuePlaces

LEMMA MakingEffect ==
  ASSUME Control, Control', Sound, NEW f \in Fibers, Making(f)
  PROVE  Effect
<1>1. UNCHANGED <<acked, starts, halfMade>>
  BY DEF Making, CreateIndex, CreatePageIndex, CreateData, Gone, history
<1>2. CASE Gone(f)
  <2>1. Contents' = Contents /\ Go(f, "failed")
    BY <1>2, FilesSame DEF Gone, files
  <2> QED
    BY <1>1, <2>1, GoesOnStays DEF DuePlaces, Effect
<1>3. CASE CreateIndex(f)
  <2>1. Contents' = Contents /\ Go(f, "createPageIndex")
    BY <1>3, FilesSame DEF CreateIndex
  <2> QED
    BY <1>1, <2>1, GoesOnStays DEF DuePlaces, Effect
<1>4. CASE CreatePageIndex(f)
  <2>1. Contents' = Contents /\ Go(f, "createData")
    BY <1>4, PageIndexAdds DEF CreatePageIndex
  <2> QED
    BY <1>1, <2>1, GoesOnStays DEF DuePlaces, Effect
<1>5. CASE CreateData(f)
  <2> SUFFICES ASSUME Intact' PROVE Effect
    BY DEF Effect
  <2>1. Quiet
    BY <1>1 DEF Intact, Quiet
  <2>2. Contents = <<>> /\ Contents' = InitialEntries(f)
    BY <1>5, <2>1, CreateAdds
  <2>3. CASE f = Creator
    <3>1. f \in Writers /\ Batch[f] \in Seq(Entries) /\ pc[f] \notin Ended
          /\ Go(f, "created")
      BY <1>5, <2>3, FibersAre DEF CreateData, Ended
    <3>2. Contents' = Batch[f] /\ Contents' = Contents \o Batch[f]
      BY <2>2, <2>3, <3>1, ConcatEmptySeq DEF InitialEntries
    <3>3. Grows(f)
      BY <1>1, <2>1, <2>3, <3>1, <3>2, OnlyOneWrote DEF Grows
    <3> QED
      BY <3>1, <3>3 DEF Effect
  <2>4. CASE f # Creator
    <3>1. Go(f, "opened") /\ Contents' = Contents
      BY <1>5, <2>2, <2>4 DEF CreateData, InitialEntries
    <3> QED
      BY <1>1, <3>1, GoesOnStays DEF DuePlaces, Effect
  <2> QED
    BY <2>3, <2>4
<1> QED
  BY <1>2, <1>3, <1>4, <1>5 DEF Making

LEMMA CreateEffect ==
  ASSUME Control, Control', Create
  PROVE  Effect
<1>1. /\ Creator \in Fibers /\ Go(Creator, "createIndex") /\ MakeDirectory(Creator)
      /\ UNCHANGED <<acked, starts>>
  BY FibersAre DEF Create, history
<1>2. Contents' = Contents
  BY <1>1, DirectoryAdds
<1> QED
  BY <1>1, <1>2, GoesOnStays DEF DuePlaces, Effect

\* A fiber ends, and leaves the files and what was acknowledged.
LEMMA EndEffect ==
  ASSUME Control, NEW f \in Fibers, NEW place \in {"done", "failed"},
         Go(f, place), UNCHANGED <<files, acked, starts>>
  PROVE  Effect
<1>1. Contents' = Contents
  BY FilesSame DEF files
<1> QED
  BY <1>1, GoesOnStays DEF DuePlaces, Effect

LEMMA AckEffect ==
  ASSUME Control, NEW f \in Writers, NEW start \in Nat, Go(f, "done"),
         Acknowledge(f, start), Batch[f] # <<>>, UNCHANGED <<files, halfMade>>,
         start = (IF f = Creator THEN 0 ELSE known[f].count),
         pc[f] = (IF f = Creator THEN "created" ELSE "written")
  PROVE  Effect
<1> SUFFICES ASSUME Intact' PROVE Effect
  BY DEF Effect
<1>1. Contents' = Contents
  BY FilesSame DEF files
<1>2. Quiet /\ f \in Fibers /\ pc[f] \notin Ended /\ pc[f] \in DuePlaces
  BY FibersAre DEF Intact, Quiet, DuePlaces, Ended
<1>3. \A g \in Fibers : pc'[g] \notin DuePlaces
  BY <1>2, OnlyOneWrote DEF DuePlaces
<1>4. Acks(f, start)
  BY <1>1, <1>2, <1>3 DEF Acks
<1> QED
  BY <1>4 DEF Effect

LEMMA CreateAckEffect ==
  ASSUME Control, CreateAck
  PROVE  Effect
<1>1. /\ pc[Creator] = "created" /\ Go(Creator, "done") /\ Creator \in Writers
      /\ Creator \in Fibers /\ UNCHANGED <<files, halfMade>>
  BY FibersAre DEF CreateAck
<1>2. CASE Batch[Creator] = <<>>
  BY <1>1, <1>2, EndEffect DEF CreateAck
<1>3. CASE Batch[Creator] # <<>>
  BY <1>1, <1>3, AckEffect DEF CreateAck
<1> QED
  BY <1>2, <1>3

LEMMA BeginEffect ==
  ASSUME Control, Control', NEW f \in Concats \cup Readers,
         IF dir THEN Go(f, "opened") /\ UNCHANGED <<files, at>>
                ELSE MakeDirectory(f) /\ Go(f, "createIndex"),
         UNCHANGED history
  PROVE  Effect
<1>1. f \in Fibers /\ UNCHANGED <<acked, starts>>
  BY FibersAre DEF history
<1>2. Contents' = Contents
  BY <1>1, FilesSame, DirectoryAdds DEF files
<1>3. PICK place \in {"opened", "createIndex"} : Go(f, place)
  OBVIOUS
<1> QED
  BY <1>1, <1>2, <1>3, GoesOnStays DEF DuePlaces, Effect

LEMMA ConcatEffect ==
  ASSUME Control, Control', Sound, Files, NEW c \in Concats, Concat(c)
  PROVE  Effect
<1>1. c \in Fibers /\ c \in Writers /\ c # Creator /\ Batch[c] # <<>>
  BY FibersAre
<1>2. CASE ConcatBegin(c)
  BY <1>2, BeginEffect DEF ConcatBegin
<1>3. CASE ConcatRead(c)
  <2>1. Contents' = Contents /\ UNCHANGED <<acked, starts>>
    BY <1>3, FilesSame DEF ConcatRead, files, history
  <2>2. PICK place \in {"failed", "newPage", "append"} : Go(c, place)
    BY <1>3 DEF ConcatRead, Fail
  <2> QED
    BY <1>1, <2>1, <2>2, GoesOnStays DEF DuePlaces, Effect
<1>4. CASE ConcatNewPage(c)
  <2>1. Contents' = Contents /\ UNCHANGED <<acked, starts>> /\ Go(c, "newPageIndex")
    BY <1>1, <1>4, DirectoryAdds DEF ConcatNewPage, history
  <2> QED
    BY <1>1, <2>1, GoesOnStays DEF DuePlaces, Effect
<1>5. CASE ConcatNewPageIndex(c)
  <2>1. Contents' = Contents /\ UNCHANGED <<acked, starts>> /\ Go(c, "newPageData")
    BY <1>1, <1>5, PageIndexAdds DEF ConcatNewPageIndex, history
  <2> QED
    BY <1>1, <2>1, GoesOnStays DEF DuePlaces, Effect
<1>6. CASE ConcatWriteIndex(c)
  <2>1. /\ Contents' = Contents /\ UNCHANGED <<acked, starts>> /\ Go(c, "written")
        /\ pc[c] \in DuePlaces
    BY <1>6, FilesSame DEF ConcatWriteIndex, history, DuePlaces
  <2> QED
    BY <1>1, <2>1, GoesOnStays DEF Effect
<1>7. CASE ConcatAppend(c) \/ ConcatNewPageData(c)
  <2> SUFFICES ASSUME Intact' PROVE Effect
    BY DEF Effect
  <2>1. /\ pc[c] \notin Ended /\ Go(c, "writeIndex")
        /\ UNCHANGED <<acked, starts, torn, halfMade>>
    BY <1>7 DEF ConcatAppend, ConcatNewPageData, Ended, history
  <2>2. Quiet /\ ~torn
    BY <2>1 DEF Intact, Quiet
  <2>3. Contents' = Contents \o Batch[c]
    BY <1>7, <2>2, AppendAdds, NewPageAdds DEF Files
  <2>4. /\ \A g \in Fibers : pc'[g] \in DuePlaces => g = c
        /\ pc'[c] = "writeIndex"
    BY <1>1, <2>1, <2>2, OnlyOneWrote
  <2>5. pc'[Creator] # "created"
    BY <1>1, <2>4, FibersAre DEF DuePlaces
  <2>6. Grows(c)
    BY <1>1, <2>1, <2>3, <2>4, <2>5 DEF Grows
  <2> QED
    BY <1>1, <2>6 DEF Effect
<1>8. CASE ConcatAck(c)
  <2>1. known[c].count \in Nat
    BY DEF Control, TypeOK, Indexes
  <2> QED
    BY <1>1, <1>8, <2>1, AckEffect DEF ConcatAck
<1> QED
  BY <1>2, <1>3, <1>4, <1>5, <1>6, <1>7, <1>8 DEF Concat

LEMMA ReadEffect ==
  ASSUME Control, Control', NEW r \in Readers, Read(r)
  PROVE  Effect
<1>1. r \in Fibers
  BY FibersAre
<1>2. CASE ReadBegin(r)
  BY <1>2, BeginEffect DEF ReadBegin
<1>3. CASE ReadRefused(r)
  BY <1>1, <1>3, EndEffect DEF ReadRefused, history
<1>4. CASE ReadAnswer(r)
  <2>1. PICK place \in {"done", "failed"} : Go(r, place)
    BY <1>4 DEF ReadAnswer, Fail
  <2> QED
    BY <1>1, <1>4, <2>1, EndEffect DEF ReadAnswer
<1> QED
  BY <1>2, <1>3, <1>4 DEF Read

LEMMA DeleteEffect ==
  ASSUME Control, Control', Sound, DeleteBegin \/ DeleteEnd
  PROVE  Effect
<1> SUFFICES ASSUME Intact' PROVE Effect
  BY DEF Effect
<1>1. Deleter \in Fibers
  BY FibersAre
<1>2. ASSUME pages' = [p \in Pages |-> NoPage] PROVE Contents' = <<>>
  <2>1. \A p \in Pages : pages'[p].entries = <<>>
    BY <1>2, NoPages, PageFields
  <2>2. pages' \in [Pages -> PageFiles]
    BY DEF Control, TypeOK
  <2> QED
    BY <2>1, <2>2, ListingEmpty, ContentsAre
<1>3. CASE DeleteBegin
  <2>1. \A g \in Fibers : pc[g] \in Ended
    BY <1>1, <1>3, NobodyAtLock DEF DeleteBegin, Intact
  <2>2. pc'[Deleter] = "deleting" /\ OthersSame(Deleter)
    BY <1>1, <1>3, GoOthers DEF DeleteBegin
  <2>3. \A g \in Fibers : pc'[g] \notin DuePlaces
    BY <2>1, <2>2 DEF OthersSame, Ended, DuePlaces
  <2>4. acked' = <<>> /\ (pages' = pages \/ pages' = [p \in Pages |-> NoPage])
    BY <1>3 DEF DeleteBegin
  <2>5. Contents' \in {Contents, <<>>}
    BY <1>2, <2>4, FilesSame
  <2> QED
    BY <2>3, <2>4, <2>5 DEF Goes, Effect
<1>4. CASE DeleteEnd
  <2>1. pc[Deleter] \notin Ended /\ pc[Deleter] = "deleting" /\ Go(Deleter, "done")
        /\ UNCHANGED <<acked, halfMade>>
    BY <1>4 DEF DeleteEnd, Ended, history
  <2>2. Quiet
    BY <2>1 DEF Intact, Quiet
  <2>3. acked = <<>>
    BY <1>1, <2>1, <2>2 DEF Sound, Doing
  <2>4. \A g \in Fibers : pc'[g] \notin DuePlaces
    BY <1>1, <2>1, <2>2, OnlyOneWrote DEF DuePlaces
  <2>5. Contents' = <<>>
    BY <1>2, <1>4 DEF DeleteEnd
  <2> QED
    BY <2>1, <2>3, <2>4, <2>5 DEF Goes, Effect
<1> QED
  BY <1>3, <1>4

LEMMA CrashEffect ==
  ASSUME Control, Sound, Crash
  PROVE  Effect
<1> SUFFICES ASSUME Intact' PROVE Effect
  BY DEF Effect
<1>1. Quiet
  BY DEF Crash, Intact, Quiet
<1>2. /\ UNCHANGED <<acked, starts, pages>> /\ \A f \in Fibers : pc'[f] \in Ended
  BY <1>1, CrashLeaves DEF Intact
<1>3. Contents' = Contents
  BY <1>2, FilesSame
<1>4. Stays
  BY <1>2, <1>3, FibersAre DEF Stays, DuePlaces, Ended
<1> QED
  BY <1>4 DEF Effect

LEMMA StepEffect ==
  ASSUME Control, Control', Sound, Files, Next
  PROVE  Effect
<1>1. CASE DeleteRefused
  BY <1>1, EndEffect, FibersAre DEF DeleteRefused, history
<1> QED
  BY <1>1, MakingEffect, CreateEffect, CreateAckEffect, ConcatEffect, ReadEffect,
     DeleteEffect, CrashEffect DEF Next

-----------------------------------------------------------------------------
(* What was acknowledged is in the files                                   *)

\* The log ends with what f has written; what was acknowledged stands before.
EndsWith(f) ==
  \E pre \in Seq(Entries) :
    /\ Contents = pre \o Batch[f]
    /\ \A n \in DOMAIN acked : Log!Contains(pre, acked[n])
Logged ==
  /\ \A n \in DOMAIN acked : acked[n] # <<>> /\ Log!Contains(Contents, acked[n])
  /\ \A f \in Fibers : pc[f] \in DuePlaces => EndsWith(f)
  /\ pc[Creator] = "created" => Contents = Batch[Creator]
Standing ==
  crashes = 0 /\ CollectionMade =>
    \A n \in DOMAIN acked : StandsAt(Contents, starts[n], acked[n])
Kept == Intact => Logged /\ Standing

\* The histories of the answers, as sequences.
LEMMA AckedIn ==
  ASSUME Control
  PROVE  /\ acked \in Seq(Seq(Entries)) /\ starts \in Seq(Nat)
         /\ Len(starts) = Len(acked)
         /\ \A n \in DOMAIN acked : acked[n] \in Seq(Entries) /\ starts[n] \in Nat
BY DEF Control, TypeOK

\* No death, no tear.
LEMMA WholeLog ==
  ASSUME Agreement, crashes = 0, CollectionMade
  PROVE  Intact
BY QuietWhenMade DEF Agreement, Files, NoTear, Intact

LEMMA StaysKept ==
  ASSUME Logged, Standing, Stays, crashes' = 0 => crashes = 0,
         CollectionMade' => CollectionMade
  PROVE  Logged' /\ Standing'
<1>1. Logged'
  BY DEF Stays, Logged, EndsWith
<1>2. Standing'
  BY DEF Stays, Standing
<1> QED
  BY <1>1, <1>2

LEMMA GrowsKept ==
  ASSUME Control, Logged, Standing, NEW f \in Writers, Grows(f),
         crashes' = 0 => crashes = 0, CollectionMade' => CollectionMade
  PROVE  Logged' /\ Standing'
<1>1. f \in Fibers /\ Batch[f] \in Seq(Entries) /\ Contents \in Seq(Entries)
  BY FibersAre, ContentsAre
<1>2. Contents' = Contents \o Batch[f] /\ UNCHANGED <<acked, starts>>
  BY DEF Grows
<1>3. ASSUME NEW n \in DOMAIN acked
      PROVE  acked[n] # <<>> /\ Log!Contains(Contents', acked[n])
  BY <1>1, <1>2, <1>3, AckedIn, ContainsMore DEF Logged
<1>4. EndsWith(f)'
  BY <1>1, <1>2 DEF Logged, EndsWith
<1>5. Logged'
  BY <1>2, <1>3, <1>4 DEF Logged, Grows
<1>6. ASSUME crashes = 0, CollectionMade, NEW n \in DOMAIN acked
      PROVE  StandsAt(Contents', starts[n], acked[n])
  <2>1. StandsAt(Contents, starts[n], acked[n])
    BY <1>6 DEF Standing
  <2> QED
    BY <1>1, <1>2, <2>1, AckedIn, StandsMore
<1>7. Standing'
  BY <1>2, <1>6 DEF Standing
<1> QED
  BY <1>5, <1>7

\* A concat is broadcast with what the index counted before it.
LEMMA AckStart ==
  ASSUME Agreement, Logged, Intact, NEW f \in Writers, NEW start \in Nat,
         Acks(f, start), crashes = 0, CollectionMade
  PROVE  StandsAt(Contents, start, Batch[f])
<1>1. /\ f \in Fibers /\ Quiet /\ ~torn /\ Control /\ Sound
      /\ Batch[f] \in Seq(Entries)
  BY FibersAre DEF Agreement, Intact
<1>2. CASE f = Creator
  <2>1. Contents = Batch[f] /\ start = 0
    BY <1>2 DEF Logged, Acks
  <2> QED
    BY <1>1, <2>1, SubSeqFull DEF StandsAt
<1>3. CASE f # Creator
  <2>1. /\ f \in Concats /\ pc[f] = "written" /\ start = known[f].count
    BY <1>3 DEF Acks, Writers
  <2>2. dir /\ Sole(f) /\ Concatenates(f)
    BY <1>1, <2>1, AtConcat DEF Sole, Doing, WritingPlaces
  <2>3. Open
    BY <1>1, <2>1, <2>2 DEF Open, Sole, Ended, MakingPlaces
  <2>4. Tally(f)
    BY <1>1, <2>2, <2>3 DEF Agreement, Files, Counting
  <2>5. DueEntries(f) = 0 /\ index.count \in Nat
    BY <1>1, <2>1, IndexIn DEF DueEntries
  <2>6. index.count = Len(Contents)
    BY <2>4, <2>5 DEF Tally, Counts
  <2>7. PICK pre \in Seq(Entries) : Contents = pre \o Batch[f]
    BY <1>1, <2>1 DEF Logged, DuePlaces, EndsWith
  <2>8. index.count = start + Len(Batch[f])
    BY <2>1, <2>2 DEF Concatenates
  <2>9. Len(Contents) = Len(pre) + Len(Batch[f]) /\ Len(pre) \in Nat
        /\ Len(Batch[f]) \in Nat
    BY <1>1, <2>7, ConcatProperties
  <2>10. start = Len(pre)
    <3>1. start + Len(Batch[f]) = Len(pre) + Len(Batch[f])
      BY <2>6, <2>8, <2>9
    <3>2. \A a, b, k \in Nat : a + k = b + k => a = b
      OBVIOUS
    <3> QED
      BY <2>9, <3>1, <3>2
  <2> QED
    BY <1>1, <2>7, <2>10, StandsLast
<1> QED
  BY <1>2, <1>3

\* One batch is acknowledged after the others.
LEMMA Acknowledges ==
  ASSUME Control, NEW f \in Writers, NEW start \in Nat, Acknowledge(f, start),
         NEW n \in DOMAIN acked'
  PROVE  \/ n \in DOMAIN acked /\ acked'[n] = acked[n] /\ starts'[n] = starts[n]
         \/ acked'[n] = Batch[f] /\ starts'[n] = start
<1>1. Batch[f] \in Seq(Entries)
  BY FibersAre
<1>2. /\ Len(acked') = Len(acked) + 1 /\ acked' \in Seq(Seq(Entries))
      /\ \A m \in 1 .. Len(acked) : acked'[m] = acked[m]
      /\ acked'[Len(acked) + 1] = Batch[f]
  BY <1>1, AckedIn, AppendProperties DEF Acknowledge
<1>3. /\ \A m \in 1 .. Len(starts) : starts'[m] = starts[m]
      /\ starts'[Len(starts) + 1] = start
  BY AckedIn, AppendProperties DEF Acknowledge
<1>4. DOMAIN acked' = 1 .. Len(acked) + 1 /\ DOMAIN acked = 1 .. Len(acked)
      /\ Len(acked) \in Nat
  BY <1>2, AckedIn
<1>5. \A k \in Nat : \A m \in 1 .. k + 1 : m \in 1 .. k \/ m = k + 1
  OBVIOUS
<1>6. n \in 1 .. Len(acked) \/ n = Len(acked) + 1
  BY <1>4, <1>5
<1>7. CASE n \in 1 .. Len(acked)
  BY <1>2, <1>3, <1>4, <1>7, AckedIn
<1>8. CASE n = Len(acked) + 1
  BY <1>2, <1>3, <1>8, AckedIn
<1> QED
  BY <1>6, <1>7, <1>8

LEMMA AcksKept ==
  ASSUME Agreement, Logged, Standing, Intact, NEW f \in Writers,
         NEW start \in Nat, Acks(f, start),
         crashes' = 0 => crashes = 0, CollectionMade' => CollectionMade
  PROVE  Logged' /\ Standing'
<1>1. /\ f \in Fibers /\ Creator \in Fibers /\ Batch[f] \in Seq(Entries)
      /\ Contents \in Seq(Entries) /\ Control
  BY FibersAre, ContentsAre DEF Agreement
<1>2. /\ Contents' = Contents /\ Acknowledge(f, start) /\ Batch[f] # <<>>
      /\ \A g \in Fibers : pc'[g] \notin DuePlaces
  BY DEF Acks
<1>3. Log!Contains(Contents, Batch[f])
  BY <1>1, ContainsLast DEF Acks, Logged, EndsWith
<1>4. ASSUME NEW n \in DOMAIN acked'
      PROVE  acked'[n] # <<>> /\ Log!Contains(Contents', acked'[n])
  BY <1>1, <1>2, <1>3, <1>4, Acknowledges DEF Logged
<1>5. Logged'
  BY <1>1, <1>2, <1>4 DEF Logged, DuePlaces
<1>6. ASSUME crashes = 0, CollectionMade, NEW n \in DOMAIN acked'
      PROVE  StandsAt(Contents', starts'[n], acked'[n])
  <2>1. StandsAt(Contents, start, Batch[f])
    BY <1>6, AckStart
  <2>2. \A m \in DOMAIN acked : StandsAt(Contents, starts[m], acked[m])
    BY <1>6 DEF Standing
  <2> QED
    BY <1>1, <1>2, <2>1, <2>2, Acknowledges
<1>7. Standing'
  BY <1>6 DEF Standing
<1> QED
  BY <1>5, <1>7

LEMMA GoesKept ==
  ASSUME Goes
  PROVE  Logged' /\ Standing'
<1>1. acked' = <<>> /\ \A g \in Fibers : pc'[g] \notin DuePlaces
  BY DEF Goes
<1>2. Logged'
  BY <1>1, FibersAre DEF Logged, DuePlaces
<1>3. Standing'
  BY <1>1 DEF Standing
<1> QED
  BY <1>2, <1>3

LEMMA NextKept == Agreement /\ Agreement' /\ Kept /\ Next => Kept'
<1> SUFFICES ASSUME Agreement, Agreement', Kept, Next, Intact'
             PROVE  Logged' /\ Standing'
  BY DEF Kept
<1>1. /\ Intact /\ (crashes' = 0 => crashes = 0)
      /\ CollectionMade' => CollectionMade
  BY Losses DEF Agreement
<1>2. Logged /\ Standing /\ Control
  BY <1>1 DEF Kept, Agreement
<1>3. \/ Stays \/ Goes
      \/ \E f \in Writers : Grows(f) \/ \E start \in Nat : Acks(f, start)
  BY StepEffect DEF Agreement, Effect
<1> QED
  BY <1>1, <1>2, <1>3, StaysKept, GoesKept, GrowsKept, AcksKept

LEMMA InitKept == Init => Kept
<1> SUFFICES ASSUME Init PROVE Kept
  OBVIOUS
<1>1. acked = <<>> /\ \A f \in Fibers : pc[f] = "idle"
  BY DEF Init
<1> QED
  BY <1>1, FibersAre DEF Kept, Logged, Standing, DuePlaces

LEMMA StutterEffect == UNCHANGED vars => Stays /\ UNCHANGED <<torn, halfMade, crashes>>
<1> SUFFICES ASSUME UNCHANGED vars PROVE Stays /\ UNCHANGED <<torn, halfMade, crashes>>
  OBVIOUS
<1>1. UNCHANGED <<pages, acked, starts, pc, torn, halfMade, crashes>>
  BY DEF vars, files, history
<1>2. Contents' = Contents
  BY <1>1, FilesSame
<1> QED
  BY <1>1, <1>2 DEF Stays

LEMMA StutterKept == Kept /\ UNCHANGED vars => Kept'
<1> SUFFICES ASSUME Kept, UNCHANGED vars, Intact' PROVE Logged' /\ Standing'
  BY DEF Kept
<1>1. Stays /\ Intact /\ (crashes' = 0 => crashes = 0)
      /\ (CollectionMade' => CollectionMade)
  BY StutterEffect DEF Intact, Quiet, CollectionMade
<1> QED
  BY <1>1, StaysKept DEF Kept

\* The index of a collection agrees with its pages, between any two file
\* operations and after a death there: no handler fails over them, a concat
\* finds the page it appends to, and is broadcast with where its entries stand.
THEOREM IndexAlwaysAgrees == Spec => []IndexAgrees
<1>1. Agreement /\ Kept /\ Agreement' /\ [Next]_vars => Kept'
  BY NextKept, StutterKept
<1>2. Agreement /\ Kept => IndexAgrees
  <2> SUFFICES ASSUME Agreement, Kept PROVE IndexAgrees
    OBVIOUS
  <2>1. StartsWhereItStands
    BY WholeLog DEF Kept, Standing, StandsAt, StartsWhereItStands
  <2> QED
    BY <2>1, AgreementCounts, AgreementActive DEF IndexAgrees, Agreement, Files
<1> QED
  BY AgreementHolds, InitKept, <1>1, <1>2, PTL DEF Spec

-----------------------------------------------------------------------------
(* The files implement the log                                             *)

\* A step that adds a batch adds one of those a writer brings, or nothing.
LEMMA GrowsAdds ==
  ASSUME Control, Intact, Intact', NEW f \in Writers, Grows(f)
  PROVE  [Log!Next]_Log!vars
<1>1. Contents' = Contents \o Batch[f] /\ acked' = acked
  BY DEF Grows
<1>2. (~torn' /\ "overlap" \notin halfMade') = (~torn /\ "overlap" \notin halfMade)
      /\ (~torn /\ "overlap" \notin halfMade)
  BY DEF Intact, Quiet
<1>3. CASE Batch[f] = <<>>
  <2>1. Contents' = Contents
    BY <1>1, <1>3, ContentsAre, ConcatEmptySeq
  <2> QED
    BY <1>1, <1>2, <2>1 DEF Log!vars
<1>4. CASE Batch[f] # <<>>
  <2>1. Log!Add
    BY <1>1, <1>2, <1>4 DEF Log!Add
  <2> QED
    BY <1>2, <2>1 DEF Log!Next
<1> QED
  BY <1>3, <1>4

\* What is acknowledged is in the log, behind all that was acknowledged before.
LEMMA AcksAcknowledge ==
  ASSUME Control, Logged, Intact, Intact', NEW f \in Writers, NEW start \in Nat,
         Acks(f, start)
  PROVE  Log!Next
<1>1. /\ Contents' = Contents /\ acked' = Append(acked, Batch[f])
      /\ Batch[f] # <<>> /\ Batch[f] \in Seq(Entries) /\ pc[f] \in DuePlaces
      /\ f \in Fibers
  BY FibersAre DEF Acks, Acknowledge
<1>2. (~torn' /\ "overlap" \notin halfMade') = (~torn /\ "overlap" \notin halfMade)
      /\ (~torn /\ "overlap" \notin halfMade)
  BY DEF Intact, Quiet
<1>3. PICK pre \in Seq(Entries) :
        /\ Contents = pre \o Batch[f]
        /\ \A n \in DOMAIN acked : Log!Contains(pre, acked[n])
  BY <1>1 DEF Logged, EndsWith
<1>4. Log!Contains(Contents, Batch[f])
  BY <1>1, <1>3, ContainsLast
<1>5. ASSUME NEW n \in DOMAIN acked
      PROVE  Log!Before(Contents, acked[n][1], Batch[f][1])
  <2>1. acked[n] # <<>> /\ acked[n] \in Seq(Entries)
    BY <1>5, AckedIn DEF Logged
  <2> QED
    BY <1>1, <1>3, <2>1, ContainsBefore
<1>6. Log!Acknowledge
  BY <1>1, <1>2, <1>4, <1>5 DEF Log!Acknowledge
<1> QED
  BY <1>2, <1>6 DEF Log!Next

LEMMA StepImplements ==
  ASSUME Agreement, Agreement', Kept, Next
  PROVE  [Log!Next]_Log!vars
<1>1. CASE ~Intact'
  <2>1. (~torn' /\ "overlap" \notin halfMade') = FALSE
    BY <1>1 DEF Intact, Quiet
  <2> QED
    BY <2>1 DEF Log!Next, Log!Damage
<1>2. CASE Intact'
  <2>1. Intact /\ Control /\ Logged
    BY <1>2, Losses DEF Agreement, Kept
  <2>2. (~torn' /\ "overlap" \notin halfMade') = (~torn /\ "overlap" \notin halfMade)
        /\ (~torn /\ "overlap" \notin halfMade)
    BY <1>2, <2>1 DEF Intact, Quiet
  <2>3. CASE Stays
    BY <2>2, <2>3 DEF Stays, Log!vars
  <2>4. CASE Goes
    BY <2>2, <2>4 DEF Goes, Log!Delete, Log!Next
  <2>5. \/ Stays \/ Goes
        \/ \E f \in Writers : Grows(f) \/ \E start \in Nat : Acks(f, start)
    BY <1>2, StepEffect DEF Agreement, Effect
  <2> QED
    BY <1>2, <2>1, <2>3, <2>4, <2>5, GrowsAdds, AcksAcknowledge
<1> QED
  BY <1>1, <1>2

LEMMA StutterImplements == UNCHANGED vars => UNCHANGED Log!vars
BY StutterEffect DEF Stays, Log!vars

LEMMA InitImplements == Init => Log!Init
<1> SUFFICES ASSUME Init PROVE Log!Init
  OBVIOUS
<1>1. acked = <<>> /\ ~torn /\ halfMade = {}
  BY DEF Init
<1>2. pages \in [Pages -> PageFiles] /\ \A p \in Pages : pages[p].entries = <<>>
  BY NoPages, PageFields DEF Init
<1>3. Contents = <<>>
  BY <1>2, ListingEmpty, ContentsAre
<1>4. (~torn /\ "overlap" \notin halfMade) = TRUE
  BY <1>1
<1> QED
  BY <1>1, <1>3, <1>4 DEF Log!Init

\* The files implement the append-only log: what a concat adds stands behind what
\* there was, and what is acknowledged stays, through every death that tears no
\* entry, until the collection is deleted.
THEOREM ImplementsTheLog == Spec => ImplementsAppendLog
<1>1. Agreement /\ Agreement' /\ Kept /\ [Next]_vars => [Log!Next]_Log!vars
  BY StepImplements, StutterImplements
<1>2. Agreement /\ Kept /\ Agreement' /\ [Next]_vars => Kept'
  BY NextKept, StutterKept
<1> QED
  BY AgreementHolds, InitKept, InitImplements, <1>1, <1>2, PTL
     DEF Spec, Log!Spec, ImplementsAppendLog

-----------------------------------------------------------------------------
(* Parts without those that are empty                                       *)

\* t is s without parts that are empty: its n parts are those q names, in order.
Picks(E, s, t, q, n) ==
  /\ Len(s) \in Nat \ {0} /\ \A i \in 1 .. Len(s) : s[i] \in Seq(E)
  /\ n \in Nat /\ q \in [1 .. n -> 1 .. Len(s)]
  /\ \A i, j \in 1 .. n : i < j => q[i] < q[j]
  /\ \A p \in 1 .. Len(s) : (\A i \in 1 .. n : q[i] # p) => s[p] = <<>>
  /\ t \in Seq(Seq(E)) /\ Len(t) = n
  /\ \A i \in 1 .. n : t[i] = s[q[i]]

\* One after another, they make the same.
LEMMA FlattenPicks ==
  ASSUME NEW E, NEW s, NEW t, NEW q, NEW n, Picks(E, s, t, q, n)
  PROVE  FlattenSeq(t) = FlattenSeq(s)
<1>1. n \in Nat /\ Len(s) \in Nat \ {0} /\ Len(t) = n
  BY DEF Picks
<1>2. \A i \in 1 .. n : q[i] \in 1 .. Len(s)
  BY DEF Picks
<1>3. \A i, j \in 1 .. n : i < j => q[i] < q[j]
  BY DEF Picks
<1>4. \A p \in 1 .. Len(s) : (\A i \in 1 .. n : q[i] # p) => s[p] = <<>>
  BY DEF Picks
<1>5. \A i \in 1 .. Len(s) : s[i] \in Seq(E)
  BY DEF Picks
<1>6. t \in Seq(Seq(E))
  BY DEF Picks
<1>9. ASSUME NEW i \in 1 .. n PROVE t[i] = s[q[i]]
  BY DEF Picks
<1>7. CASE n = 0
  <2>1. ASSUME NEW p \in 1 .. Len(s) PROVE s[p] = <<>>
    BY <1>4, <1>7
  <2>2. FlattenSeq(s) = <<>>
    BY <1>1, <2>1, FlattenEmpty
  <2>3. t = <<>>
    BY <1>1, <1>6, <1>7, EmptySeq
  <2>4. FlattenSeq(t) = <<>>
    BY <1>1, <1>7, <2>3 DEF FlattenSeq
  <2> QED
    BY <2>2, <2>4
<1>8. CASE n # 0
  <2>1. PICK f : Flattening(f, s)
    BY <1>1, FlattenUnfolds
  <2>2. PICK h : Flattening(h, t)
    BY <1>1, <1>8, FlattenUnfolds
  <2>14. Partials(E, s, f)
    BY <1>1, <1>5, <2>1 DEF Partials
  <2>3. h[1] = f[q[1]]
    <3>1. 1 \in 1 .. n /\ q[1] \in 1 .. Len(s)
      BY <1>1, <1>2, <1>8
    <3>2. ASSUME NEW p \in 1 .. q[1] - 1 PROVE s[p] = <<>>
      <4>1. p \in 1 .. Len(s) /\ p < q[1]
        BY <1>1, <3>1
      <4>2. ASSUME NEW i \in 1 .. n PROVE q[i] # p
        <5>1. i = 1 \/ 1 < i
          BY <1>1
        <5>2. q[1] <= q[i]
          BY <1>2, <1>3, <3>1, <5>1
        <5> QED
          BY <1>2, <3>1, <4>1, <5>2
      <4> QED
        BY <1>4, <4>1, <4>2
    <3>6. Void(s, 1, q[1] - 1)
      BY <3>2 DEF Void
    <3>3. f[q[1]] = s[q[1]]
      BY <2>14, <3>1, <3>6, FlatteningFirst
    <3>4. h[1] = t[1]
      BY <2>2 DEF Flattening
    <3>5. t[1] = s[q[1]]
      BY <1>9, <3>1
    <3> QED
      BY <3>3, <3>4, <3>5, Zenon
  <2>4. ASSUME NEW m \in 1 .. n - 1, h[m] = f[q[m]]
        PROVE  h[m + 1] = f[q[m + 1]]
    <3>1. m \in 1 .. n /\ m + 1 \in 1 .. n /\ m + 1 \in 2 .. Len(t)
          /\ (m + 1) - 1 = m /\ m < m + 1
      BY <1>1
    <3>2. q[m] \in 1 .. Len(s) /\ q[m + 1] \in 1 .. Len(s) /\ q[m] < q[m + 1]
      BY <1>2, <1>3, <3>1
    <3>3. /\ q[m + 1] \in 2 .. Len(s) /\ q[m + 1] - 1 \in 1 .. Len(s)
          /\ q[m] <= q[m + 1] - 1
      BY <1>1, <3>2
    <3>4. ASSUME NEW p \in q[m] + 1 .. q[m + 1] - 1 PROVE s[p] = <<>>
      <4>1. p \in 1 .. Len(s) /\ q[m] < p /\ p < q[m + 1]
        BY <1>1, <3>2
      <4>2. ASSUME NEW i \in 1 .. n PROVE q[i] # p
        <5>1. q[i] \in 1 .. Len(s)
          BY <1>2
        <5>2. i < m \/ i = m \/ i = m + 1 \/ m + 1 < i
          BY <1>1, <3>1
        <5>3. q[i] <= q[m] \/ q[m + 1] <= q[i]
          BY <1>3, <3>1, <3>2, <5>1, <5>2
        <5> QED
          BY <3>2, <4>1, <5>1, <5>3
      <4> QED
        BY <1>4, <4>1, <4>2
    <3>10. Void(s, q[m] + 1, q[m + 1] - 1)
      BY <3>4 DEF Void
    <3>5. f[q[m + 1] - 1] = f[q[m]]
      BY <2>14, <3>2, <3>3, <3>10, FlatteningKeeps
    <3>6. f[q[m + 1]] = f[q[m + 1] - 1] \o s[q[m + 1]]
      BY <2>1, <3>3 DEF Flattening
    <3>7. h[m + 1] = h[(m + 1) - 1] \o t[m + 1]
      BY <2>2, <3>1 DEF Flattening
    <3>8. t[m + 1] = s[q[m + 1]] /\ (m + 1) - 1 = m
      BY <1>9, <3>1
    <3>9. h[m + 1] = f[q[m]] \o s[q[m + 1]]
      BY <2>4, <3>7, <3>8, Zenon
    <3> QED
      BY <3>5, <3>6, <3>9, Zenon
  <2> DEFINE I == {m \in Nat : m + 1 \in 1 .. n => h[m + 1] = f[q[m + 1]]}
  <2>5. 0 \in I
    BY <2>3
  <2>6. ASSUME NEW m \in Nat, m \in I
        PROVE  m + 1 \in I
    <3> SUFFICES ASSUME (m + 1) + 1 \in 1 .. n
                 PROVE  h[(m + 1) + 1] = f[q[(m + 1) + 1]]
      OBVIOUS
    <3>1. m + 1 \in 1 .. n - 1 /\ m + 1 \in 1 .. n
      BY <1>1
    <3> QED
      BY <2>4, <2>6, <3>1
  <2> HIDE DEF I
  <2>7. n - 1 \in Nat /\ (n - 1) + 1 = n /\ n \in 1 .. n
    BY <1>1, <1>8
  <2>8. n - 1 \in I
    BY <2>5, <2>6, <2>7, NatsIn
  <2>9. h[n] = f[q[n]]
    BY <2>7, <2>8 DEF I
  <2>10. q[n] \in 1 .. Len(s)
    BY <1>2, <2>7
  <2>11. ASSUME NEW p \in q[n] + 1 .. Len(s) PROVE s[p] = <<>>
    <3>1. p \in 1 .. Len(s) /\ q[n] < p
      BY <1>1, <2>10
    <3>2. ASSUME NEW i \in 1 .. n PROVE q[i] # p
      <4>1. i = n \/ i < n
        BY <1>1
      <4>2. q[i] <= q[n] /\ q[i] \in 1 .. Len(s)
        BY <1>2, <1>3, <2>7, <2>10, <4>1
      <4> QED
        BY <2>10, <3>1, <4>2
    <3> QED
      BY <1>4, <3>1, <3>2
  <2>12. FlattenSeq(s) = f[q[n]]
    <3>1. Void(s, q[n] + 1, Len(s))
      BY <2>11 DEF Void
    <3> QED
      BY <2>10, <2>14, <3>1, FlatteningStays
  <2>13. FlattenSeq(t) = h[n]
    BY <1>1, <2>2 DEF Flattening
  <2> QED
    BY <2>9, <2>12, <2>13
<1> QED
  BY <1>7, <1>8

\* A sequence of SetToSeqs lists every element, once.
LEMMA Listed ==
  ASSUME NEW S, IsFiniteSet(S), NEW q \in SetToSeqs(S)
  PROVE  /\ q \in [1 .. Cardinality(S) -> S] /\ Cardinality(S) \in Nat
         /\ \A i, j \in 1 .. Cardinality(S) : i # j => q[i] # q[j]
         /\ \A x \in S : \E i \in 1 .. Cardinality(S) : q[i] = x
<1> DEFINE n == Cardinality(S)
           D == 1 .. n
<1>1. n \in Nat
  BY FS_CardinalityType
<1>2. q \in [D -> S] /\ \A i, j \in D : i # j => q[i] # q[j]
  BY DEF SetToSeqs
<1>3. IsFiniteSet(D) /\ Cardinality(D) = n
  <2> HIDE DEF n
  <2> QED
    BY <1>1, FS_Interval
<1>4. q \in Injection(D, S)
  BY <1>2 DEF Injection, IsInjective
<1>5. q \in Surjection(D, S)
  BY <1>3, <1>4, FS_Injection
<1> QED
  BY <1>1, <1>2, <1>5 DEF Surjection

-----------------------------------------------------------------------------
(* The pages are in the order of their numbers                             *)

\* A page without a directory holds nothing; indexes rise with the pages, and
\* stay below the number of pages that the collection's index counts, but for
\* that of a page which a concat is adding.
Hidden == \A p \in Pages : ~pages[p].dir => pages[p].entries = <<>>
Rising == \A p, q \in Pages :
            pages[p].idx /\ pages[q].idx /\ p < q => pages[p].order < pages[q].order
Newest(p) == \E c \in Concats : Adding(c) /\ at[c] = p
InIndex == \A p \in Pages : pages[p].idx => pages[p].order < index.total \/ Newest(p)
Ordered ==
  halfMade = {} => Hidden /\ (pc[Deleter] # "deleting" => Rising /\ InIndex)

LEMMA InitOrdered == Init => Ordered
<1> SUFFICES ASSUME Init PROVE Ordered
  OBVIOUS
<1>1. \A p \in Pages : pages[p] = NoPage
  BY DEF Init
<1> QED
  BY <1>1, PageFields DEF Ordered, Hidden, Rising, InIndex

LEMMA StutterOrdered == Ordered /\ UNCHANGED vars => Ordered'
BY DEF Ordered, Hidden, Rising, InIndex, Newest, Adding, vars, files

\* What was whole stays so only if it was.
LEMMA HalfMadeGrows ==
  ASSUME Next, halfMade' = {}
  PROVE  halfMade = {}
BY DEF Next, Making, CreateIndex, CreatePageIndex, CreateData, Gone, Create,
       CreateAck, Concat, ConcatBegin, ConcatRead, ConcatAppend, ConcatNewPage,
       ConcatNewPageIndex, ConcatNewPageData, ConcatWriteIndex, ConcatAck, Read,
       ReadBegin, ReadRefused, ReadAnswer, DeleteBegin, DeleteEnd, DeleteRefused,
       Crash, Lock

LEMMA WholeIsQuiet ==
  /\ halfMade = {} => Quiet /\ CollectionMade
  /\ halfMade' = {} => Quiet' /\ CollectionMade'
BY DEF Quiet, CollectionMade

\* Orders and their heights are numbers.
LEMMA OrdersAre ==
  ASSUME Control
  PROVE  /\ index.total \in Nat /\ \A p \in Pages : pages[p].order \in Nat
BY IndexIn DEF Control, TypeOK, PageFiles

\* One page is in order.
LEMMA OnePageOrdered ==
  ASSUME NEW p \in Pages, \A q \in Pages : q # p => pages'[q] = NoPage,
         pages'[p].dir, pages'[p].idx => pages'[p].order = 0 /\ index'.total = 1
  PROVE  Ordered'
<1>1. \A q \in Pages : q # p => ~pages'[q].idx /\ pages'[q].entries = <<>>
  BY PageFields
<1>2. Hidden'
  BY <1>1 DEF Hidden
<1>3. \A q, r \in Pages : q < r => q # r
  BY PagesAre
<1>4. Rising'
  BY <1>1, <1>3 DEF Rising
<1>5. InIndex'
  BY <1>1 DEF InIndex
<1> QED
  BY <1>2, <1>4, <1>5 DEF Ordered

\* A step that touches no index of a page.
LEMMA OrderKept ==
  ASSUME Ordered, halfMade = {}, NEW f \in Fibers, OthersSame(f),
         \A g \in Fibers : g # f => at'[g] = at[g],
         f \in Concats => ~Adding(f), pc[Deleter] # "deleting", index' = index,
         \A p \in Pages : pages'[p].idx = pages[p].idx /\ pages'[p].order = pages[p].order,
         Hidden'
  PROVE  Ordered'
<1>1. Rising /\ InIndex
  BY DEF Ordered
<1>2. ASSUME NEW p \in Pages, Newest(p) PROVE Newest(p)'
  <2>1. PICK c \in Concats : Adding(c) /\ at[c] = p
    BY <1>2 DEF Newest
  <2>2. c # f /\ c \in Fibers
    BY <2>1, FibersAre
  <2>3. pc'[c] = pc[c] /\ at'[c] = at[c]
    BY <2>2 DEF OthersSame
  <2>4. Adding(c)'
    BY <2>1, <2>3 DEF Adding
  <2> QED
    BY <2>1, <2>3, <2>4 DEF Newest
<1>3. Rising'
  BY <1>1 DEF Rising
<1>4. InIndex'
  BY <1>1, <1>2 DEF InIndex
<1> QED
  BY <1>3, <1>4 DEF Ordered

\* ... and no file at all.
LEMMA OrderStays ==
  ASSUME Control, Ordered, halfMade = {}, NEW f \in Fibers, NEW place, Go(f, place),
         \A g \in Fibers : g # f => at'[g] = at[g],
         f \in Concats => ~Adding(f), pc[Deleter] # "deleting",
         UNCHANGED <<index, pages>>
  PROVE  Ordered'
<1>1. OthersSame(f)
  BY GoOthers
<1>2. Hidden'
  BY DEF Ordered, Hidden
<1> QED
  BY <1>1, <1>2, OrderKept

\* Who runs is not beside the deleter.
LEMMA NotDeleting ==
  ASSUME Control, Quiet, NEW f \in Fibers, f # Deleter,
         pc[f] \notin Ended \/ \A g \in Fibers : pc[g] \in Ended
  PROVE  pc[Deleter] # "deleting"
<1>1. pc[Deleter] \in Ended
  BY Alone, FibersAre
<1> QED
  BY <1>1 DEF Ended

\* ... and the one concat that may be adding.
LEMMA OnlyAdder ==
  ASSUME Control, Quiet, NEW f \in Fibers,
         pc[f] \notin Ended, NEW c \in Concats, Adding(c)
  PROVE  c = f
<1>1. c \in Fibers /\ pc[c] \notin Ended
  BY FibersAre DEF Adding, NewPlaces, Ended
<1> QED
  BY <1>1, Alone

LEMMA MakingOrdered ==
  ASSUME Control, Sound, Ordered, halfMade = {}, NEW f \in Fibers, Making(f)
  PROVE  Ordered'
<1>1. Quiet
  BY WholeIsQuiet
<1>2. ~Gone(f)
  BY <1>1, NotGone
<1>3. CASE CreateData(f)
  <2>1. /\ at[f] \in Pages /\ index' = index
        /\ index = [active |-> at[f], total |-> 1,
                    count |-> Len(InitialEntries(f))]
        /\ pages'[at[f]] = [Indexed(0) EXCEPT !.data = TRUE,
                                              !.entries = InitialEntries(f)]
        /\ \A p \in Pages : p # at[f] => pages'[p] = NoPage
    BY <1>1, <1>3, CreateDataMakes
  <2>2. pages'[at[f]].dir /\ pages'[at[f]].order = 0
    BY <2>1 DEF Indexed, Fresh, NoPage
  <2>3. index'.total = 1
    BY <2>1
  <2> QED
    BY <2>1, <2>2, <2>3, OnePageOrdered
<1>4. CASE CreateIndex(f)
  <2>1. pc[f] \in MakingPlaces /\ at[f] \in Pages /\ pc[f] = "createIndex"
    BY <1>4, AtIsMade DEF CreateIndex, MakingPlaces
  <2>4. Creates(f)
    BY <1>1, <2>1 DEF Sound, Doing
  <2>2. pages = Only(at[f], Fresh)
    BY <2>1, <2>4 DEF Creates
  <2>3. /\ pages'[at[f]] = Fresh
        /\ \A p \in Pages : p # at[f] => pages'[p] = NoPage
    BY <1>4, <2>1, <2>2 DEF Only, CreateIndex
  <2> QED
    BY <2>1, <2>3, PageFields, OnePageOrdered
<1>5. CASE CreatePageIndex(f)
  <2>1. pc[f] \in MakingPlaces /\ at[f] \in Pages /\ pc[f] = "createPageIndex"
    BY <1>5, AtIsMade DEF CreatePageIndex, MakingPlaces
  <2>2. Creates(f)
    BY <1>1, <2>1 DEF Sound, Doing
  <2>3. pages = Only(at[f], Fresh) /\ index.total = 1
    BY <2>1, <2>2 DEF Creates
  <2>4. pages' = [pages EXCEPT ![at[f]] =
                    [pages[at[f]] EXCEPT !.idx = TRUE, !.order = 0]]
    BY <1>5 DEF CreatePageIndex
  <2>5. pages[at[f]] = Fresh
    BY <2>1, <2>3 DEF Only
  <2>6. /\ pages'[at[f]] = [Fresh EXCEPT !.idx = TRUE, !.order = 0]
        /\ \A p \in Pages : p # at[f] => pages'[p] = NoPage
    BY <2>1, <2>3, <2>4, <2>5 DEF Only
  <2>7. pages'[at[f]].dir /\ pages'[at[f]].order = 0
    BY <2>6 DEF Fresh, NoPage
  <2>8. index' = index
    BY <1>5 DEF CreatePageIndex
  <2> QED
    BY <2>1, <2>3, <2>6, <2>7, <2>8, OnePageOrdered
<1> QED
  BY <1>2, <1>3, <1>4, <1>5 DEF Making

\* Who makes the collection starts with one page.
LEMMA StartsOrdered ==
  ASSUME Control, Control', Sound, Quiet, NEW f \in Fibers, ~dir, MakeDirectory(f)
  PROVE  Ordered'
<1>1. born' \in 0 .. Cardinality(Pages)
  BY DEF Control, TypeOK
<1>2. /\ born + 1 \in Pages
      /\ pages' = [pages EXCEPT ![born + 1] = Fresh]
  BY <1>1, MakesPage
<1>3. pages = Empty
  BY DEF Sound
<1>4. /\ pages'[born + 1] = Fresh
      /\ \A p \in Pages : p # born + 1 => pages'[p] = NoPage
  BY <1>2, <1>3 DEF Empty
<1> QED
  BY <1>2, <1>4, PageFields, OnePageOrdered

LEMMA CreateOrdered ==
  ASSUME Control, Control', Sound, halfMade' = {}, Create
  PROVE  Ordered'
<1>1. Quiet /\ ~dir /\ Creator \in Fibers
  BY WholeIsQuiet, NobodyAtCreate, FibersAre
<1> QED
  BY <1>1, StartsOrdered DEF Create

LEMMA CreateAckOrdered ==
  ASSUME Control, Ordered, halfMade = {}, CreateAck
  PROVE  Ordered'
<1>1. Creator \in Fibers /\ Creator # Deleter /\ Creator \notin Concats
  BY FibersAre
<1>2. pc[Creator] \notin Ended
  BY DEF CreateAck, Ended
<1>3. pc[Deleter] # "deleting"
  BY <1>1, <1>2, WholeIsQuiet, NotDeleting
<1>4. Go(Creator, "done") /\ at' = at /\ UNCHANGED <<index, pages>>
  BY DEF CreateAck, files
<1> QED
  BY <1>1, <1>3, <1>4, OrderStays

LEMMA BeginOrdered ==
  ASSUME Control, Control', Sound, Ordered, halfMade = {}, halfMade' = {},
         NEW f \in Concats \cup Readers, Lock(f),
         IF dir THEN Go(f, "opened") /\ UNCHANGED <<files, at>>
                ELSE MakeDirectory(f) /\ Go(f, "createIndex")
  PROVE  Ordered'
<1>1. f \in Fibers /\ f # Deleter
  BY FibersAre
<1>2. Quiet /\ \A g \in Fibers : pc[g] \in Ended
  BY <1>1, WholeIsQuiet, NobodyAtLock
<1>3. CASE ~dir
  BY <1>1, <1>2, <1>3, StartsOrdered
<1>4. CASE dir
  <2>1. Go(f, "opened") /\ UNCHANGED <<index, pages>> /\ at' = at
    BY <1>4 DEF files
  <2>2. pc[Deleter] # "deleting" /\ ~Adding(f)
    BY <1>1, <1>2, NotDeleting DEF Adding, Ended, NewPlaces
  <2> QED
    BY <1>1, <2>1, <2>2, OrderStays
<1> QED
  BY <1>3, <1>4

LEMMA ConcatOrdered ==
  ASSUME Control, Control', Sound, Ordered, halfMade = {}, halfMade' = {},
         NEW c \in Concats, Concat(c)
  PROVE  Ordered'
<1>1. Quiet /\ CollectionMade /\ c \in Fibers /\ c # Deleter
  BY WholeIsQuiet, FibersAre
<1>2. CASE ConcatBegin(c)
  BY <1>2, BeginOrdered DEF ConcatBegin
<1>3. pc[c] # "idle" =>
        /\ Rising /\ InIndex /\ Hidden
        /\ pages \in [Pages -> PageFiles] /\ index.total \in Nat
        /\ \A p \in Pages : pages[p].order \in Nat
  <2>1. CASE pc[c] \in Ended /\ pc[c] # "idle"
    <3>1. FALSE
      BY <2>1 DEF Concat, ConcatBegin, ConcatRead, ConcatAppend, ConcatNewPage,
         ConcatNewPageIndex, ConcatNewPageData, ConcatWriteIndex, ConcatAck, Lock,
         Ended
    <3> QED
      BY <3>1
  <2>2. CASE pc[c] \notin Ended
    <3>1. pc[Deleter] # "deleting"
      BY <1>1, <2>2, NotDeleting
    <3> QED
      BY <3>1, OrdersAre DEF Ordered, Control, TypeOK
  <2> QED
    BY <2>1, <2>2
<1>4. ASSUME pc[c] \in WritingPlaces \cup {"opened"}
      PROVE  /\ pc[c] \notin Ended /\ pc[c] # "idle" /\ pc[Deleter] # "deleting"
             /\ \A d \in Concats : Adding(d) => d = c
             /\ Healthy
  <2>1. pc[c] \notin Ended /\ pc[c] # "idle" /\ Healthy
    BY <1>1, <1>4, AtConcat DEF Ended
  <2> QED
    BY <1>1, <2>1, NotDeleting, OnlyAdder
<1>5. CASE ConcatRead(c)
  <2>1. pc[c] = "opened" /\ ~Adding(c)
    BY <1>5 DEF ConcatRead, Adding, NewPlaces
  <2>2. /\ UNCHANGED <<index, pages>> /\ \A g \in Fibers : g # c => at'[g] = at[g]
        /\ \E place : Go(c, place)
    BY <1>5 DEF ConcatRead, files, Fail, Control, TypeOK
  <2> QED
    BY <1>1, <1>4, <2>1, <2>2, OrderStays
<1>6. CASE ConcatAck(c)
  <2>1. pc[c] = "written" /\ ~Adding(c)
    BY <1>6 DEF ConcatAck, Adding, NewPlaces
  <2>2. UNCHANGED <<index, pages>> /\ at' = at /\ Go(c, "done")
    BY <1>6 DEF ConcatAck, files
  <2> QED
    BY <1>1, <1>4, <2>1, <2>2, OrderStays DEF WritingPlaces
<1>7. CASE ConcatAppend(c)
  <2>1. pc[c] = "append" /\ ~Adding(c)
    BY <1>7 DEF ConcatAppend, Adding, NewPlaces
  <2>2. index' = index /\ at' = at /\ Go(c, "writeIndex")
    BY <1>7 DEF ConcatAppend
  <2>3. /\ index.active \in Pages
        /\ pages'[index.active] =
             [pages[index.active] EXCEPT !.entries = Joined(index.active, Batch[c])]
        /\ \A p \in Pages : p # index.active => pages'[p] = pages[p]
    BY <1>1, <1>7, Appends
  <2>4. pages[index.active] \in PageFiles /\ pages[index.active].dir
    BY <1>4, <2>1, <2>3 DEF WritingPlaces, Healthy, Control, TypeOK
  <2>5. /\ pages'[index.active].idx = pages[index.active].idx
        /\ pages'[index.active].order = pages[index.active].order
        /\ pages'[index.active].dir
    BY <2>3, <2>4 DEF PageFiles
  <2>6. Hidden'
    BY <1>3, <2>1, <2>3, <2>5 DEF Hidden
  <2>7. OthersSame(c)
    BY <1>1, <2>2, GoOthers
  <2>8. \A p \in Pages : pages'[p].idx = pages[p].idx /\ pages'[p].order = pages[p].order
    BY <2>3, <2>5
  <2> QED
    BY <1>1, <1>4, <2>1, <2>2, <2>6, <2>7, <2>8, OrderKept DEF WritingPlaces
<1>8. CASE ConcatNewPage(c)
  <2>1. pc[c] = "newPage" /\ ~Adding(c) /\ index' = index
    BY <1>8 DEF ConcatNewPage, Adding, NewPlaces, MakeDirectory
  <2>2. /\ born + 1 \in Pages /\ pages[born + 1] = NoPage
        /\ pages' = [pages EXCEPT ![born + 1] = Fresh]
        /\ \A g \in Fibers : g # c => at'[g] = at[g]
    BY <1>1, <1>8, MakesPage DEF ConcatNewPage, Control, TypeOK
  <2>3. /\ pages'[born + 1] = Fresh
        /\ \A p \in Pages : p # born + 1 => pages'[p] = pages[p]
    BY <1>3, <2>1, <2>2
  <2>4. Hidden'
    BY <1>3, <2>1, <2>3, PageFields DEF Hidden
  <2>5. OthersSame(c)
    BY <1>1, <1>8, GoOthers DEF ConcatNewPage
  <2>6. ASSUME NEW p \in Pages
        PROVE  pages'[p].idx = pages[p].idx /\ pages'[p].order = pages[p].order
    <3>1. Fresh.idx = NoPage.idx /\ Fresh.order = NoPage.order
      BY DEF Fresh, NoPage
    <3>2. pages'[born + 1].idx = pages[born + 1].idx
          /\ pages'[born + 1].order = pages[born + 1].order
      BY <2>2, <2>3, <3>1, Zenon
    <3> QED
      BY <2>3, <3>2
  <2> QED
    BY <1>1, <1>4, <2>1, <2>2, <2>4, <2>5, <2>6, OrderKept DEF WritingPlaces
<1>9. CASE ConcatNewPageIndex(c)
  <2>1. pc[c] = "newPageIndex" /\ pc'[c] = "newPageData" /\ UNCHANGED <<index, at>>
    BY <1>1, <1>9, GoOthers DEF ConcatNewPageIndex
  <2>2. /\ known[c] = index /\ at[c] = born /\ at[c] \in Pages /\ pages[at[c]] = Fresh
    BY <1>1, <2>1, AtNewPage DEF NewPlaces
  <2>3. pages' = [pages EXCEPT ![at[c]] =
                    [pages[at[c]] EXCEPT !.idx = TRUE, !.order = known[c].total]]
    BY <1>9 DEF ConcatNewPageIndex
  <2>4. /\ pages'[at[c]] = [Fresh EXCEPT !.idx = TRUE, !.order = index.total]
        /\ \A p \in Pages : p # at[c] => pages'[p] = pages[p]
    BY <1>3, <2>1, <2>2, <2>3
  <2>5. pages'[at[c]].idx /\ pages'[at[c]].order = index.total /\ pages'[at[c]].dir
    BY <2>4 DEF Fresh, NoPage
  <2>6. Newest(at[c])'
    BY <2>1 DEF Newest, Adding, NewPlaces
  <2>7. ASSUME NEW p \in Pages, p # at[c], pages[p].idx
        PROVE  pages[p].order < index.total /\ p < at[c]
    <3>1. ~Newest(p)
      BY <1>4, <2>1, <2>7 DEF Newest, WritingPlaces
    <3>2. p <= born
      <4>1. p > born => pages[p] = NoPage
        BY DEF Control, Numbered
      <4>2. born \in Nat /\ p \in Nat /\ ~(p > born)
        BY <2>7, <4>1, PagesAre, PageFields DEF Control, TypeOK
      <4> QED
        BY <4>2
    <3>3. p < at[c]
      BY <2>2, <2>7, <3>2, PagesAre
    <3> QED
      BY <1>3, <2>1, <2>7, <3>1, <3>3 DEF InIndex
  <2>8. Hidden'
    BY <1>3, <2>1, <2>4, <2>5 DEF Hidden
  <2>9. InIndex'
    BY <2>1, <2>4, <2>6, <2>7 DEF InIndex
  <2>10. ASSUME NEW p \in Pages, NEW q \in Pages, pages'[p].idx, pages'[q].idx, p < q
         PROVE  pages'[p].order < pages'[q].order
    <3>1. CASE q = at[c]
      <4>1. p # at[c]
        BY <2>2, <2>10, <3>1, PagesAre
      <4> QED
        BY <2>4, <2>5, <2>7, <2>10, <3>1, <4>1
    <3>2. CASE q # at[c]
      <4>1. q < at[c]
        BY <2>4, <2>7, <2>10, <3>2
      <4>2. p # at[c]
        BY <2>2, <2>10, <4>1, PagesAre
      <4> QED
        BY <1>3, <2>1, <2>4, <2>10, <3>2, <4>2 DEF Rising
    <3> QED
      BY <3>1, <3>2
  <2>11. Rising'
    BY <2>10 DEF Rising
  <2> QED
    BY <2>8, <2>9, <2>11 DEF Ordered
<1>10. CASE ConcatNewPageData(c)
  <2>1. pc[c] = "newPageData" /\ pc'[c] = "writeIndex" /\ UNCHANGED <<index, at>>
    BY <1>1, <1>10, GoOthers DEF ConcatNewPageData
  <2>2. at[c] \in Pages /\ at[c] # index.active
    BY <1>1, <2>1, AtNewPage DEF NewPlaces
  <2>3. /\ pages[at[c]] = Indexed(index.total)
        /\ pages'[at[c]] = [Indexed(index.total) EXCEPT !.data = TRUE,
                                                        !.entries = Batch[c]]
        /\ \A p \in Pages : p # at[c] => pages'[p] = pages[p]
    BY <1>1, <1>10, AddsPage
  <2>4. /\ pages'[at[c]].idx = pages[at[c]].idx
        /\ pages'[at[c]].order = pages[at[c]].order /\ pages'[at[c]].dir
    BY <2>3 DEF Indexed, Fresh, NoPage
  <2>5. \A p \in Pages : pages'[p].idx = pages[p].idx /\ pages'[p].order = pages[p].order
    BY <2>3, <2>4
  <2>6. Hidden'
    BY <1>3, <2>1, <2>3, <2>4 DEF Hidden
  <2>7. ASSUME NEW p \in Pages, Newest(p) PROVE Newest(p)'
    <3>1. p = at[c]
      BY <1>4, <2>1, <2>7 DEF Newest, WritingPlaces
    <3>2. Adding(c)'
      BY <2>1, <2>2 DEF Adding
    <3> QED
      BY <2>1, <3>1, <3>2 DEF Newest
  <2>8. Rising'
    BY <1>3, <2>1, <2>5 DEF Rising
  <2>9. InIndex'
    BY <1>3, <2>1, <2>5, <2>7 DEF InIndex
  <2> QED
    BY <2>6, <2>8, <2>9 DEF Ordered
<1>11. CASE ConcatWriteIndex(c)
  <2>1. pc[c] = "writeIndex" /\ pages' = pages /\ at' = at
    BY <1>11 DEF ConcatWriteIndex
  <2>2. /\ index'.total = index.total + (IF at[c] = index.active THEN 0 ELSE 1)
        /\ at[c] # index.active => pages[at[c]].order = index.total
    BY <1>1, <1>11, SetsIndex
  <2>3. ASSUME NEW p \in Pages, pages[p].idx PROVE pages[p].order < index'.total
    <3>1. CASE Newest(p)
      <4>1. Adding(c) /\ p = at[c]
        BY <1>4, <2>1, <3>1 DEF Newest, WritingPlaces
      <4>2. at[c] # index.active
        BY <2>1, <4>1 DEF Adding, NewPlaces
      <4> QED
        BY <1>3, <2>1, <2>2, <4>1, <4>2
    <3>2. CASE ~Newest(p)
      <4>1. pages[p].order < index.total
        BY <1>3, <2>1, <2>3, <3>2 DEF InIndex
      <4> QED
        BY <1>3, <2>1, <2>2, <4>1
    <3> QED
      BY <3>1, <3>2
  <2>4. InIndex'
    BY <2>1, <2>3 DEF InIndex
  <2>5. Rising' /\ Hidden'
    BY <1>3, <2>1 DEF Rising, Hidden
  <2> QED
    BY <2>4, <2>5 DEF Ordered
<1> QED
  BY <1>2, <1>5, <1>6, <1>7, <1>8, <1>9, <1>10, <1>11 DEF Concat

LEMMA ReadOrdered ==
  ASSUME Control, Control', Sound, Ordered, halfMade = {}, halfMade' = {},
         NEW r \in Readers, Read(r)
  PROVE  Ordered'
<1>1. Quiet /\ r \in Fibers /\ r # Deleter /\ r \notin Concats
  BY WholeIsQuiet, FibersAre
<1>2. CASE ReadBegin(r)
  BY <1>2, BeginOrdered DEF ReadBegin
<1>3. CASE ReadRefused(r)
  <2>1. Go(r, "done") /\ at' = at /\ UNCHANGED <<index, pages>> /\ holder = {}
    BY <1>3 DEF ReadRefused, files
  <2>2. pc[Deleter] # "deleting"
    <3>1. Deleter \in Fibers /\ Deleter # Creator
      BY FibersAre
    <3> QED
      BY <2>1, <3>1 DEF Control, Mutex, Running, Ended
  <2> QED
    BY <1>1, <2>1, <2>2, OrderStays
<1>4. CASE ReadAnswer(r)
  <2>1. at' = at /\ UNCHANGED <<index, pages>> /\ pc[r] \notin Ended
    BY <1>4 DEF ReadAnswer, files, Ended
  <2>2. \E place : Go(r, place)
    BY <1>4 DEF ReadAnswer, Fail
  <2>3. pc[Deleter] # "deleting"
    BY <1>1, <2>1, NotDeleting
  <2> QED
    BY <1>1, <2>1, <2>2, <2>3, OrderStays
<1> QED
  BY <1>2, <1>3, <1>4 DEF Read

LEMMA DeleteOrdered ==
  ASSUME Control, Sound, Ordered, halfMade = {}, halfMade' = {},
         DeleteBegin \/ DeleteEnd \/ DeleteRefused
  PROVE  Ordered'
<1>1. Deleter \in Fibers /\ Deleter \notin Concats
  BY FibersAre
<1>2. \A p \in Pages : Empty[p] = NoPage
  BY DEF Empty
<1>3. CASE DeleteBegin
  <2>1. pc'[Deleter] = "deleting" /\ (pages' = pages \/ pages' = Empty)
    BY <1>1, <1>3, GoOthers DEF DeleteBegin, Empty
  <2>2. Hidden'
    BY <1>2, <2>1, PageFields DEF Ordered, Hidden
  <2> QED
    BY <2>1, <2>2 DEF Ordered
<1>4. CASE DeleteEnd
  <2>1. \A p \in Pages : pages'[p] = NoPage
    BY <1>4 DEF DeleteEnd
  <2> QED
    BY <2>1, PageFields DEF Ordered, Hidden, Rising, InIndex
<1>5. CASE DeleteRefused
  <2>1. /\ Go(Deleter, "done") /\ at' = at /\ UNCHANGED <<index, pages>>
        /\ pc[Deleter] = "idle"
    BY <1>5 DEF DeleteRefused, files
  <2> QED
    BY <1>1, <2>1, OrderStays
<1> QED
  BY <1>3, <1>4, <1>5

\* After a death with nothing left half-made all pages are counted.
LEMMA CrashOrdered ==
  ASSUME Control, Sound, Ordered, halfMade = {}, halfMade' = {}, Crash
  PROVE  Ordered'
<1>1. Quiet /\ CollectionMade' /\ CollectionMade
  BY WholeIsQuiet
<1>2. /\ UNCHANGED <<index, at>>
      /\ Running \cap Creating = {} /\ Deleter \notin Running
      /\ \A p \in Pages :
           /\ pages'[p].dir = pages[p].dir /\ pages'[p].idx = pages[p].idx
           /\ pages'[p].order = pages[p].order
      /\ \/ UNCHANGED <<pages, torn>>
         \/ \E f \in Writers :
              /\ pc[f] \in {"append", "newPageData", "createData"}
              /\ at[f] \in Pages
              /\ \A p \in Pages : p # at[f] => pages'[p] = pages[p]
  BY <1>1, CrashLeaves
<1>3. ASSUME NEW c \in Concats PROVE ~Adding(c)
  <2>1. SUFFICES ASSUME Adding(c) PROVE FALSE
    OBVIOUS
  <2>2. Left = {}
    BY DEF Crash
  <2>3. pc[c] \notin NewPlaces /\ ~(pc[c] = "writeIndex" /\ at[c] # known[c].active)
    BY <2>2 DEF Left, NewPlaces
  <2>4. pc[c] = "writeIndex" /\ at[c] # index.active
    BY <2>1, <2>3 DEF Adding
  <2>5. c \in Fibers /\ Doing(c)
    BY <1>1, <2>4, AtConcat DEF WritingPlaces
  <2>6. Concatenates(c)
    BY <2>4, <2>5 DEF Doing, WritingPlaces
  <2>7. known[c] = index
    BY <2>4, <2>6 DEF Concatenates, KnownPlaces, WritingPlaces
  <2> QED
    BY <2>3, <2>4, <2>7
<1>4. Hidden'
  <2>1. Hidden
    BY DEF Ordered
  <2>2. CASE UNCHANGED <<pages, torn>>
    BY <2>1, <2>2 DEF Hidden
  <2>3. CASE ~UNCHANGED <<pages, torn>>
    <3>1. PICK f \in Writers :
            /\ pc[f] \in {"append", "newPageData", "createData"}
            /\ at[f] \in Pages
            /\ \A p \in Pages : p # at[f] => pages'[p] = pages[p]
      BY <1>2, <2>3
    <3>2. f \in Fibers /\ pc[f] # "createData"
      <4>1. f \in Fibers
        BY FibersAre
      <4> QED
        BY <1>2, <4>1 DEF Running, Creating, Ended
    <3>3. f \in Concats
      BY <3>1, <3>2 DEF Control, Roles, Fits, WritingPlaces
    <3>4. pc[f] = "append"
      BY <1>3, <3>1, <3>2, <3>3 DEF Adding, NewPlaces
    <3>5. Doing(f) /\ Healthy
      BY <1>1, <3>3, <3>4, AtConcat DEF WritingPlaces
    <3>6. Concatenates(f)
      BY <3>4, <3>5 DEF Doing, WritingPlaces
    <3>7. at[f] = index.active
      BY <3>4, <3>6 DEF Concatenates
    <3>8. pages'[at[f]].dir
      BY <1>2, <3>1, <3>5, <3>7 DEF Healthy
    <3> QED
      BY <2>1, <3>1, <3>8 DEF Hidden
  <2> QED
    BY <2>2, <2>3
<1>5. Rising /\ InIndex
  BY <1>2, FibersAre DEF Running, Ended, Ordered
<1>6. Rising'
  BY <1>2, <1>5 DEF Rising
<1>7. InIndex'
  BY <1>2, <1>3, <1>5 DEF InIndex, Newest
<1> QED
  BY <1>4, <1>6, <1>7 DEF Ordered

LEMMA NextOrdered ==
  Control /\ Control' /\ Sound /\ Ordered /\ Next => Ordered'
<1> SUFFICES ASSUME Control, Control', Sound, Ordered, Next, halfMade' = {}
             PROVE  Ordered'
  BY DEF Ordered
<1>1. halfMade = {}
  BY HalfMadeGrows
<1> QED
  BY <1>1, MakingOrdered, CreateOrdered, CreateAckOrdered, ConcatOrdered,
     ReadOrdered, DeleteOrdered, CrashOrdered DEF Next

\* The parts that a read puts together are those of Contents without the pages
\* that are not there.
LEMMA ReadsInOrder ==
  ASSUME Control, Hidden, Rising, Readable, NEW seq \in SetToSeqs(Present),
         \A i, j \in DOMAIN seq : i < j => pages[seq[i]].order <= pages[seq[j]].order
  PROVE  FlattenSeq([i \in DOMAIN seq |-> pages[seq[i]].entries]) = Contents
<1> DEFINE n == Cardinality(Present)
           s == [p \in Pages |-> pages[p].entries]
           t == [i \in DOMAIN seq |-> pages[seq[i]].entries]
<1>1. /\ seq \in [1 .. n -> Present] /\ n \in Nat
      /\ \A i, j \in 1 .. n : i # j => seq[i] # seq[j]
      /\ \A x \in Present : \E i \in 1 .. n : seq[i] = x
  BY PresentIs, Listed
<1> HIDE DEF n
<1>2. \A i \in 1 .. n : seq[i] \in Pages /\ pages[seq[i]].idx
  BY <1>1 DEF Readable, Present, Whole
<1>3. ASSUME NEW i \in 1 .. n, NEW j \in 1 .. n, i < j
      PROVE  seq[i] < seq[j]
  <2>1. seq[i] \in Pages /\ seq[j] \in Pages /\ pages[seq[i]].idx /\ pages[seq[j]].idx
    BY <1>2
  <2>2. i # j
    BY <1>3, <1>1
  <2>3. seq[i] # seq[j]
    BY <1>1, <2>2
  <2>4. pages[seq[i]].order <= pages[seq[j]].order
    BY <1>1, <1>3
  <2>5. ~(pages[seq[j]].order < pages[seq[i]].order)
    BY <2>1, <2>4, OrdersAre
  <2>6. ~(seq[j] < seq[i])
    BY <2>1, <2>5 DEF Rising
  <2> QED
    BY <2>1, <2>3, <2>6, PagesAre
<1>4. /\ Len(s) \in Nat \ {0} /\ 1 .. Len(s) = Pages
      /\ \A p \in Pages : s[p] = pages[p].entries
      /\ \A p \in 1 .. Len(s) : s[p] \in Seq(Entries)
  BY PartsAre DEF Control, TypeOK
<1>5. t = [i \in 1 .. n |-> pages[seq[i]].entries]
  BY <1>1
<1>6. \A i \in 1 .. n : pages[seq[i]].entries \in Seq(Entries)
  BY <1>2 DEF Control, TypeOK, PageFiles
<1>7. t \in Seq(Seq(Entries)) /\ Len(t) = n
      /\ \A i \in 1 .. n : t[i] = pages[seq[i]].entries
  BY <1>1, <1>5, <1>6
<1> HIDE DEF s, t
<1>8. seq \in [1 .. n -> 1 .. Len(s)]
  BY <1>1, <1>2, <1>4
<1>9. ASSUME NEW p \in 1 .. Len(s), \A i \in 1 .. n : seq[i] # p
      PROVE  s[p] = <<>>
  <2>1. p \in Pages /\ p \notin Present
    BY <1>1, <1>4, <1>9
  <2> QED
    BY <1>4, <2>1 DEF Hidden, Present
<1>10. \A i \in 1 .. n : t[i] = s[seq[i]]
  BY <1>2, <1>4, <1>7
<1>11. Picks(Entries, s, t, seq, n)
  BY <1>1, <1>3, <1>4, <1>7, <1>8, <1>9, <1>10 DEF Picks
<1>12. FlattenSeq(t) = FlattenSeq(s)
  BY <1>11, FlattenPicks
<1> QED
  BY <1>12 DEF Contents, s, t

\* A reader under way goes on only by its answer.
LEMMA StepsOfReader ==
  ASSUME Control, Next, NEW r \in Readers, pc[r] = "opened", pc'[r] = "done"
  PROVE  ReadAnswer(r)
<1>1. r \in Fibers /\ r \notin Writers /\ r # Deleter
  BY FibersAre DEF Writers
<1>2. ASSUME NEW f \in Fibers, Making(f) PROVE FALSE
  <2>1. PICK place : Go(f, place) /\ pc[f] \in MakingPlaces
    BY <1>2 DEF Making, CreateIndex, CreatePageIndex, CreateData, Gone, MakingPlaces
  <2>2. f # r
    BY <2>1 DEF MakingPlaces
  <2> QED
    BY <1>1, <2>1, <2>2, GoOthers DEF OthersSame
<1>3. ASSUME NEW f \in Fibers, f # r, NEW place, Go(f, place) PROVE FALSE
  BY <1>1, <1>3, GoOthers DEF OthersSame
<1>4. ~Create /\ ~CreateAck
  BY <1>1, <1>3, FibersAre DEF Create, CreateAck
<1>5. ASSUME NEW c \in Concats, Concat(c) PROVE FALSE
  <2>1. c \in Fibers /\ c # r
    BY <1>1, FibersAre DEF Writers
  <2>2. \E place : Go(c, place)
    BY <1>5 DEF Concat, ConcatBegin, ConcatRead, ConcatAppend, ConcatNewPage,
       ConcatNewPageIndex, ConcatNewPageData, ConcatWriteIndex, ConcatAck, Fail
  <2> QED
    BY <1>3, <2>1, <2>2
<1>6. ASSUME NEW q \in Readers, Read(q), ~ReadAnswer(r) PROVE FALSE
  <2>1. \E place : Go(q, place)
    BY <1>6 DEF Read, ReadBegin, ReadRefused, ReadAnswer, Fail
  <2>2. q \in Fibers
    BY FibersAre
  <2>3. q # r
    BY <1>6 DEF Read, ReadBegin, ReadRefused, Lock
  <2> QED
    BY <1>3, <2>1, <2>2, <2>3
<1>7. ~DeleteBegin /\ ~DeleteEnd /\ ~DeleteRefused
  BY <1>1, <1>3, FibersAre DEF DeleteBegin, DeleteEnd, DeleteRefused
<1>8. ~Crash
  BY <1>1 DEF Crash, Running, Ended
<1> QED
  BY <1>2, <1>4, <1>5, <1>6, <1>7, <1>8 DEF Next

\* While no creation or deletion was cut off or overlapped and no page was left
\* half-made, a read answers with all entries, in the order they were appended.
THEOREM ReadsAnswerEverything == Spec => ReadsAnswerAll
<1>1. Agreement /\ Ordered /\ Agreement' /\ [Next]_vars => Ordered'
  BY NextOrdered, StutterOrdered DEF Agreement
<1> DEFINE Answers == \A r \in Readers :
             halfMade = {} /\ pc[r] = "opened" /\ pc'[r] = "done" => answer'[r] = Contents
<1>2. Agreement /\ Ordered /\ [Next]_vars => [Answers]_vars
  <2> SUFFICES ASSUME Agreement, Ordered, Next, NEW r \in Readers, halfMade = {},
                      pc[r] = "opened", pc'[r] = "done"
               PROVE  answer'[r] = Contents
    OBVIOUS
  <2>1. Control /\ Quiet /\ r \in Fibers /\ r # Deleter /\ pc[r] \notin Ended
    BY WholeIsQuiet, FibersAre DEF Agreement, Ended
  <2>2. ReadAnswer(r)
    BY <2>1, StepsOfReader
  <2>3. Readable
    BY <2>1, <2>2, GoOthers DEF ReadAnswer, Fail
  <2>4. PICK seq \in SetToSeqs(Present) :
          /\ \A i, j \in DOMAIN seq : i < j =>
               pages[seq[i]].order <= pages[seq[j]].order
          /\ answer' = [answer EXCEPT ![r] =
               FlattenSeq([i \in DOMAIN seq |-> pages[seq[i]].entries])]
    BY <2>2, <2>3 DEF ReadAnswer
  <2>5. Hidden /\ Rising
    BY <2>1, NotDeleting DEF Ordered
  <2>6. FlattenSeq([i \in DOMAIN seq |-> pages[seq[i]].entries]) = Contents
    BY <2>1, <2>3, <2>4, <2>5, ReadsInOrder
  <2> QED
    BY <2>1, <2>4, <2>6 DEF Control, TypeOK
<1>3. [][Answers]_vars => ReadsAnswerAll
  BY PTL DEF ReadsAnswerAll
<1> QED
  BY AgreementHolds, InitOrdered, <1>1, <1>2, <1>3, PTL DEF Spec

=============================================================================
