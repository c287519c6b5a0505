------------------------- MODULE KyjuCollectionProofs -------------------------
(***************************************************************************)
(* Theorems about the replication of a collection: for any replicas and    *)
(* writers, any number of calls, concats of any size, and any page size.   *)
(***************************************************************************)
EXTENDS KyjuCollection, FiniteSetTheorems, SequenceTheorems,
        WellFoundedInduction, TLAPS

-----------------------------------------------------------------------------
(* Sequences                                                               *)

\* A set that holds 0 and, with a number, the next one holds every number.
LEMMA NatsIn ==
  ASSUME NEW S, 0 \in S, \A n \in Nat : n \in S => n + 1 \in S
  PROVE  Nat \subseteq S
<1> DEFINE R == OpToRel(<, Nat)
           T == Nat \ S
<1> SUFFICES ASSUME T # {} PROVE FALSE
  OBVIOUS
<1>1. IsWellFoundedOn(R, Nat)
  BY NatLessThanWellFounded
<1>2. \A i, j \in Nat : i < j => <<i, j>> \in R
  BY DEF OpToRel
<1> HIDE DEF R
<1>3. PICK m \in T : \A n \in T : ~(<<n, m>> \in R)
  BY <1>1, WFMin
<1>4. m \in Nat \ {0}
  OBVIOUS
<1>5. m - 1 \in Nat /\ m - 1 < m /\ (m - 1) + 1 = m
  BY <1>4
<1>6. m - 1 \notin T
  BY <1>2, <1>3, <1>5
<1> QED
  BY <1>3, <1>5, <1>6

LEMMA Taken ==
  ASSUME NEW S, NEW s \in Seq(S), s # <<>>
  PROVE  /\ Head(s) \in S /\ Head(s) = s[1] /\ Len(s) >= 1 /\ 1 \in 1 .. Len(s)
         /\ Tail(s) \in Seq(S)
         /\ Len(Tail(s)) = Len(s) - 1
         /\ \A i \in 1 .. Len(s) - 1 : Tail(s)[i] = s[i + 1]
  BY HeadTailProperties, EmptySeq

LEMMA Single ==
  ASSUME NEW S, NEW m \in S
  PROVE  /\ <<m>> \in Seq(S) /\ <<>> \in Seq(S)
         /\ Len(<<m>>) = 1 /\ <<m>>[1] = m /\ Len(<<>>) = 0
  OBVIOUS

\* A pair appended is one element after the other.
LEMMA TwoAdded ==
  ASSUME NEW S, NEW s \in Seq(S), NEW a \in S, NEW b \in S
  PROVE  /\ s \o <<a, b>> = Append(Append(s, a), b)
         /\ s \o <<a>> = Append(s, a)
         /\ s \o <<>> = s
<1> DEFINE t == Append(Append(s, a), b)
           u == s \o <<a, b>>
<1>1. <<a, b>> \in Seq(S) /\ Len(<<a, b>>) = 2
      /\ <<a, b>>[1] = a /\ <<a, b>>[2] = b
  OBVIOUS
<1>2. u \in Seq(S) /\ Len(u) = Len(s) + 2
      /\ \A i \in 1 .. Len(s) + 2 :
           u[i] = IF i <= Len(s) THEN s[i] ELSE <<a, b>>[i - Len(s)]
  <2> DEFINE p == <<a, b>>
  <2>1. p \in Seq(S) /\ Len(p) = 2
    BY <1>1
  <2> HIDE DEF p
  <2>2. /\ s \o p \in Seq(S) /\ Len(s \o p) = Len(s) + Len(p)
        /\ \A i \in 1 .. Len(s) + Len(p) :
             (s \o p)[i] = IF i <= Len(s) THEN s[i] ELSE p[i - Len(s)]
    BY <2>1, ConcatProperties
  <2> QED
    BY <2>1, <2>2 DEF p
<1>3. /\ t \in Seq(S) /\ Len(t) = Len(s) + 2 /\ Len(s) \in Nat
      /\ \A i \in 1 .. Len(s) : t[i] = s[i]
      /\ t[Len(s) + 1] = a /\ t[Len(s) + 2] = b
  BY AppendProperties, LenProperties
<1> HIDE DEF t, u
<1>4. ASSUME NEW i \in 1 .. Len(s) + 2
      PROVE  t[i] = u[i]
  <2>1. CASE i <= Len(s)
    BY <1>2, <1>3, <2>1
  <2>2. CASE i = Len(s) + 1
    <3>1. i - Len(s) = 1 /\ ~(i <= Len(s))
      BY <1>3, <2>2
    <3> QED
      BY <1>1, <1>2, <1>3, <2>2, <3>1
  <2>3. CASE i = Len(s) + 2
    <3>1. i - Len(s) = 2 /\ ~(i <= Len(s))
      BY <1>3, <2>3
    <3> QED
      BY <1>1, <1>2, <1>3, <2>3, <3>1
  <2> QED
    BY <1>3, <2>1, <2>2, <2>3
<1>5. u = t
  BY <1>2, <1>3, <1>4, SeqEqual
<1>6. s \o <<a>> = Append(s, a)
  BY AppendIsConcat
<1>7. s \o <<>> = s
  BY ConcatEmptySeq
<1> QED
  BY <1>5, <1>6, <1>7 DEF t, u

-----------------------------------------------------------------------------
(* FlattenSeq                                                              *)

\* The partial results of FlattenSeq(s).
Flattening(f, s) ==
  /\ DOMAIN f = 1 .. Len(s) /\ f[1] = s[1]
  /\ \A i \in 2 .. Len(s) : f[i] = f[i - 1] \o s[i]
  /\ FlattenSeq(s) = f[Len(s)]

\* FlattenSeq does what it says.
LEMMA FlattenUnfolds ==
  ASSUME NEW s, Len(s) \in Nat \ {0}
  PROVE  \E f : Flattening(f, s)
<1> DEFINE Flat(f, n) == f = [i \in 1 .. n |-> IF i = 1 THEN s[i]
                                               ELSE f[i - 1] \o s[i]]
           I == {n \in Nat : \E f : Flat(f, n)}
<1>1. 0 \in I
  <2> DEFINE g == [i \in 1 .. 0 |-> s[i]]
  <2>1. Flat(g, 0)
    OBVIOUS
  <2> QED
    BY <2>1
<1>2. ASSUME NEW n \in Nat, n \in I
      PROVE  n + 1 \in I
  <2>1. PICK f : Flat(f, n)
    BY <1>2
  <2> DEFINE g == [i \in 1 .. n + 1 |->
                     IF i = 1 THEN s[i] ELSE f[i - 1] \o s[i]]
  <2>2. ASSUME NEW i \in 1 .. n + 1
        PROVE  g[i] = IF i = 1 THEN s[i] ELSE g[i - 1] \o s[i]
    <3>1. CASE i = 1
      BY <3>1
    <3>2. CASE i # 1
      <4>1. i - 1 \in 1 .. n /\ i - 1 \in 1 .. n + 1
        BY <3>2
      <4>2. g[i - 1] = f[i - 1]
        BY <2>1, <4>1
      <4>3. g[i] = f[i - 1] \o s[i]
        BY <3>2
      <4> QED
        BY <3>2, <4>2, <4>3
    <3> QED
      BY <3>1, <3>2
  <2>3. Flat(g, n + 1)
    BY <2>2
  <2> HIDE DEF g
  <2>4. \E h : Flat(h, n + 1)
    BY <2>3
  <2> HIDE DEF Flat
  <2> QED
    BY <2>4, n + 1 \in Nat
<1>3. \E f : Flat(f, Len(s))
  <2> HIDE DEF I
  <2>1. Len(s) \in I
    BY <1>1, <1>2, NatsIn
  <2> QED
    BY <2>1 DEF I
<1> DEFINE flatten == CHOOSE f : Flat(f, Len(s))
<1>4. Flat(flatten, Len(s))
  BY <1>3
<1>5. FlattenSeq(s) = flatten[Len(s)]
  BY DEF FlattenSeq
<1> HIDE DEF flatten
<1>6. /\ DOMAIN flatten = 1 .. Len(s)
      /\ \A i \in 1 .. Len(s) :
           flatten[i] = IF i = 1 THEN s[i] ELSE flatten[i - 1] \o s[i]
  BY <1>4
<1>7. 1 \in 1 .. Len(s) /\ \A i \in 2 .. Len(s) : i \in 1 .. Len(s) /\ i # 1
  OBVIOUS
<1>8. flatten[1] = s[1]
  BY <1>6, <1>7
<1>9. \A i \in 2 .. Len(s) : flatten[i] = flatten[i - 1] \o s[i]
  BY <1>6, <1>7
<1> HIDE DEF Flat
<1>10. Flattening(flatten, s)
  BY <1>5, <1>6, <1>8, <1>9, Zenon DEF Flattening
<1> QED
  BY <1>10

LEMMA FlatteningIn ==
  ASSUME NEW E, NEW s, Len(s) \in Nat \ {0},
         \A i \in 1 .. Len(s) : s[i] \in Seq(E),
         NEW f, Flattening(f, s)
  PROVE  \A i \in 1 .. Len(s) : f[i] \in Seq(E)
<1> DEFINE I == {n \in Nat : n \in 1 .. Len(s) => f[n] \in Seq(E)}
<1>1. 0 \in I
  OBVIOUS
<1>2. ASSUME NEW n \in Nat, n \in I
      PROVE  n + 1 \in I
  <2> SUFFICES ASSUME n + 1 \in 1 .. Len(s) PROVE f[n + 1] \in Seq(E)
    OBVIOUS
  <2>1. CASE n = 0
    BY <2>1 DEF Flattening
  <2>2. CASE n # 0
    <3>1. n \in 1 .. Len(s) /\ n + 1 \in 2 .. Len(s) /\ (n + 1) - 1 = n
      BY <2>2
    <3>2. f[n] \in Seq(E) /\ s[n + 1] \in Seq(E)
      BY <1>2, <3>1
    <3>3. f[n + 1] = f[n] \o s[n + 1]
      BY <3>1 DEF Flattening
    <3> QED
      BY <3>2, <3>3, ConcatProperties
  <2> QED
    BY <2>1, <2>2
<1> HIDE DEF I
<1>3. Nat \subseteq I
  BY <1>1, <1>2, NatsIn
<1> QED
  BY <1>3 DEF I

\* Flattening yields a sequence over what its parts are sequences over.
LEMMA FlattenIn ==
  ASSUME NEW E, NEW s, Len(s) \in Nat \ {0},
         \A i \in 1 .. Len(s) : s[i] \in Seq(E)
  PROVE  FlattenSeq(s) \in Seq(E)
<1>1. PICK f : Flattening(f, s)
  BY FlattenUnfolds
<1>2. Len(s) \in 1 .. Len(s)
  OBVIOUS
<1>3. f[Len(s)] \in Seq(E)
  BY <1>1, <1>2, FlatteningIn
<1> QED
  BY <1>1, <1>3, Zenon DEF Flattening

\* Concatenation is associative.
Associates(E) == \A u, v, w \in Seq(E) : (u \o v) \o w = u \o (v \o w)
LEMMA ConcatAssociates == \A E : Associates(E)
<1> TAKE E
<1>1. ASSUME NEW u \in Seq(E), NEW v \in Seq(E), NEW w \in Seq(E)
      PROVE  (u \o v) \o w = u \o (v \o w)
  BY ConcatAssociative
<1> QED
  BY <1>1 DEF Associates

\* s is a sequence of sequences over E.
Nested(E, s) == s \in Seq(Seq(E))

LEMMA FlattenNothing == FlattenSeq(<<>>) = <<>>
  BY DEF FlattenSeq

LEMMA FlattenTypes ==
  ASSUME NEW E, NEW s, Nested(E, s)
  PROVE  FlattenSeq(s) \in Seq(E)
<1>1. s \in Seq(Seq(E)) /\ Len(s) \in Nat
  BY LenProperties DEF Nested
<1>2. CASE s = <<>>
  BY <1>2, FlattenNothing, EmptySeq
<1>3. CASE s # <<>>
  <2>1. Len(s) \in Nat \ {0} /\ \A i \in 1 .. Len(s) : s[i] \in Seq(E)
    BY <1>1, <1>3, ElementOfSeq, EmptySeq
  <2> QED
    BY <2>1, FlattenIn
<1> QED
  BY <1>2, <1>3

\* t is s with one more part v at its end.
Longer(E, s, t, v) ==
  /\ Nested(E, s) /\ Nested(E, t) /\ v \in Seq(E)
  /\ Len(t) = Len(s) + 1
  /\ \A i \in 1 .. Len(s) : t[i] = s[i]
  /\ t[Len(s) + 1] = v

LEMMA FlattenLonger ==
  ASSUME NEW E, NEW s, NEW t, NEW v, Longer(E, s, t, v)
  PROVE  FlattenSeq(t) = FlattenSeq(s) \o v
<1>1. /\ s \in Seq(Seq(E)) /\ t \in Seq(Seq(E)) /\ v \in Seq(E)
      /\ Len(t) = Len(s) + 1
      /\ \A i \in 1 .. Len(s) : t[i] = s[i]
      /\ t[Len(s) + 1] = v
      /\ Len(s) \in Nat /\ Len(t) \in Nat \ {0}
  BY LenProperties DEF Longer, Nested
<1>2. PICK g : Flattening(g, t)
  BY <1>1, FlattenUnfolds
<1>3. CASE s = <<>>
  <2>1. Len(t) = 1 /\ t[1] = v
    BY <1>1, <1>3
  <2>2. FlattenSeq(t) = v
    BY <1>2, <2>1 DEF Flattening
  <2> QED
    BY <1>1, <1>3, <2>2, FlattenNothing, ConcatEmptySeq
<1>4. CASE s # <<>>
  <2>0. Len(s) \in Nat \ {0}
    BY <1>1, <1>4, EmptySeq
  <2>1. PICK f : Flattening(f, s)
    BY <2>0, FlattenUnfolds
  <2> DEFINE I == {n \in Nat : n \in 1 .. Len(s) => g[n] = f[n]}
  <2>2. 0 \in I
    OBVIOUS
  <2>3. ASSUME NEW n \in Nat, n \in I
        PROVE  n + 1 \in I
    <3> SUFFICES ASSUME n + 1 \in 1 .. Len(s) PROVE g[n + 1] = f[n + 1]
      OBVIOUS
    <3>1. CASE n = 0
      BY <1>1, <1>2, <2>1, <3>1 DEF Flattening
    <3>2. CASE n # 0
      <4>1. n \in 1 .. Len(s) /\ n + 1 \in 2 .. Len(s) /\ (n + 1) - 1 = n
            /\ n + 1 \in 2 .. Len(t)
        BY <1>1, <3>2
      <4>2. f[n + 1] = f[n] \o s[n + 1] /\ g[n + 1] = g[n] \o t[n + 1]
        BY <1>2, <2>1, <4>1 DEF Flattening
      <4> QED
        BY <1>1, <2>3, <4>1, <4>2
    <3> QED
      BY <3>1, <3>2
  <2> HIDE DEF I
  <2>4. g[Len(s)] = f[Len(s)]
    <3>1. Len(s) \in I
      BY <1>1, <2>2, <2>3, NatsIn
    <3> QED
      BY <2>0, <3>1 DEF I
  <2>5. Len(t) \in 2 .. Len(t) /\ Len(t) - 1 = Len(s)
    BY <1>1, <2>0
  <2>6. FlattenSeq(t) = g[Len(t)] /\ g[Len(t)] = g[Len(t) - 1] \o t[Len(t)]
    BY <1>2, <2>5 DEF Flattening
  <2>7. FlattenSeq(s) = f[Len(s)]
    BY <2>1 DEF Flattening
  <2> QED
    BY <1>1, <2>4, <2>5, <2>6, <2>7
<1> QED
  BY <1>3, <1>4

\* t is s without its first part.
Shorter(E, s, t) ==
  /\ Nested(E, s) /\ Nested(E, t) /\ Len(s) = Len(t) + 1
  /\ \A i \in 1 .. Len(t) : t[i] = s[i + 1]

LEMMA FlattenShorter ==
  ASSUME NEW E, NEW s, NEW t, Shorter(E, s, t)
  PROVE  FlattenSeq(s) = s[1] \o FlattenSeq(t)
<1>1. /\ s \in Seq(Seq(E)) /\ t \in Seq(Seq(E))
      /\ Len(s) = Len(t) + 1
      /\ \A i \in 1 .. Len(t) : t[i] = s[i + 1]
      /\ Len(t) \in Nat /\ Len(s) \in Nat \ {0}
  BY LenProperties DEF Shorter, Nested
<1>2. PICK f : Flattening(f, s)
  BY <1>1, FlattenUnfolds
<1>3. s[1] \in Seq(E)
  BY <1>1, ElementOfSeq
<1>4. CASE t = <<>>
  <2>1. Len(s) = 1
    BY <1>1, <1>4
  <2>2. FlattenSeq(s) = s[1]
    BY <1>2, <2>1 DEF Flattening
  <2> QED
    BY <1>3, <1>4, <2>2, FlattenNothing, ConcatEmptySeq
<1>5. CASE t # <<>>
  <2>0. Len(t) \in Nat \ {0}
    BY <1>1, <1>5, EmptySeq
  <2>1. PICK g : Flattening(g, t)
    BY <2>0, FlattenUnfolds
  <2>g. \A i \in 1 .. Len(t) : t[i] \in Seq(E) /\ g[i] \in Seq(E)
    BY <1>1, <2>0, <2>1, ElementOfSeq, FlatteningIn
  <2> DEFINE P(n) == f[n + 1] = s[1] \o g[n]
             I == {n \in Nat : n \in 1 .. Len(t) => P(n)}
  <2>2. 0 \in I
    OBVIOUS
  <2>3. ASSUME NEW n \in Nat, n \in I
        PROVE  n + 1 \in I
    <3>1. ASSUME n + 1 \in 1 .. Len(t)
          PROVE  P(n + 1)
      <4> DEFINE m == n + 1
      <4>0. m + 1 \in 2 .. Len(s) /\ (m + 1) - 1 = m /\ m \in 1 .. Len(t)
        BY <1>1, <3>1
      <4>1. f[m + 1] = f[m] \o s[m + 1]
        BY <1>2, <4>0 DEF Flattening
      <4>2. s[m + 1] = t[m]
        BY <1>1, <4>0
      <4>3. CASE n = 0
        <5>1. m = 1
          BY <4>3
        <5> HIDE DEF m
        <5>2. f[1] = s[1] /\ g[1] = t[1]
          BY <1>2, <2>1 DEF Flattening
        <5>3. P(m)
          BY <4>1, <4>2, <5>1, <5>2
        <5> QED
          BY <5>3 DEF m
      <4>4. CASE n # 0
        <5>1. n \in 1 .. Len(t) /\ m \in 2 .. Len(t) /\ m - 1 = n
          BY <1>1, <4>0, <4>4
        <5>2. g[m] = g[n] \o t[m]
          BY <2>1, <5>1 DEF Flattening
        <5>3. P(n)
          BY <2>3, <5>1
        <5>4. (s[1] \o g[n]) \o t[m] = s[1] \o (g[n] \o t[m])
          <6>1. g[n] \in Seq(E) /\ t[m] \in Seq(E) /\ Associates(E)
            BY <2>g, <4>0, <5>1, ConcatAssociates
          <6> QED
            BY <1>3, <6>1, Zenon DEF Associates
        <5>5. f[m + 1] = (s[1] \o g[n]) \o t[m]
          BY <4>1, <4>2, <5>3
        <5>6. P(m)
          BY <5>2, <5>4, <5>5
        <5> QED
          BY <5>6
      <4> QED
        BY <4>3, <4>4
    <3> HIDE DEF P
    <3> QED
      BY <3>1
  <2> HIDE DEF I, P
  <2>4. P(Len(t))
    <3>1. Len(t) \in I
      BY <1>1, <2>2, <2>3, NatsIn
    <3> QED
      BY <2>0, <3>1 DEF I
  <2> QED
    BY <1>1, <1>2, <2>1, <2>4 DEF Flattening, P
<1> QED
  BY <1>4, <1>5

\* Added to its last part, added at the end.
LEMMA FlattenExtended ==
  ASSUME NEW E, NEW s, Nested(E, s), s # <<>>, NEW t, Nested(E, t),
         NEW v \in Seq(E), Len(t) = Len(s),
         \A i \in 1 .. Len(s) - 1 : t[i] = s[i], t[Len(s)] = s[Len(s)] \o v
  PROVE  FlattenSeq(t) = FlattenSeq(s) \o v
<1> DEFINE n == Len(s)
           h == SubSeq(s, 1, n - 1)
<1>1. /\ s \in Seq(Seq(E)) /\ t \in Seq(Seq(E)) /\ n \in Nat \ {0}
      /\ \A i \in 1 .. n : s[i] \in Seq(E)
  BY EmptySeq, ElementOfSeq DEF Nested
<1>2. /\ n - 1 \in Int /\ (1 <= n - 1 => (n - 1) - 1 + 1 = n - 1)
      /\ \A i \in 1 .. n - 1 : i \in 1 .. n /\ 1 + i - 1 = i
      /\ (n - 1) - 1 + 1 = n - 1
  BY <1>1
<1>3. /\ h \in Seq(Seq(E)) /\ Len(h) = n - 1
      /\ \A i \in 1 .. n - 1 : h[i] = s[i]
  <2>1. \A i \in 1 .. n - 1 : s[i] \in Seq(E)
    BY <1>1, <1>2
  <2>2. /\ h \in Seq(Seq(E))
        /\ Len(h) = IF 1 <= n - 1 THEN (n - 1) - 1 + 1 ELSE 0
        /\ \A i \in 1 .. (n - 1) - 1 + 1 : h[i] = s[1 + i - 1]
    BY <1>2, <2>1, SubSeqProperties
  <2> HIDE DEF h
  <2> QED
    BY <1>1, <1>2, <2>2
<1> HIDE DEF h
<1>4. (n - 1) + 1 = n
  BY <1>1
<1>5. Longer(E, h, s, s[n])
  <2>1. Nested(E, h) /\ s[n] \in Seq(E)
    BY <1>1, <1>3 DEF Nested
  <2>2. \A i \in 1 .. Len(h) : s[i] = h[i]
    BY <1>3
  <2> QED
    BY <1>3, <1>4, <2>1, <2>2 DEF Longer
<1>6. Longer(E, h, t, s[n] \o v)
  <2>1. Nested(E, h) /\ s[n] \o v \in Seq(E)
    BY <1>1, <1>3, ConcatProperties DEF Nested
  <2>2. \A i \in 1 .. Len(h) : t[i] = h[i]
    BY <1>3
  <2> QED
    BY <1>3, <1>4, <2>1, <2>2 DEF Longer
<1>7. FlattenSeq(s) = FlattenSeq(h) \o s[n]
  BY <1>5, FlattenLonger
<1>9. FlattenSeq(t) = FlattenSeq(h) \o (s[n] \o v)
  <2> DEFINE w == s[n] \o v
  <2>1. Longer(E, h, t, w)
    BY <1>6
  <2> HIDE DEF w
  <2>2. FlattenSeq(t) = FlattenSeq(h) \o w
    BY <2>1, FlattenLonger
  <2> QED
    BY <2>2 DEF w
<1>8. /\ FlattenSeq(h) \in Seq(E) /\ s[n] \in Seq(E) /\ v \in Seq(E)
      /\ Associates(E)
  <2>1. FlattenSeq(h) \in Seq(E)
    BY <1>3, FlattenTypes DEF Nested
  <2>2. s[n] \in Seq(E)
    BY <1>1, <1>3 DEF Nested
  <2>3. Associates(E)
    BY ConcatAssociates
  <2> QED
    BY <2>1, <2>2, <2>3
<1>10. (FlattenSeq(h) \o s[n]) \o v = FlattenSeq(h) \o (s[n] \o v)
  BY <1>8, Zenon DEF Associates
<1> QED
  BY <1>7, <1>9, <1>10

\* A single part is the whole.
LEMMA FlattenOne ==
  ASSUME NEW E, NEW s, Nested(E, s), Len(s) = 1
  PROVE  FlattenSeq(s) = s[1]
<1>1. PICK f : Flattening(f, s)
  BY FlattenUnfolds
<1> QED
  BY <1>1 DEF Flattening

-----------------------------------------------------------------------------
(* Deliveries                                                              *)

\* g is what becomes of c as the first n messages of d are delivered.
CourseOf(g, c, d, n) ==
  g = [i \in 0 .. n |-> IF i = 0 THEN c ELSE Deliver(g[i - 1], d[i])]

LEMMA CourseExists ==
  ASSUME NEW c, NEW d, NEW N \in Nat
  PROVE  \E g : CourseOf(g, c, d, N)
<1> DEFINE I == {n \in Nat : \E g : CourseOf(g, c, d, n)}
<1>1. 0 \in I
  <2> DEFINE g == [i \in 0 .. 0 |-> c]
  <2>1. CourseOf(g, c, d, 0)
    BY DEF CourseOf
  <2> QED
    BY <2>1
<1>2. ASSUME NEW n \in Nat, n \in I
      PROVE  n + 1 \in I
  <2> PICK g : CourseOf(g, c, d, n)
    BY <1>2
  <2> DEFINE h == [i \in 0 .. n + 1 |->
                     IF i = n + 1 THEN Deliver(g[n], d[n + 1]) ELSE g[i]]
  <2>1. ASSUME NEW i \in 0 .. n + 1
        PROVE  h[i] = IF i = 0 THEN c ELSE Deliver(h[i - 1], d[i])
    <3>1. CASE i = n + 1
      <4>1. i # 0 /\ i - 1 \in 0 .. n + 1 /\ i - 1 # n + 1 /\ i - 1 = n
        BY <3>1
      <4> QED
        BY <3>1, <4>1
    <3>2. CASE i # n + 1
      <4>1. i \in 0 .. n
        BY <3>2
      <4>2. g[i] = IF i = 0 THEN c ELSE Deliver(g[i - 1], d[i])
        BY <4>1 DEF CourseOf
      <4>3. i # 0 => i - 1 \in 0 .. n + 1 /\ i - 1 # n + 1
        BY <4>1
      <4> QED
        BY <3>2, <4>1, <4>2, <4>3
    <3> QED
      BY <3>1, <3>2
  <2>2. h = [i \in 0 .. n + 1 |-> h[i]]
    OBVIOUS
  <2> HIDE DEF h
  <2>3. CourseOf(h, c, d, n + 1)
    BY <2>1, <2>2 DEF CourseOf
  <2> QED
    BY <2>3
<1> HIDE DEF I
<1>3. N \in I
  BY <1>1, <1>2, NatsIn
<1> QED
  BY <1>3 DEF I

LEMMA CourseSteps ==
  ASSUME NEW c, NEW S, NEW d \in Seq(S)
  PROVE  /\ Course(c, d)[0] = c
         /\ \A n \in 0 .. Len(d) - 1 :
              Course(c, d)[n + 1] = Deliver(Course(c, d)[n], d[n + 1])
<1>0. Len(d) \in Nat
  BY LenProperties
<1> DEFINE after == CHOOSE g : CourseOf(g, c, d, Len(d))
<1>1. CourseOf(after, c, d, Len(d))
  BY <1>0, CourseExists
<1>2. Course(c, d) = after
  BY DEF Course, CourseOf
<1> HIDE DEF after
<1>3. \A n \in 0 .. Len(d) :
        after[n] = IF n = 0 THEN c ELSE Deliver(after[n - 1], d[n])
  BY <1>1 DEF CourseOf
<1>4. after[0] = c
  BY <1>0, <1>3
<1>5. ASSUME NEW n \in 0 .. Len(d) - 1
      PROVE  after[n + 1] = Deliver(after[n], d[n + 1])
  <2>1. n + 1 \in 0 .. Len(d) /\ n + 1 # 0 /\ (n + 1) - 1 = n
    BY <1>0
  <2> QED
    BY <1>3, <2>1
<1> QED
  BY <1>2, <1>4, <1>5

\* Whatever goes through these states is the course.
LEMMA CourseIs ==
  ASSUME NEW c, NEW S, NEW d \in Seq(S), NEW g, g[0] = c,
         \A n \in 0 .. Len(d) - 1 : g[n + 1] = Deliver(g[n], d[n + 1])
  PROVE  \A n \in 0 .. Len(d) : Course(c, d)[n] = g[n]
<1>0. Len(d) \in Nat
  BY LenProperties
<1> DEFINE h == Course(c, d)
<1>2. /\ h[0] = c
      /\ \A n \in 0 .. Len(d) - 1 : h[n + 1] = Deliver(h[n], d[n + 1])
  BY CourseSteps
<1> HIDE DEF h
<1> DEFINE I == {n \in Nat : n <= Len(d) => g[n] = h[n]}
<1>3. 0 \in I
  BY <1>2
<1>4. ASSUME NEW n \in Nat, n \in I
      PROVE  n + 1 \in I
  <2>1. CASE n + 1 <= Len(d)
    <3>1. n \in 0 .. Len(d) - 1 /\ g[n] = h[n]
      BY <1>0, <1>4, <2>1
    <3>2. g[n + 1] = h[n + 1]
      BY <1>2, <3>1
    <3> QED
      BY <3>2
  <2>2. CASE ~(n + 1 <= Len(d))
    BY <2>2
  <2> QED
    BY <2>1, <2>2
<1> HIDE DEF I
<1>5. Nat \subseteq I
  BY <1>3, <1>4, NatsIn
<1>6. \A n \in 0 .. Len(d) : h[n] = g[n]
  BY <1>0, <1>5 DEF I
<1> QED
  BY <1>6 DEF h

\* One more message.
LEMMA CourseAppend ==
  ASSUME NEW c, NEW S, NEW d \in Seq(S), NEW m \in S
  PROVE  /\ \A n \in 0 .. Len(d) : Course(c, Append(d, m))[n] = Course(c, d)[n]
         /\ Course(c, Append(d, m))[Len(d) + 1]
              = Deliver(Course(c, d)[Len(d)], m)
<1> DEFINE e == Append(d, m)
           h == Course(c, e)
<1>1. /\ e \in Seq(S) /\ Len(e) = Len(d) + 1 /\ Len(d) \in Nat
      /\ \A i \in 1 .. Len(d) : e[i] = d[i]
      /\ e[Len(d) + 1] = m
  BY AppendProperties, LenProperties
<1> HIDE DEF e
<1>2. /\ h[0] = c
      /\ \A n \in 0 .. Len(e) - 1 : h[n + 1] = Deliver(h[n], e[n + 1])
  BY <1>1, CourseSteps
<1> HIDE DEF h
<1>3. ASSUME NEW n \in 0 .. Len(d) - 1
      PROVE  h[n + 1] = Deliver(h[n], d[n + 1])
  <2>1. n \in 0 .. Len(e) - 1 /\ n + 1 \in 1 .. Len(d)
    BY <1>1
  <2>2. h[n + 1] = Deliver(h[n], e[n + 1]) /\ e[n + 1] = d[n + 1]
    BY <1>1, <1>2, <2>1
  <2> QED
    BY <2>2
<1>4. \A n \in 0 .. Len(d) : Course(c, d)[n] = h[n]
  <2>1. d \in Seq(S) /\ h[0] = c
    BY <1>2
  <2>2. \A n \in 0 .. Len(d) - 1 : h[n + 1] = Deliver(h[n], d[n + 1])
    BY <1>3
  <2> QED
    BY <2>1, <2>2, CourseIs
<1>5. Len(d) \in 0 .. Len(e) - 1 /\ Len(d) \in 0 .. Len(d)
  BY <1>1
<1>6. h[Len(d) + 1] = Deliver(h[Len(d)], m)
  <2>1. h[Len(d) + 1] = Deliver(h[Len(d)], e[Len(d) + 1])
    BY <1>2, <1>5
  <2> QED
    BY <1>1, <2>1
<1>7. Course(c, d)[Len(d)] = h[Len(d)]
  BY <1>4, <1>5
<1>8. Course(c, e)[Len(d) + 1] = Deliver(Course(c, d)[Len(d)], m)
  BY <1>6, <1>7 DEF h
<1>9. \A n \in 0 .. Len(d) : Course(c, e)[n] = Course(c, d)[n]
  BY <1>4 DEF h
<1> QED
  BY <1>8, <1>9 DEF e

\* The first message delivered, the rest is still to come.
LEMMA CourseTail ==
  ASSUME NEW c, NEW S, NEW d \in Seq(S), d # <<>>
  PROVE  \A n \in 0 .. Len(d) - 1 :
           Course(Deliver(c, Head(d)), Tail(d))[n] = Course(c, d)[n + 1]
<1> DEFINE t == Tail(d)
           h == Course(c, d)
           g == [n \in 0 .. Len(d) - 1 |-> h[n + 1]]
<1>1. /\ Head(d) = d[1] /\ t \in Seq(S) /\ Len(d) \in Nat /\ Len(d) >= 1
      /\ Len(t) = Len(d) - 1
      /\ \A i \in 1 .. Len(d) - 1 : t[i] = d[i + 1]
  BY Taken, LenProperties
<1>2. /\ h[0] = c
      /\ \A n \in 0 .. Len(d) - 1 : h[n + 1] = Deliver(h[n], d[n + 1])
  BY CourseSteps
<1> HIDE DEF h, t
<1>3. g[0] = Deliver(c, Head(d))
  <2>1. 0 \in 0 .. Len(d) - 1 /\ 0 + 1 = 1
    BY <1>1
  <2>2. h[0 + 1] = Deliver(h[0], d[0 + 1])
    BY <1>2, <2>1
  <2>3. g[0] = h[0 + 1]
    BY <2>1
  <2> QED
    BY <1>1, <1>2, <2>1, <2>2, <2>3
<1>4. ASSUME NEW n \in 0 .. Len(t) - 1
      PROVE  g[n + 1] = Deliver(g[n], t[n + 1])
  <2> DEFINE k == n + 1
  <2>1. /\ n \in 0 .. Len(d) - 1 /\ k \in 0 .. Len(d) - 1 /\ k \in 1 .. Len(d) - 1
        /\ k = n + 1
    BY <1>1
  <2> HIDE DEF k
  <2>2. g[k] = h[k + 1] /\ g[n] = h[n + 1]
    BY <2>1
  <2>3. h[k + 1] = Deliver(h[k], d[k + 1]) /\ t[k] = d[k + 1]
    BY <1>1, <1>2, <2>1
  <2>4. g[k] = Deliver(g[n], t[k])
    BY <2>1, <2>2, <2>3
  <2> QED
    BY <2>1, <2>4
<1>5. \A n \in 0 .. Len(d) - 1 : g[n] = h[n + 1]
  OBVIOUS
<1> HIDE DEF g
<1>6. \A n \in 0 .. Len(t) : Course(Deliver(c, Head(d)), t)[n] = g[n]
  BY <1>1, <1>3, <1>4, CourseIs
<1> QED
  BY <1>1, <1>5, <1>6 DEF h, t

\* g is what becomes of the pages c as the first n pages of d are merged.
MergeOf(g, c, d, n) ==
  g = [i \in 0 .. n |-> IF i = 0 THEN c ELSE MergePage(g[i - 1], d[i])]

LEMMA MergeExists ==
  ASSUME NEW c, NEW d, NEW N \in Nat
  PROVE  \E g : MergeOf(g, c, d, N)
<1> DEFINE I == {n \in Nat : \E g : MergeOf(g, c, d, n)}
<1>1. 0 \in I
  <2> DEFINE g == [i \in 0 .. 0 |-> c]
  <2>1. MergeOf(g, c, d, 0)
    BY DEF MergeOf
  <2> QED
    BY <2>1
<1>2. ASSUME NEW n \in Nat, n \in I
      PROVE  n + 1 \in I
  <2> PICK g : MergeOf(g, c, d, n)
    BY <1>2
  <2> DEFINE h == [i \in 0 .. n + 1 |->
                     IF i = n + 1 THEN MergePage(g[n], d[n + 1]) ELSE g[i]]
  <2>1. ASSUME NEW i \in 0 .. n + 1
        PROVE  h[i] = IF i = 0 THEN c ELSE MergePage(h[i - 1], d[i])
    <3>1. CASE i = n + 1
      <4>1. i # 0 /\ i - 1 \in 0 .. n + 1 /\ i - 1 # n + 1 /\ i - 1 = n
        BY <3>1
      <4> QED
        BY <3>1, <4>1
    <3>2. CASE i # n + 1
      <4>1. i \in 0 .. n
        BY <3>2
      <4>2. g[i] = IF i = 0 THEN c ELSE MergePage(g[i - 1], d[i])
        BY <4>1 DEF MergeOf
      <4>3. i # 0 => i - 1 \in 0 .. n + 1 /\ i - 1 # n + 1
        BY <4>1
      <4> QED
        BY <3>2, <4>1, <4>2, <4>3
    <3> QED
      BY <3>1, <3>2
  <2>2. h = [i \in 0 .. n + 1 |-> h[i]]
    OBVIOUS
  <2> HIDE DEF h
  <2>3. MergeOf(h, c, d, n + 1)
    BY <2>1, <2>2 DEF MergeOf
  <2> QED
    BY <2>3
<1> HIDE DEF I
<1>3. N \in I
  BY <1>1, <1>2, NatsIn
<1> QED
  BY <1>3 DEF I

\* What each merge keeps, they all keep together.
LEMMA MergesKeep ==
  ASSUME NEW c, NEW d, Len(d) \in Nat, NEW T, c \in T,
         \A x \in T : \A i \in 1 .. Len(d) : MergePage(x, d[i]) \in T
  PROVE  MergePages(c, d) \in T
<1> DEFINE after == CHOOSE g : MergeOf(g, c, d, Len(d))
<1>1. MergeOf(after, c, d, Len(d))
  BY MergeExists
<1>2. MergePages(c, d) = after[Len(d)]
  BY DEF MergePages, MergeOf
<1> HIDE DEF after
<1>3. \A n \in 0 .. Len(d) :
        after[n] = IF n = 0 THEN c ELSE MergePage(after[n - 1], d[n])
  BY <1>1 DEF MergeOf
<1> DEFINE I == {n \in Nat : n <= Len(d) => after[n] \in T}
<1>4. 0 \in I
  BY <1>3
<1>5. ASSUME NEW n \in Nat, n \in I
      PROVE  n + 1 \in I
  <2> SUFFICES ASSUME n + 1 <= Len(d) PROVE after[n + 1] \in T
    OBVIOUS
  <2>1. /\ n + 1 \in 0 .. Len(d) /\ n + 1 # 0 /\ (n + 1) - 1 = n
        /\ n + 1 \in 1 .. Len(d) /\ n <= Len(d)
    OBVIOUS
  <2>2. after[n] \in T
    BY <1>5, <2>1
  <2>3. MergePage(after[n], d[n + 1]) \in T
    BY <2>1, <2>2
  <2>4. after[n + 1] = MergePage(after[n], d[n + 1])
    BY <1>3, <2>1
  <2> QED
    BY <2>3, <2>4
<1> HIDE DEF I
<1>6. Len(d) \in I
  BY <1>4, <1>5, NatsIn
<1> QED
  BY <1>2, <1>6 DEF I

-----------------------------------------------------------------------------
(* Pages and copies                                                        *)

Copies == [held : BOOLEAN, pages : Seq(Pages), count : Nat]

LEMMA PageFields ==
  ASSUME NEW p \in Pages
  PROVE  /\ p.items \in Seq(Items) /\ p.id \in PageIds /\ p.size \in Nat
         /\ Len(p.items) \in Nat
<1>1. p.items \in Seq(Items) /\ p.id \in PageIds /\ p.size \in Nat
  BY DEF Pages
<1> QED
  BY <1>1, LenProperties

PartsOf(pages) == [i \in DOMAIN pages |-> pages[i].items]

LEMMA PartsNested ==
  ASSUME NEW pages \in Seq(Pages)
  PROVE  /\ Nested(Items, PartsOf(pages))
         /\ Len(PartsOf(pages)) = Len(pages) /\ Len(pages) \in Nat
         /\ \A i \in 1 .. Len(pages) : /\ PartsOf(pages)[i] = pages[i].items
                                       /\ pages[i] \in Pages
<1>1. /\ Len(pages) \in Nat /\ DOMAIN pages = 1 .. Len(pages)
      /\ \A i \in 1 .. Len(pages) : pages[i] \in Pages
  BY LenProperties, ElementOfSeq
<1>2. \A i \in 1 .. Len(pages) : pages[i].items \in Seq(Items)
  BY <1>1, PageFields
<1> DEFINE n == Len(pages)
<1>3. PartsOf(pages) = [i \in 1 .. n |-> pages[i].items]
  BY <1>1 DEF PartsOf
<1> HIDE DEF n
<1>4. n \in Nat /\ \A i \in 1 .. n : pages[i].items \in Seq(Items)
  BY <1>1, <1>2 DEF n
<1>5. PartsOf(pages) \in [1 .. n -> Seq(Items)]
  BY <1>3, <1>4
<1>6. PartsOf(pages) \in Seq(Seq(Items)) /\ Len(PartsOf(pages)) = n
  BY <1>4, <1>5
<1> QED
  BY <1>1, <1>3, <1>6 DEF n, Nested

LEMMA ItemsOfTypes ==
  ASSUME NEW pages \in Seq(Pages)
  PROVE  ItemsOf(pages) \in Seq(Items) /\ Len(ItemsOf(pages)) \in Nat
<1>1. ItemsOf(pages) \in Seq(Items)
  BY PartsNested, FlattenTypes DEF ItemsOf, PartsOf
<1> QED
  BY <1>1, LenProperties

LEMMA ItemsOfNothing == ItemsOf(<<>>) = <<>>
<1>1. <<>> \in Seq(Pages) /\ Len(<<>>) = 0
  BY EmptySeq
<1>2. Nested(Items, PartsOf(<<>>)) /\ Len(PartsOf(<<>>)) = 0
  BY <1>1, PartsNested
<1>3. PartsOf(<<>>) = <<>>
  BY <1>2, EmptySeq DEF Nested
<1> QED
  BY <1>3, FlattenNothing DEF ItemsOf, PartsOf

LEMMA ItemsOfAppend ==
  ASSUME NEW pages \in Seq(Pages), NEW p \in Pages
  PROVE  /\ Append(pages, p) \in Seq(Pages) /\ Append(pages, p) # <<>>
         /\ ItemsOf(Append(pages, p)) = ItemsOf(pages) \o p.items
<1> DEFINE q == Append(pages, p)
<1>1. /\ q \in Seq(Pages) /\ q # <<>> /\ Len(q) = Len(pages) + 1
      /\ \A i \in 1 .. Len(pages) : q[i] = pages[i]
      /\ q[Len(pages) + 1] = p
  BY AppendProperties
<1> HIDE DEF q
<1>2. /\ Nested(Items, PartsOf(pages)) /\ Len(PartsOf(pages)) = Len(pages)
      /\ Len(pages) \in Nat
      /\ \A i \in 1 .. Len(pages) : PartsOf(pages)[i] = pages[i].items
  BY PartsNested
<1>3. /\ Nested(Items, PartsOf(q)) /\ Len(PartsOf(q)) = Len(q)
      /\ \A i \in 1 .. Len(q) : PartsOf(q)[i] = q[i].items
  BY <1>1, PartsNested
<1>4. p.items \in Seq(Items)
  BY PageFields
<1>5. \A i \in 1 .. Len(pages) : PartsOf(q)[i] = PartsOf(pages)[i]
  BY <1>1, <1>2, <1>3
<1>6. PartsOf(q)[Len(pages) + 1] = p.items
  BY <1>1, <1>2, <1>3
<1>7. Longer(Items, PartsOf(pages), PartsOf(q), p.items)
  BY <1>1, <1>2, <1>3, <1>4, <1>5, <1>6 DEF Longer
<1>8. ItemsOf(q) = ItemsOf(pages) \o p.items
  <2> DEFINE s == PartsOf(pages)
             u == PartsOf(q)
             v == p.items
  <2>1. Longer(Items, s, u, v)
    BY <1>7
  <2> HIDE DEF s, u, v
  <2>2. FlattenSeq(u) = FlattenSeq(s) \o v
    BY <2>1, FlattenLonger
  <2> QED
    BY <2>2 DEF s, u, v, ItemsOf, PartsOf
<1> QED
  BY <1>1, <1>8 DEF q

\* Pages with the same items show the same.
LEMMA ItemsOfSame ==
  ASSUME NEW s \in Seq(Pages), NEW t \in Seq(Pages), Len(s) = Len(t),
         \A i \in 1 .. Len(s) : s[i].items = t[i].items
  PROVE  ItemsOf(s) = ItemsOf(t)
<1>1. /\ PartsOf(s) \in Seq(Seq(Items)) /\ Len(PartsOf(s)) = Len(s)
      /\ \A i \in 1 .. Len(s) : PartsOf(s)[i] = s[i].items
  BY PartsNested DEF Nested
<1>2. /\ PartsOf(t) \in Seq(Seq(Items)) /\ Len(PartsOf(t)) = Len(t)
      /\ \A i \in 1 .. Len(t) : PartsOf(t)[i] = t[i].items
  BY PartsNested DEF Nested
<1>3. \A i \in 1 .. Len(PartsOf(s)) : PartsOf(s)[i] = PartsOf(t)[i]
  BY <1>1, <1>2
<1>4. PartsOf(s) = PartsOf(t)
  <2> DEFINE p == PartsOf(s)
             q == PartsOf(t)
             E == Seq(Items)
  <2>1. /\ p \in Seq(E) /\ q \in Seq(E) /\ Len(p) = Len(q)
        /\ \A i \in 1 .. Len(p) : p[i] = q[i]
    BY <1>1, <1>2, <1>3
  <2> HIDE DEF p, q, E
  <2>2. p = q
    BY <2>1, SeqEqual
  <2> QED
    BY <2>2 DEF p, q
<1> QED
  BY <1>4 DEF ItemsOf, PartsOf

\* Items added to the last page.
Extended(pages, items) == [pages EXCEPT ![Len(pages)].items = @ \o items]

LEMMA ItemsOfExtended ==
  ASSUME NEW pages \in Seq(Pages), pages # <<>>, NEW items \in Seq(Items),
         NEW q, q = Extended(pages, items)
  PROVE  /\ q \in Seq(Pages) /\ q # <<>> /\ Len(q) = Len(pages)
         /\ ItemsOf(q) = ItemsOf(pages) \o items
         /\ q[Len(pages)].id = pages[Len(pages)].id
         /\ q[Len(pages)].items = pages[Len(pages)].items \o items
<1> DEFINE n == Len(pages)
           p == [pages[n] EXCEPT !.items = @ \o items]
<1>1. n \in Nat \ {0} /\ n \in 1 .. n /\ pages[n] \in Pages
  BY EmptySeq, ElementOfSeq
<1>2. pages[n].items \o items \in Seq(Items)
  BY <1>1, PageFields, ConcatProperties
<1>3. /\ p \in Pages /\ p.items = pages[n].items \o items
      /\ p.id = pages[n].id /\ p.size = pages[n].size
  <2> DEFINE w == pages[n].items \o items
  <2>1. w \in Seq(Items) /\ p = [pages[n] EXCEPT !.items = w]
    BY <1>2
  <2> HIDE DEF w, p, n
  <2>2. p \in Pages /\ p.items = w /\ p.id = pages[n].id /\ p.size = pages[n].size
    BY <1>1, <2>1 DEF Pages
  <2> QED
    BY <2>2 DEF w
<1>4. q = [pages EXCEPT ![n] = p]
  BY DEF Extended
<1>n. n = Len(pages)
  OBVIOUS
<1> HIDE DEF n, p
<1>5. /\ q \in Seq(Pages) /\ Len(q) = Len(pages)
      /\ \A j \in 1 .. Len(pages) : q[j] = IF j = n THEN p ELSE pages[j]
  <2>1. n \in 1 .. Len(pages) /\ p \in Pages
    BY <1>1, <1>3, <1>n
  <2> DEFINE e == [pages EXCEPT ![n] = p]
  <2>2. /\ e \in Seq(Pages) /\ Len(e) = Len(pages)
        /\ \A j \in 1 .. Len(pages) : e[j] = IF j = n THEN p ELSE pages[j]
    BY <2>1, ExceptSeq
  <2> HIDE DEF e
  <2> QED
    BY <1>4, <2>2 DEF e
<1>6. q # <<>>
  BY <1>1, <1>5, EmptySeq DEF n
<1>7. /\ Nested(Items, PartsOf(pages)) /\ Len(PartsOf(pages)) = n
      /\ \A i \in 1 .. n : PartsOf(pages)[i] = pages[i].items
  BY PartsNested DEF n
<1>8. /\ Nested(Items, PartsOf(q)) /\ Len(PartsOf(q)) = n
      /\ \A i \in 1 .. n : PartsOf(q)[i] = q[i].items
  BY <1>5, PartsNested DEF n
<1> DEFINE s == PartsOf(pages)
           t == PartsOf(q)
<1>9. ASSUME NEW i \in 1 .. n - 1
      PROVE  t[i] = s[i]
  <2>1. i \in 1 .. n /\ i # n
    BY <1>1
  <2>2. t[i] = q[i].items /\ s[i] = pages[i].items /\ q[i] = pages[i]
    BY <1>5, <1>7, <1>8, <1>n, <2>1
  <2> QED
    BY <2>2
<1>10. t[n] = s[n] \o items
  <2>1. t[n] = q[n].items /\ s[n] = pages[n].items /\ q[n] = p
    BY <1>1, <1>5, <1>7, <1>8, <1>n
  <2> QED
    BY <1>3, <2>1
<1>11. s # <<>>
  BY <1>1, <1>7, EmptySeq
<1>13. Nested(Items, s) /\ Nested(Items, t) /\ Len(s) = n /\ Len(t) = n
  BY <1>7, <1>8
<1> HIDE DEF s, t
<1>12. FlattenSeq(t) = FlattenSeq(s) \o items
  <2>1. Len(t) = Len(s) /\ t[Len(s)] = s[Len(s)] \o items
    BY <1>10, <1>13
  <2>2. \A i \in 1 .. Len(s) - 1 : t[i] = s[i]
    BY <1>9, <1>13
  <2> QED
    BY <1>11, <1>13, <2>1, <2>2, FlattenExtended
<1>14. q[n].id = pages[n].id /\ q[n].items = pages[n].items \o items
  <2>1. q[n] = p
    BY <1>1, <1>5, <1>n
  <2> QED
    BY <1>3, <2>1
<1> QED
  BY <1>5, <1>6, <1>12, <1>14, <1>n DEF s, t, ItemsOf, PartsOf

\* A page with room takes the items itself.
LEMMA ConcatFits ==
  ASSUME NEW c \in Copies, NEW items \in Seq(Items), items # <<>>,
         c.pages # <<>>, NEW n, n = Len(c.pages), ~(c.pages[n].size >= PageSize)
  PROVE  /\ ConcatTo(c, items).pages \in Seq(Pages)
         /\ Len(ConcatTo(c, items).pages) = n
         /\ ConcatTo(c, items).pages[n].id = c.pages[n].id
         /\ ConcatTo(c, items).pages[n].items = c.pages[n].items \o items
<1> DEFINE filled == [c.pages EXCEPT ![Len(c.pages)].items = @ \o items]
           k == c.count + Len(items)
<1>1. ConcatTo(c, items) = [c EXCEPT !.pages = filled, !.count = k]
  BY DEF ConcatTo
<1>2. c.pages \in Seq(Pages)
  BY DEF Copies
<1>n. n = Len(c.pages)
  OBVIOUS
<1>3. /\ filled \in Seq(Pages) /\ Len(filled) = n
      /\ filled[n].id = c.pages[n].id
      /\ filled[n].items = c.pages[n].items \o items
  <2>1. filled = Extended(c.pages, items)
    BY DEF Extended
  <2> DEFINE s == c.pages
  <2> HIDE DEF filled, s
  <2>2. s \in Seq(Pages) /\ s # <<>> /\ filled = Extended(s, items)
    BY <1>2, <2>1 DEF s
  <2>3. filled \in Seq(Pages) /\ Len(filled) = Len(s)
    BY <2>2, ItemsOfExtended
  <2>4. filled[Len(s)].id = s[Len(s)].id
    BY <2>2, ItemsOfExtended
  <2>5. filled[Len(s)].items = s[Len(s)].items \o items
    BY <2>2, ItemsOfExtended
  <2> QED
    BY <1>n, <2>3, <2>4, <2>5 DEF s
<1> HIDE DEF filled, k
<1>4. c \in Copies
  OBVIOUS
<1>5. ConcatTo(c, items) = [held |-> c.held, pages |-> filled, count |-> k]
  BY <1>1, <1>4 DEF Copies
<1>6. ConcatTo(c, items).pages = filled
  BY <1>5
<1> HIDE DEF ConcatTo
<1> QED
  BY <1>3, <1>6

\* What a concat makes of a copy.
LEMMA ConcatToAdds ==
  ASSUME NEW c \in Copies, NEW items \in Seq(Items)
  PROVE  /\ ConcatTo(c, items) \in Copies
         /\ ConcatTo(c, items).held = c.held
         /\ c.pages = <<>> => ConcatTo(c, items) = c
         /\ c.pages # <<>> =>
              /\ ConcatTo(c, items).pages # <<>>
              /\ Shown(ConcatTo(c, items)) = Shown(c) \o items
              /\ ConcatTo(c, items).count = c.count + Len(items)
<1>0. /\ c.pages \in Seq(Pages) /\ c.count \in Nat /\ c.held \in BOOLEAN
      /\ Len(items) \in Nat
  BY LenProperties DEF Copies
<1>1. CASE items = <<>> \/ c.pages = <<>>
  <2>1. ConcatTo(c, items) = c
    BY <1>1 DEF ConcatTo
  <2>2. Shown(c) \o <<>> = Shown(c) /\ Len(<<>>) = 0
    BY <1>0, ItemsOfTypes, ConcatEmptySeq, EmptySeq DEF Shown
  <2>3. items = <<>> => Shown(c) \o items = Shown(c) /\ c.count = c.count + Len(items)
    BY <1>0, <2>2
  <2> QED
    BY <1>1, <2>1, <2>3
<1>2. CASE ~(items = <<>> \/ c.pages = <<>>)
  <2> DEFINE n == Len(c.pages)
             p == [id |-> <<>>, size |-> 0, items |-> items]
             grown == Append(c.pages, p)
             filled == [c.pages EXCEPT ![n].items = @ \o items]
             pages == IF c.pages[n].size >= PageSize THEN grown ELSE filled
  <2>1. ConcatTo(c, items) = [c EXCEPT !.pages = pages, !.count = @ + Len(items)]
    BY <1>2 DEF ConcatTo
  <2>2. p \in Pages /\ p.items = items
    BY DEF Pages, PageIds
  <2> HIDE DEF p
  <2>3. /\ grown \in Seq(Pages) /\ grown # <<>>
        /\ ItemsOf(grown) = ItemsOf(c.pages) \o items
    BY <1>0, <2>2, ItemsOfAppend
  <2>f. filled = Extended(c.pages, items)
    BY DEF Extended
  <2> HIDE DEF grown, filled
  <2>4. /\ filled \in Seq(Pages) /\ filled # <<>>
        /\ ItemsOf(filled) = ItemsOf(c.pages) \o items
    BY <1>0, <1>2, <2>f, ItemsOfExtended
  <2>5. /\ pages \in Seq(Pages) /\ pages # <<>>
        /\ ItemsOf(pages) = ItemsOf(c.pages) \o items
    BY <2>3, <2>4
  <2> HIDE DEF pages
  <2>6. /\ ConcatTo(c, items) \in Copies
        /\ ConcatTo(c, items).held = c.held
        /\ ConcatTo(c, items).pages = pages
        /\ ConcatTo(c, items).count = c.count + Len(items)
    <3> DEFINE k == c.count + Len(items)
    <3>1. k \in Nat /\ ConcatTo(c, items) = [c EXCEPT !.pages = pages, !.count = k]
      BY <1>0, <2>1
    <3> HIDE DEF k
    <3>2. /\ ConcatTo(c, items) \in Copies
          /\ ConcatTo(c, items).held = c.held
          /\ ConcatTo(c, items).pages = pages
          /\ ConcatTo(c, items).count = k
      BY <2>5, <3>1 DEF Copies
    <3> QED
      BY <3>2 DEF k
  <2> QED
    BY <1>2, <2>5, <2>6 DEF Shown
<1> QED
  BY <1>1, <1>2

LEMMA ReplicateAdds ==
  ASSUME NEW c \in Copies, NEW m, m.items \in Seq(Items), m.start \in Nat
  PROVE  /\ Replicate(c, m) \in Copies
         /\ Replicate(c, m).held = c.held
         /\ c.pages = <<>> => Replicate(c, m).pages = c.pages
         /\ ~c.held => Replicate(c, m) = c
         /\ c.held /\ c.pages # <<>> =>
              /\ Replicate(c, m).pages = ConcatTo(c, m.items).pages
              /\ Replicate(c, m).pages # <<>>
              /\ Shown(Replicate(c, m)) = Shown(c) \o m.items
              /\ m.start <= c.count =>
                   Replicate(c, m).count = c.count + Len(m.items)
<1> DEFINE d == ConcatTo(c, m.items)
<1>1. /\ d \in Copies /\ d.held = c.held
      /\ c.pages = <<>> => d = c
      /\ c.pages # <<>> => /\ d.pages # <<>>
                           /\ Shown(d) = Shown(c) \o m.items
                           /\ d.count = c.count + Len(m.items)
  BY ConcatToAdds
<1> HIDE DEF d
<1>2. /\ c.count \in Nat /\ d.count \in Nat /\ Len(m.items) \in Nat
      /\ c.held \in BOOLEAN
  BY <1>1, LenProperties DEF Copies
<1>3. CASE ~c.held
  BY <1>3 DEF Replicate
<1>4. CASE c.held
  <2> DEFINE k == AtLeast(d.count, m.start + Len(m.items))
  <2>1. /\ k \in Nat
        /\ m.start <= c.count /\ d.count = c.count + Len(m.items) => k = d.count
    BY <1>2 DEF AtLeast
  <2>2. Replicate(c, m) = [d EXCEPT !.count = k]
    BY <1>4 DEF Replicate, d
  <2> HIDE DEF k
  <2>3. /\ Replicate(c, m) \in Copies /\ Replicate(c, m).held = d.held
        /\ Replicate(c, m).pages = d.pages /\ Replicate(c, m).count = k
    BY <1>1, <2>1, <2>2 DEF Copies
  <2>4. Shown(Replicate(c, m)) = Shown(d)
    BY <2>3 DEF Shown
  <2>5. c.pages = <<>> => Replicate(c, m).pages = c.pages
    BY <1>1, <2>3
  <2>6. c.pages # <<>> =>
              /\ Replicate(c, m).pages = ConcatTo(c, m.items).pages
              /\ Replicate(c, m).pages # <<>>
              /\ Shown(Replicate(c, m)) = Shown(c) \o m.items
              /\ m.start <= c.count =>
                   Replicate(c, m).count = c.count + Len(m.items)
    BY <1>1, <2>1, <2>3, <2>4 DEF d
  <2> QED
    BY <1>1, <1>4, <2>3, <2>5, <2>6
<1> QED
  BY <1>2, <1>3, <1>4

LEMMA ResizeKeeps ==
  ASSUME NEW c \in Copies, NEW id, NEW size \in Nat
  PROVE  /\ Resize(c, id, size) \in Copies
         /\ Resize(c, id, size).held = c.held
         /\ Resize(c, id, size).count = c.count
         /\ Len(Resize(c, id, size).pages) = Len(c.pages)
         /\ c.pages # <<>> => Resize(c, id, size).pages # <<>>
         /\ \A i \in 1 .. Len(c.pages) :
              Resize(c, id, size).pages[i] =
                IF c.pages[i].id = id THEN [c.pages[i] EXCEPT !.size = size]
                ELSE c.pages[i]
         /\ Shown(Resize(c, id, size)) = Shown(c)
<1> DEFINE s == c.pages
           n == Len(s)
           e(i) == IF s[i].id = id THEN [s[i] EXCEPT !.size = size] ELSE s[i]
           t == [i \in 1 .. n |-> e(i)]
<1>1. s \in Seq(Pages) /\ n \in Nat /\ DOMAIN s = 1 .. n
      /\ \A i \in 1 .. n : s[i] \in Pages
  BY LenProperties, ElementOfSeq DEF Copies
<1>2. Resize(c, id, size) = [c EXCEPT !.pages = t]
  BY <1>1 DEF Resize
<1>3. ASSUME NEW i \in 1 .. n
      PROVE  e(i) \in Pages /\ e(i).items = s[i].items
  <2>1. s[i] \in Pages
    BY <1>1
  <2> QED
    BY <2>1 DEF Pages
<1> HIDE DEF e
<1>4. t \in [1 .. n -> Pages]
  BY <1>3
<1>5. t \in Seq(Pages) /\ Len(t) = n
  BY <1>1, <1>4
<1>6. \A i \in 1 .. n : t[i] = e(i)
  OBVIOUS
<1> HIDE DEF t
<1>7. ItemsOf(t) = ItemsOf(s)
  <2>1. \A i \in 1 .. Len(t) : t[i].items = s[i].items
    BY <1>3, <1>5, <1>6
  <2> QED
    BY <1>1, <1>5, <2>1, ItemsOfSame
<1>8. /\ Resize(c, id, size) \in Copies /\ Resize(c, id, size).held = c.held
      /\ Resize(c, id, size).count = c.count /\ Resize(c, id, size).pages = t
  BY <1>2, <1>5 DEF Copies
<1>9. s # <<>> => t # <<>>
  BY <1>1, <1>5, EmptySeq
<1> QED
  BY <1>5, <1>6, <1>7, <1>8, <1>9 DEF Shown, e

\* Merging pages of a read makes pages of pages.
LEMMA MergePageTypes ==
  ASSUME NEW pages \in Seq(Pages), NEW p \in Pages
  PROVE  MergePage(pages, p) \in Seq(Pages)
<1> DEFINE t == [i \in DOMAIN pages |-> IF pages[i].id = p.id THEN p ELSE pages[i]]
<1>1. /\ Len(pages) \in Nat /\ DOMAIN pages = 1 .. Len(pages)
      /\ \A i \in 1 .. Len(pages) : pages[i] \in Pages
  BY LenProperties, ElementOfSeq
<1>2. t \in [1 .. Len(pages) -> Pages]
  BY <1>1
<1>3. t \in Seq(Pages)
  BY <1>1, <1>2
<1>4. Append(pages, p) \in Seq(Pages)
  BY AppendProperties
<1> QED
  BY <1>3, <1>4 DEF MergePage

LEMMA MergeReadTypes ==
  ASSUME NEW c \in Copies, NEW pages \in Seq(Pages)
  PROVE  /\ MergeRead(c, pages) \in Copies
         /\ MergeRead(c, pages).held = TRUE
         /\ MergeRead(c, pages).pages = MergePages(c.pages, pages)
         /\ c.held => MergeRead(c, pages).count = c.count
<1> DEFINE merged == MergePages(c.pages, pages)
<1>1. merged \in Seq(Pages)
  <2>1. Len(pages) \in Nat /\ \A i \in 1 .. Len(pages) : pages[i] \in Pages
    BY LenProperties, ElementOfSeq
  <2>2. \A x \in Seq(Pages) : \A i \in 1 .. Len(pages) :
          MergePage(x, pages[i]) \in Seq(Pages)
    BY <2>1, MergePageTypes
  <2>3. c.pages \in Seq(Pages)
    BY DEF Copies
  <2> QED
    BY <2>1, <2>2, <2>3, MergesKeep
<1>2. CountItems(merged) \in Nat
  BY <1>1, ItemsOfTypes DEF CountItems
<1>3. MergeRead(c, pages) = [held |-> TRUE, pages |-> merged,
        count |-> IF c.held THEN c.count ELSE CountItems(merged)]
  BY DEF MergeRead
<1> HIDE DEF merged
<1>4. c.count \in Nat
  BY DEF Copies
<1>5. /\ MergeRead(c, pages) \in Copies
      /\ MergeRead(c, pages).held = TRUE
      /\ MergeRead(c, pages).pages = merged
      /\ c.held => MergeRead(c, pages).count = c.count
  BY <1>1, <1>2, <1>3, <1>4 DEF Copies
<1> QED
  BY <1>5 DEF merged

LEMMA NoneTypes == None \in Copies /\ None.held = FALSE /\ None.pages = <<>>
  BY DEF None, Copies

LEMMA MessageFields ==
  ASSUME NEW m \in Messages
  PROVE  /\ m.kind \in {"subscribed", "read", "unsubscribed", "deleted",
                        "concat", "metadata"}
         /\ m.kind \in {"subscribed", "read"} => m.pages \in Seq(Pages)
         /\ m.kind = "concat" => m.items \in Seq(Items) /\ m.start \in Nat
         /\ m.kind = "metadata" => m.size \in Nat
  BY DEF Messages

\* The first page of all, subscribed to.
LEMMA SubscribedIs ==
  ASSUME NEW c, NEW m, m.kind = "subscribed", m.pages \in Seq(Pages)
  PROVE  /\ Deliver(c, m) \in Copies /\ Deliver(c, m).held
         /\ Deliver(c, m).pages = m.pages
         /\ Shown(Deliver(c, m)) = ItemsOf(m.pages)
         /\ Deliver(c, m).count = Len(ItemsOf(m.pages))
<1>1. Deliver(c, m)
        = [held |-> TRUE, pages |-> m.pages, count |-> CountItems(m.pages)]
  BY DEF Deliver
<1>2. CountItems(m.pages) \in Nat /\ CountItems(m.pages) = Len(ItemsOf(m.pages))
  BY ItemsOfTypes DEF CountItems
<1> QED
  BY <1>1, <1>2 DEF Shown, Copies

LEMMA DeliverTypes ==
  ASSUME NEW c \in Copies, NEW m \in Messages
  PROVE  Deliver(c, m) \in Copies
<1>1. CASE m.kind = "subscribed"
  BY <1>1, MessageFields, SubscribedIs
<1>2. CASE m.kind = "read"
  <2>1. Deliver(c, m) = MergeRead(c, m.pages)
    BY <1>2 DEF Deliver
  <2> QED
    BY <1>2, <2>1, MessageFields, MergeReadTypes
<1>3. CASE m.kind = "concat"
  <2>1. Deliver(c, m) = Replicate(c, m)
    BY <1>3 DEF Deliver
  <2> QED
    BY <1>3, <2>1, MessageFields, ReplicateAdds
<1>4. CASE m.kind = "metadata"
  <2>1. Deliver(c, m) = Resize(c, m.id, m.size)
    BY <1>4 DEF Deliver
  <2> QED
    BY <1>4, <2>1, MessageFields, ResizeKeeps
<1>5. CASE m.kind \in {"unsubscribed", "deleted"}
  <2>1. Deliver(c, m) = None
    BY <1>5 DEF Deliver
  <2> QED
    BY <2>1, NoneTypes
<1> QED
  BY <1>1, <1>2, <1>3, <1>4, <1>5, MessageFields

-----------------------------------------------------------------------------
(* The store                                                               *)

Stores == [made : Nat, pages : Seq(Seq(Items))]

LEMMA LogTypes ==
  ASSUME store \in Stores
  PROVE  /\ Nested(Items, store.pages) /\ Log \in Seq(Items) /\ Len(Log) \in Nat
         /\ store.made \in Nat /\ Len(store.pages) \in Nat
         /\ Exists => Len(store.pages) >= 1
         /\ ~Exists => Log = <<>> /\ Len(store.pages) = 0
<1>1. store.pages \in Seq(Seq(Items)) /\ store.made \in Nat
  BY DEF Stores
<1>2. Nested(Items, store.pages)
  BY <1>1 DEF Nested
<1>3. Log \in Seq(Items)
  BY <1>2, FlattenTypes DEF Log
<1>4. ~Exists => Log = <<>> /\ Len(store.pages) = 0
  BY FlattenNothing, EmptySeq DEF Log, Exists
<1>5. Exists => Len(store.pages) >= 1
  BY <1>1, EmptySeq DEF Exists
<1> QED
  BY <1>1, <1>2, <1>3, <1>4, <1>5, LenProperties

ThePage(i) == [id |-> <<store.made, i>>, size |-> Len(store.pages[i]),
               items |-> store.pages[i]]
Smaller(n, m) == IF n < m THEN n ELSE m

LEMMA SnapshotIs ==
  ASSUME store \in Stores, NEW first \in Nat \ {0}, NEW last \in Nat,
         NEW k, k = Smaller(last, Len(store.pages))
  PROVE  /\ Snapshot(first, last) \in Seq(Pages)
         /\ Len(Snapshot(first, last)) = IF first <= k THEN k - first + 1 ELSE 0
         /\ \A i \in 1 .. k - first + 1 :
              Snapshot(first, last)[i] = ThePage(first + i - 1)
<1> DEFINE n == Len(store.pages)
           all == [i \in 1 .. n |-> ThePage(i)]
<1>1. n \in Nat /\ store.made \in Nat /\ store.pages \in Seq(Seq(Items))
      /\ \A i \in 1 .. n : store.pages[i] \in Seq(Items)
  BY LenProperties, ElementOfSeq DEF Stores
<1>2. ASSUME NEW i \in 1 .. n
      PROVE  ThePage(i) \in Pages
  <2>1. store.pages[i] \in Seq(Items) /\ Len(store.pages[i]) \in Nat
    BY <1>1, LenProperties
  <2>2. <<store.made, i>> \in PageIds
    BY <1>1 DEF PageIds
  <2> QED
    BY <2>1, <2>2 DEF ThePage, Pages
<1>3. k \in Nat /\ k <= n /\ k = Smaller(last, n)
  BY <1>1 DEF Smaller
<1>4. Snapshot(first, last) = SubSeq(all, first, k)
  BY <1>3 DEF Snapshot, ThePage, Smaller
<1>5. \A i \in 1 .. n : all[i] = ThePage(i)
  OBVIOUS
<1> HIDE DEF all, n
<1>6. \A i \in first .. k : i \in 1 .. n /\ all[i] \in Pages
  BY <1>1, <1>2, <1>3, <1>5
<1>7. /\ SubSeq(all, first, k) \in Seq(Pages)
      /\ Len(SubSeq(all, first, k)) = IF first <= k THEN k - first + 1 ELSE 0
      /\ \A i \in 1 .. k - first + 1 : SubSeq(all, first, k)[i] = all[first + i - 1]
  <2>1. first \in Int /\ k \in Int /\ \A i \in first .. k : all[i] \in Pages
    BY <1>3, <1>6
  <2> QED
    BY <2>1, SubSeqProperties
<1>8. ASSUME NEW i \in 1 .. k - first + 1
      PROVE  SubSeq(all, first, k)[i] = ThePage(first + i - 1)
  <2>1. first + i - 1 \in first .. k
    BY <1>3
  <2>2. all[first + i - 1] = ThePage(first + i - 1)
    BY <1>5, <1>6, <2>1
  <2>3. SubSeq(all, first, k)[i] = all[first + i - 1]
    BY <1>7
  <2> QED
    BY <2>2, <2>3
<1>9. /\ Snapshot(first, last) \in Seq(Pages)
      /\ Len(Snapshot(first, last)) = IF first <= k THEN k - first + 1 ELSE 0
      /\ \A i \in 1 .. k - first + 1 :
           Snapshot(first, last)[i] = ThePage(first + i - 1)
  BY <1>4, <1>7, <1>8, Zenon
<1> QED
  BY <1>9

\* All the pages hold the log.
LEMMA SnapshotAll ==
  ASSUME store \in Stores
  PROVE  /\ Snapshot(1, Len(store.pages)) \in Seq(Pages)
         /\ Len(Snapshot(1, Len(store.pages))) = Len(store.pages)
         /\ \A i \in 1 .. Len(store.pages) :
              Snapshot(1, Len(store.pages))[i] = ThePage(i)
         /\ ItemsOf(Snapshot(1, Len(store.pages))) = Log
<1> DEFINE n == Len(store.pages)
           s == Snapshot(1, n)
<1>1. n \in Nat /\ store.pages \in Seq(Seq(Items))
  BY LenProperties DEF Stores
<1>2. Smaller(n, n) = n /\ n = Smaller(n, Len(store.pages))
  BY DEF Smaller
<1>3. /\ s \in Seq(Pages) /\ Len(s) = IF 1 <= n THEN n - 1 + 1 ELSE 0
      /\ \A i \in 1 .. n - 1 + 1 : s[i] = ThePage(1 + i - 1)
  <2> DEFINE one == 1
  <2>1. one \in Nat \ {0}
    OBVIOUS
  <2> HIDE DEF n, one
  <2>2. /\ Snapshot(one, n) \in Seq(Pages)
        /\ Len(Snapshot(one, n)) = IF one <= n THEN n - one + 1 ELSE 0
        /\ \A i \in 1 .. n - one + 1 : Snapshot(one, n)[i] = ThePage(one + i - 1)
    BY <1>1, <1>2, <2>1, SnapshotIs
  <2> QED
    BY <2>2 DEF one
<1> HIDE DEF s
<1>4. Len(s) = n /\ \A i \in 1 .. n : s[i] = ThePage(i)
  <2>1. n - 1 + 1 = n /\ Len(s) = n
    BY <1>1, <1>3
  <2>2. ASSUME NEW i \in 1 .. n
        PROVE  s[i] = ThePage(i)
    <3>1. 1 + i - 1 = i
      OBVIOUS
    <3> QED
      BY <1>3, <2>1, <3>1
  <2> QED
    BY <2>1, <2>2
<1>5. /\ PartsOf(s) \in Seq(Seq(Items)) /\ Len(PartsOf(s)) = n
      /\ \A i \in 1 .. n : PartsOf(s)[i] = s[i].items
  BY <1>3, <1>4, PartsNested DEF Nested
<1>6. ASSUME NEW i \in 1 .. n
      PROVE  PartsOf(s)[i] = store.pages[i]
  <2>1. PartsOf(s)[i] = s[i].items /\ s[i] = ThePage(i)
    BY <1>4, <1>5
  <2> QED
    BY <2>1 DEF ThePage
<1>7. PartsOf(s) = store.pages
  BY <1>1, <1>5, <1>6, SeqEqual
<1>8. ItemsOf(s) = Log
  BY <1>7 DEF ItemsOf, PartsOf, Log
<1> QED
  BY <1>3, <1>4, <1>8 DEF s

-----------------------------------------------------------------------------
(* Types, and what the calls on their way and the mutex are about          *)

\* Only writers concat; there is a read or a delete only if one was called.
Justified(m, rd, dl) ==
  /\ m.kind = "concat" => m.from \in Writers
  /\ m.kind = "read" => rd # 0
  /\ m.kind = "delete" => dl # 0
Sane(s, rd, dl) == \A i \in 1 .. Len(s) : Justified(s[i], rd, dl)
Sent(r, s) == \A i \in 1 .. Len(s) : s[i].from = r

QueueRuns == phase # "waiting" => queue # <<>>
ReadsPages == phase = "reading" => Head(queue).kind = "subscribe" /\ Exists
SubscribersExist == subscribed # {} => Exists
CallsAreSane == /\ Sane(queue, reads, deletes)
                /\ \A r \in Replicas : Sane(up[r], reads, deletes) /\ Sent(r, up[r])
Control == QueueRuns /\ ReadsPages /\ SubscribersExist /\ CallsAreSane
CInv == TypeOK /\ Control

LEMMA CallFields ==
  ASSUME NEW m \in Calls
  PROVE  /\ m.from \in Replicas
         /\ m.kind \in {"subscribe", "unsubscribe", "delete", "concat", "read"}
         /\ m.kind = "concat" => m.items \in Seq(Items)
         /\ m.kind = "read" => m.first \in Nat \ {0} /\ m.last \in Nat
  BY DEF Calls

LEMMA TheTypes ==
  ASSUME TypeOK
  PROVE  /\ store \in Stores /\ subscribed \subseteq Replicas /\ queue \in Seq(Calls)
         /\ coll \in [Replicas -> Copies]
         /\ up \in [Replicas -> Seq(Calls)] /\ down \in [Replicas -> Seq(Messages)]
         /\ \A r \in Replicas : /\ coll[r] \in Copies /\ up[r] \in Seq(Calls)
                                /\ down[r] \in Seq(Messages)
                                /\ Len(up[r]) \in Nat /\ Len(down[r]) \in Nat
         /\ Len(queue) \in Nat
<1>1. /\ store \in Stores /\ subscribed \subseteq Replicas /\ queue \in Seq(Calls)
      /\ coll \in [Replicas -> Copies]
      /\ up \in [Replicas -> Seq(Calls)] /\ down \in [Replicas -> Seq(Messages)]
  BY DEF TypeOK, Stores, Copies
<1> QED
  BY <1>1, LenProperties

LEMMA SaneAppend ==
  ASSUME NEW s \in Seq(Calls), NEW m \in Calls, NEW rd, NEW dl, NEW re, NEW de,
         Sane(s, rd, dl), rd # 0 => re # 0, dl # 0 => de # 0
  PROVE  /\ Sane(s, re, de)
         /\ Justified(m, re, de) => Sane(Append(s, m), re, de)
         /\ \A r : Sent(r, s) /\ m.from = r => Sent(r, Append(s, m))
<1> DEFINE t == Append(s, m)
<1>1. /\ t \in Seq(Calls) /\ Len(t) = Len(s) + 1 /\ Len(s) \in Nat
      /\ \A i \in 1 .. Len(s) : t[i] = s[i]
      /\ t[Len(s) + 1] = m
  BY AppendProperties, LenProperties
<1> HIDE DEF t
<1>2. Sane(s, re, de)
  BY DEF Sane, Justified
<1>3. \A i \in 1 .. Len(t) : i \in 1 .. Len(s) \/ i = Len(s) + 1
  BY <1>1
<1>4. Justified(m, re, de) => Sane(t, re, de)
  BY <1>1, <1>2, <1>3 DEF Sane
<1>5. \A r : Sent(r, s) /\ m.from = r => Sent(r, t)
  BY <1>1, <1>3 DEF Sent
<1> QED
  BY <1>2, <1>4, <1>5 DEF t

LEMMA SaneTail ==
  ASSUME NEW s \in Seq(Calls), s # <<>>, NEW rd, NEW dl, Sane(s, rd, dl)
  PROVE  /\ Justified(Head(s), rd, dl) /\ Sane(Tail(s), rd, dl)
         /\ \A r : Sent(r, s) => Head(s).from = r /\ Sent(r, Tail(s))
<1>1. /\ Head(s) = s[1] /\ 1 \in 1 .. Len(s) /\ Len(Tail(s)) = Len(s) - 1
      /\ Len(s) \in Nat
      /\ \A i \in 1 .. Len(s) - 1 : Tail(s)[i] = s[i + 1]
  BY Taken, LenProperties
<1>2. \A i \in 1 .. Len(Tail(s)) : i + 1 \in 1 .. Len(s) /\ Tail(s)[i] = s[i + 1]
  BY <1>1
<1>3. Justified(Head(s), rd, dl)
  BY <1>1 DEF Sane
<1>4. Sane(Tail(s), rd, dl)
  BY <1>2 DEF Sane
<1>5. \A r : Sent(r, s) => Head(s).from = r /\ Sent(r, Tail(s))
  BY <1>1, <1>2 DEF Sent
<1> QED
  BY <1>3, <1>4, <1>5

\* The job at the head, and what is behind it.
LEMMA TheJob ==
  ASSUME CInv, queue # <<>>
  PROVE  /\ Head(queue) \in Calls /\ Tail(queue) \in Seq(Calls)
         /\ Head(queue).from \in Replicas
         /\ Justified(Head(queue), reads, deletes)
         /\ Sane(Tail(queue), reads, deletes)
<1>1. queue \in Seq(Calls) /\ Sane(queue, reads, deletes)
  BY TheTypes DEF CInv, Control, CallsAreSane
<1> QED
  BY <1>1, SaneTail, Taken, CallFields

\* A call is sent.
LEMMA CallControl ==
  ASSUME CInv, NEW r \in Replicas, NEW m \in Calls, m.from = r, Send(r, m),
         Justified(m, reads', deletes'),
         reads # 0 => reads' # 0, deletes # 0 => deletes' # 0,
         coll' \in [Replicas -> Copies], wants' \in [Replicas -> BOOLEAN],
         concats' \in 0 .. MaxConcats, calls' \in 0 .. MaxCalls,
         reads' \in 0 .. MaxReads, deletes' \in 0 .. MaxDeletes,
         UNCHANGED <<dbVars, down>>
  PROVE  CInv'
<1> USE DEF CInv
<1>1. /\ up \in [Replicas -> Seq(Calls)] /\ queue \in Seq(Calls)
      /\ up' = [up EXCEPT ![r] = Append(@, m)]
  BY TheTypes DEF Send
<1>2. /\ up' \in [Replicas -> Seq(Calls)]
      /\ \A q \in Replicas : up'[q] = IF q = r THEN Append(up[q], m) ELSE up[q]
  <2>1. Append(up[r], m) \in Seq(Calls)
    BY <1>1, AppendProperties
  <2> QED
    BY <1>1, <2>1
<1>3. TypeOK'
  BY <1>2 DEF TypeOK, Copies, dbVars
<1>4. Sane(queue', reads', deletes')
  BY <1>1, SaneAppend DEF Control, CallsAreSane, dbVars
<1>5. ASSUME NEW q \in Replicas
      PROVE  Sane(up'[q], reads', deletes') /\ Sent(q, up'[q])
  <2>1. up[q] \in Seq(Calls) /\ Sane(up[q], reads, deletes) /\ Sent(q, up[q])
    BY <1>1 DEF Control, CallsAreSane
  <2>2. /\ Sane(up[q], reads', deletes')
        /\ Sane(Append(up[q], m), reads', deletes')
        /\ q = r => Sent(q, Append(up[q], m))
    BY <2>1, SaneAppend
  <2> QED
    BY <1>2, <2>1, <2>2
<1>6. CallsAreSane'
  BY <1>4, <1>5 DEF CallsAreSane
<1>7. QueueRuns' /\ ReadsPages' /\ SubscribersExist'
  BY DEF Control, QueueRuns, ReadsPages, SubscribersExist, Exists, dbVars
<1> QED
  BY <1>3, <1>6, <1>7 DEF Control

LEMMA CallsControl ==
  ASSUME CInv, NEW r \in Replicas,
         \/ Subscribe(r)
         \/ Unsubscribe(r)
         \/ \E n \in BatchSizes : Concat(r, n)
         \/ \E first, last \in 1 .. MaxConcats + 1 : Read(r, first, last)
         \/ Delete(r)
  PROVE  CInv'
<1>0. /\ coll \in [Replicas -> Copies] /\ coll[r] \in Copies
      /\ wants \in [Replicas -> BOOLEAN]
      /\ concats \in 0 .. MaxConcats /\ calls \in 0 .. MaxCalls
      /\ reads \in 0 .. MaxReads /\ deletes \in 0 .. MaxDeletes
      /\ {MaxConcats, MaxCalls, MaxReads, MaxDeletes} \subseteq Nat
  BY TheTypes, BoundsAssumption DEF CInv, TypeOK
<1>1. CASE Subscribe(r)
  <2> DEFINE m == [kind |-> "subscribe", from |-> r]
  <2>1. m \in Calls /\ m.from = r /\ Justified(m, reads', deletes')
    BY DEF Calls, Justified
  <2>2. /\ Send(r, m) /\ UNCHANGED <<dbVars, coll, down, concats, reads, deletes>>
        /\ calls' \in 0 .. MaxCalls /\ wants' \in [Replicas -> BOOLEAN]
    BY <1>0, <1>1 DEF Subscribe
  <2> HIDE DEF m
  <2> QED
    BY <1>0, <2>1, <2>2, CallControl
<1>2. CASE Unsubscribe(r)
  <2> DEFINE m == [kind |-> "unsubscribe", from |-> r]
  <2>1. m \in Calls /\ m.from = r /\ Justified(m, reads', deletes')
    BY DEF Calls, Justified
  <2>2. /\ Send(r, m) /\ UNCHANGED <<dbVars, coll, down, concats, reads, deletes>>
        /\ calls' \in 0 .. MaxCalls /\ wants' \in [Replicas -> BOOLEAN]
    BY <1>0, <1>2 DEF Unsubscribe
  <2> HIDE DEF m
  <2> QED
    BY <1>0, <2>1, <2>2, CallControl
<1>3. ASSUME NEW n \in BatchSizes, Concat(r, n)
      PROVE  CInv'
  <2> DEFINE items == [i \in 1 .. n |-> concats + 1]
             m == [kind |-> "concat", from |-> r, items |-> items]
  <2>1. items \in Seq(Items)
    <3>1. n \in Nat /\ concats + 1 \in Items
      BY <1>0, <1>3, BoundsAssumption DEF Concat, Items
    <3> QED
      BY <3>1
  <2>2. r \in Writers /\ Send(r, m) /\ concats' \in 0 .. MaxConcats
        /\ coll' = [coll EXCEPT ![r] = ConcatTo(@, items)]
        /\ UNCHANGED <<dbVars, wants, down, calls, reads, deletes>>
    BY <1>0, <1>3 DEF Concat
  <2> HIDE DEF items
  <2>3. m \in Calls /\ m.from = r /\ Justified(m, reads', deletes')
    BY <2>1, <2>2 DEF Calls, Justified
  <2>4. coll' \in [Replicas -> Copies]
    BY <1>0, <2>1, <2>2, ConcatToAdds
  <2> HIDE DEF m
  <2> QED
    BY <1>0, <2>2, <2>3, <2>4, CallControl
<1>4. ASSUME NEW first \in 1 .. MaxConcats + 1, NEW last \in 1 .. MaxConcats + 1,
             Read(r, first, last)
      PROVE  CInv'
  <2> DEFINE m == [kind |-> "read", from |-> r, first |-> first, last |-> last]
  <2>1. first \in Nat \ {0} /\ last \in Nat
    BY <1>0
  <2>2. /\ Send(r, m) /\ UNCHANGED <<dbVars, coll, wants, down, concats, calls, deletes>>
        /\ reads' \in 0 .. MaxReads /\ reads' # 0
    BY <1>0, <1>4 DEF Read
  <2>3. m \in Calls /\ m.from = r /\ Justified(m, reads', deletes')
    BY <2>1, <2>2 DEF Calls, Justified
  <2> HIDE DEF m
  <2> QED
    BY <1>0, <2>2, <2>3, CallControl
<1>5. CASE Delete(r)
  <2> DEFINE m == [kind |-> "delete", from |-> r]
  <2>1. /\ Send(r, m) /\ UNCHANGED <<dbVars, wants, down, concats, calls, reads>>
        /\ deletes' \in 0 .. MaxDeletes /\ deletes' # 0
        /\ coll' = [coll EXCEPT ![r] = None]
    BY <1>0, <1>5 DEF Delete
  <2>2. m \in Calls /\ m.from = r /\ Justified(m, reads', deletes')
    BY <2>1 DEF Calls, Justified
  <2>3. coll' \in [Replicas -> Copies]
    BY <1>0, <2>1, NoneTypes
  <2> HIDE DEF m
  <2> QED
    BY <1>0, <2>1, <2>2, <2>3, CallControl
<1> QED
  BY <1>1, <1>2, <1>3, <1>4, <1>5

LEMMA ReceiveControl ==
  ASSUME CInv, NEW r \in Replicas, Receive(r)
  PROVE  CInv'
<1>1. /\ coll \in [Replicas -> Copies] /\ down \in [Replicas -> Seq(Messages)]
      /\ down[r] # <<>> /\ UNCHANGED <<dbVars, wants, up, counters>>
      /\ coll' = [coll EXCEPT ![r] = Deliver(@, Head(down[r]))]
      /\ down' = [down EXCEPT ![r] = Tail(@)]
  BY TheTypes DEF CInv, Receive
<1>2. Head(down[r]) \in Messages /\ Tail(down[r]) \in Seq(Messages)
  BY <1>1, Taken
<1>3. Deliver(coll[r], Head(down[r])) \in Copies
  BY <1>1, <1>2, DeliverTypes
<1>4. coll' \in [Replicas -> Copies] /\ down' \in [Replicas -> Seq(Messages)]
  BY <1>1, <1>2, <1>3
<1>5. TypeOK'
  BY <1>1, <1>4 DEF CInv, TypeOK, Copies, dbVars, counters
<1>6. Control'
  BY <1>1 DEF CInv, Control, QueueRuns, ReadsPages, SubscribersExist, CallsAreSane,
              Exists, dbVars, counters
<1> QED
  BY <1>5, <1>6 DEF CInv

\* A message leaves its channel.
LEMMA ArrivesTakes ==
  ASSUME CInv, NEW r \in Replicas, Arrives(r)
  PROVE  /\ up' \in [Replicas -> Seq(Calls)]
         /\ \A q \in Replicas : up'[q] = IF q = r THEN Tail(up[q]) ELSE up[q]
         /\ Head(up[r]) \in Calls /\ up[r] # <<>> /\ Head(up[r]).from = r
         /\ Justified(Head(up[r]), reads, deletes)
         /\ \A q \in Replicas : Sane(up'[q], reads, deletes) /\ Sent(q, up'[q])
<1>1. /\ up \in [Replicas -> Seq(Calls)] /\ up[r] # <<>>
      /\ up' = [up EXCEPT ![r] = Tail(@)]
  BY TheTypes DEF CInv, Arrives
<1>2. \A q \in Replicas : Sane(up[q], reads, deletes) /\ Sent(q, up[q])
  BY DEF CInv, Control, CallsAreSane
<1>3. /\ Tail(up[r]) \in Seq(Calls) /\ Head(up[r]) \in Calls
      /\ Justified(Head(up[r]), reads, deletes) /\ Head(up[r]).from = r
      /\ Sane(Tail(up[r]), reads, deletes) /\ Sent(r, Tail(up[r]))
  <2>1. up[r] \in Seq(Calls)
    BY <1>1
  <2> QED
    BY <1>1, <1>2, <2>1, Taken, SaneTail
<1>4. /\ up' \in [Replicas -> Seq(Calls)]
      /\ \A q \in Replicas : up'[q] = IF q = r THEN Tail(up[q]) ELSE up[q]
  BY <1>1, <1>3
<1>5. \A q \in Replicas : Sane(up'[q], reads, deletes) /\ Sent(q, up'[q])
  BY <1>2, <1>3, <1>4
<1> QED
  BY <1>1, <1>3, <1>4, <1>5

LEMMA UnsubscribeControl ==
  ASSUME CInv, NEW r \in Replicas, DbUnsubscribe(r)
  PROVE  CInv'
<1>1. /\ Arrives(r) /\ subscribed' = subscribed \ {r}
      /\ down' = [down EXCEPT ![r] = Append(@, [kind |-> "unsubscribed"])]
      /\ UNCHANGED <<store, queue, phase, coll, wants, counters>>
  BY DEF DbUnsubscribe
<1>2. /\ up' \in [Replicas -> Seq(Calls)]
      /\ \A q \in Replicas : Sane(up'[q], reads, deletes) /\ Sent(q, up'[q])
  BY <1>1, ArrivesTakes
<1>3. down' \in [Replicas -> Seq(Messages)]
  <2>1. down \in [Replicas -> Seq(Messages)] /\ down[r] \in Seq(Messages)
    BY TheTypes DEF CInv
  <2>2. [kind |-> "unsubscribed"] \in Messages
    BY DEF Messages
  <2>3. Append(down[r], [kind |-> "unsubscribed"]) \in Seq(Messages)
    BY <2>1, <2>2, AppendProperties
  <2> QED
    BY <1>1, <2>1, <2>3
<1>4. TypeOK'
  BY <1>1, <1>2, <1>3 DEF CInv, TypeOK, counters
<1>5. CallsAreSane'
  BY <1>1, <1>2 DEF CInv, Control, CallsAreSane, counters
<1>6. QueueRuns' /\ ReadsPages' /\ SubscribersExist'
  BY <1>1 DEF CInv, Control, QueueRuns, ReadsPages, SubscribersExist, Exists
<1> QED
  BY <1>4, <1>5, <1>6 DEF CInv, Control

LEMMA EnqueueControl ==
  ASSUME CInv, NEW r \in Replicas, DbEnqueue(r)
  PROVE  CInv'
<1>1. /\ Arrives(r) /\ queue' = Append(queue, Head(up[r]))
      /\ UNCHANGED <<store, subscribed, phase, coll, wants, down, counters>>
  BY DEF DbEnqueue
<1>2. /\ up' \in [Replicas -> Seq(Calls)]
      /\ Head(up[r]) \in Calls /\ Justified(Head(up[r]), reads, deletes)
      /\ \A q \in Replicas : Sane(up'[q], reads, deletes) /\ Sent(q, up'[q])
  BY <1>1, ArrivesTakes
<1>3. queue \in Seq(Calls) /\ Sane(queue, reads, deletes)
  BY TheTypes DEF CInv, Control, CallsAreSane
<1>4. queue' \in Seq(Calls) /\ queue' # <<>> /\ Sane(queue', reads, deletes)
  BY <1>1, <1>2, <1>3, AppendProperties, SaneAppend
<1>5. TypeOK'
  BY <1>1, <1>2, <1>4 DEF CInv, TypeOK, counters
<1>6. CallsAreSane'
  BY <1>1, <1>2, <1>4 DEF CallsAreSane, counters
<1>7. phase = "reading" => Head(queue') = Head(queue)
  <2>1. phase = "reading" => queue # <<>>
    BY DEF CInv, Control, QueueRuns
  <2> QED
    BY <1>1, <1>3, <2>1, HeadTailAppend
<1>8. QueueRuns' /\ ReadsPages' /\ SubscribersExist'
  BY <1>1, <1>4, <1>7 DEF CInv, Control, QueueRuns, ReadsPages, SubscribersExist, Exists
<1> QED
  BY <1>5, <1>6, <1>8 DEF CInv, Control

LEMMA GrantControl ==
  ASSUME CInv, DbGrant
  PROVE  CInv'
<1>1. TypeOK'
  BY DEF CInv, TypeOK, DbGrant, counters
<1> QED
  BY <1>1 DEF CInv, Control, QueueRuns, ReadsPages, SubscribersExist, CallsAreSane,
              Exists, DbGrant, counters

LEMMA RecreatedTypes ==
  ASSUME store \in Stores
  PROVE  /\ Recreated \in Stores /\ Recreated.pages # <<>>
         /\ Exists => Recreated = store
         /\ ~Exists => Recreated.made = store.made + 1 /\ Recreated.pages = <<<<>>>>
<1>1. <<<<>>>> \in Seq(Seq(Items)) /\ <<<<>>>> # <<>>
  OBVIOUS
<1>2. store.made \in Nat
  BY DEF Stores
<1>3. CASE Exists
  BY <1>3 DEF Recreated, Exists
<1>4. CASE ~Exists
  <2>1. Recreated = [made |-> store.made + 1, pages |-> <<<<>>>>]
    BY <1>4 DEF Recreated
  <2> QED
    BY <1>1, <1>2, <1>4, <2>1 DEF Stores
<1> QED
  BY <1>3, <1>4

LEMMA AddsControl ==
  ASSUME CInv, DbSubscribeAdds
  PROVE  CInv'
<1>1. /\ phase = "opening" /\ Head(queue).kind = "subscribe"
      /\ store' = Recreated /\ subscribed' = subscribed \cup {Head(queue).from}
      /\ phase' = "reading" /\ UNCHANGED <<queue, coll, wants, up, down, counters>>
  BY DEF DbSubscribeAdds, Running
<1>2. queue # <<>>
  BY <1>1 DEF CInv, Control, QueueRuns
<1>3. Head(queue).from \in Replicas
  BY <1>2, TheJob
<1>4. store' \in Stores /\ Exists'
  BY <1>1, TheTypes, RecreatedTypes DEF CInv, Exists
<1>5. TypeOK'
  BY <1>1, <1>3, <1>4 DEF CInv, TypeOK, Stores, counters
<1> QED
  BY <1>1, <1>2, <1>4, <1>5
     DEF CInv, Control, QueueRuns, ReadsPages, SubscribersExist, CallsAreSane, counters

\* The mutex goes to the next.
LEMMA DoneControl ==
  ASSUME CInv, queue # <<>>, Done, store' \in Stores, subscribed' \subseteq Replicas,
         subscribed' # {} => Exists', down' \in [Replicas -> Seq(Messages)],
         UNCHANGED <<coll, wants, up, counters>>
  PROVE  CInv'
<1>1. Tail(queue) \in Seq(Calls) /\ Sane(Tail(queue), reads, deletes)
  BY TheJob
<1>2. queue' = Tail(queue) /\ phase' = "waiting"
  BY DEF Done
<1>3. TypeOK'
  BY <1>1, <1>2 DEF CInv, TypeOK, Stores, counters
<1>4. CallsAreSane'
  BY <1>1, <1>2 DEF CInv, Control, CallsAreSane, counters
<1> QED
  BY <1>2, <1>3, <1>4 DEF CInv, Control, QueueRuns, ReadsPages, SubscribersExist

\* The concat at the head: the pages it leads to and what is sent.
Before == Recreated.pages
PagesAfter(job) ==
  LET n == Len(Before)
  IN  IF Len(Before[n]) >= PageSize THEN Append(Before, job.items)
      ELSE [Before EXCEPT ![n] = @ \o job.items]
TheConcat(job) == [kind |-> "concat", items |-> job.items, start |-> Len(Log)]
TheUpdate(pages) == [kind |-> "metadata", id |-> <<Recreated.made, Len(pages)>>,
                     size |-> Len(Last(pages))]

LEMMA ConcatIs ==
  ASSUME CInv, DbConcat
  PROVE  LET job == Head(queue)
             pages == PagesAfter(job)
         IN  /\ phase = "opening" /\ queue # <<>> /\ job \in Calls
             /\ job.kind = "concat" /\ job.items # <<>> /\ job.items \in Seq(Items)
             /\ job.from \in Writers
             /\ pages \in Seq(Seq(Items)) /\ pages # <<>>
             /\ FlattenSeq(pages) = Log \o job.items
             /\ TheConcat(job) \in Messages /\ TheUpdate(pages) \in Messages
             /\ store' = [made |-> Recreated.made, pages |-> pages]
             /\ store' \in Stores
             /\ Log' = Log \o job.items
             /\ down' \in [Replicas -> Seq(Messages)]
             /\ \A r \in Replicas :
                  down'[r] =
                    IF r \notin subscribed THEN down[r]
                    ELSE IF r = job.from THEN Append(down[r], TheUpdate(pages))
                    ELSE Append(Append(down[r], TheConcat(job)), TheUpdate(pages))
             /\ Done /\ UNCHANGED <<subscribed, coll, wants, up, counters>>
<1> DEFINE job == Head(queue)
           n == Len(Before)
           pages == PagesAfter(job)
           a == TheConcat(job)
           b == TheUpdate(pages)
<1>0. phase = "opening" /\ queue # <<>> /\ job.kind = "concat" /\ job.items # <<>>
      /\ Done /\ UNCHANGED <<subscribed, coll, wants, up, counters>>
  BY DEF DbConcat, Running, CInv, Control, QueueRuns
<1>1. /\ job \in Calls /\ job.items \in Seq(Items) /\ job.from \in Writers
  BY <1>0, TheJob, CallFields DEF Justified
<1>2. store \in Stores /\ down \in [Replicas -> Seq(Messages)]
  BY TheTypes DEF CInv
<1>3. Recreated \in Stores /\ Before # <<>> /\ Before \in Seq(Seq(Items))
      /\ Recreated.made \in Nat /\ n \in Nat \ {0} /\ Before[n] \in Seq(Items)
  <2>1. Recreated \in Stores /\ Before # <<>> /\ Before \in Seq(Seq(Items))
        /\ Recreated.made \in Nat
    BY <1>2, RecreatedTypes DEF Before, Stores
  <2>2. n \in Nat \ {0}
    BY <2>1, EmptySeq
  <2>3. n \in 1 .. n
    BY <2>2
  <2> QED
    BY <2>1, <2>2, <2>3, ElementOfSeq
<1>4. FlattenSeq(Before) = Log
  <2>1. CASE Exists
    BY <1>2, <2>1, RecreatedTypes DEF Before, Log
  <2>2. CASE ~Exists
    <3>1. Before = <<<<>>>> /\ Log = <<>>
      BY <1>2, <2>2, RecreatedTypes, LogTypes DEF Before
    <3>2. Nested(Items, Before) /\ Len(Before) = 1 /\ Before[1] = <<>>
      BY <1>3, <3>1 DEF Nested
    <3> QED
      BY <3>1, <3>2, FlattenOne
  <2> QED
    BY <2>1, <2>2
<1>5. /\ pages \in Seq(Seq(Items)) /\ pages # <<>>
      /\ FlattenSeq(pages) = Log \o job.items
  <2> DEFINE v == job.items
             grown == Append(Before, v)
             filled == [Before EXCEPT ![n] = @ \o v]
  <2>0. v \in Seq(Items)
    BY <1>1
  <2> HIDE DEF v
  <2>1. /\ grown \in Seq(Seq(Items)) /\ grown # <<>> /\ Len(grown) = n + 1
        /\ \A i \in 1 .. n : grown[i] = Before[i]
        /\ grown[n + 1] = v
    BY <1>3, <2>0, AppendProperties
  <2> HIDE DEF grown
  <2>2. Longer(Items, Before, grown, v)
    BY <1>3, <2>0, <2>1 DEF Longer, Nested
  <2>3. FlattenSeq(grown) = Log \o v
    <3>1. FlattenSeq(grown) = FlattenSeq(Before) \o v
      BY <2>2, FlattenLonger
    <3> QED
      BY <1>4, <3>1
  <2>4. Before[n] \o v \in Seq(Items) /\ n \in 1 .. n
    BY <1>3, <2>0, ConcatProperties
  <2> DEFINE w == Before[n] \o v
  <2>5. /\ filled \in Seq(Seq(Items)) /\ Len(filled) = n
        /\ \A i \in 1 .. n : filled[i] = IF i = n THEN Before[n] \o v ELSE Before[i]
    <3>1. filled = [Before EXCEPT ![n] = w] /\ w \in Seq(Items)
      BY <2>4
    <3> HIDE DEF w, filled
    <3>2. /\ filled \in Seq(Seq(Items)) /\ Len(filled) = Len(Before)
          /\ \A i \in 1 .. Len(Before) : filled[i] = IF i = n THEN w ELSE Before[i]
      BY <1>3, <2>4, <3>1, ExceptSeq
    <3> QED
      BY <3>2 DEF w
  <2> HIDE DEF filled, w
  <2>6. filled # <<>> /\ Nested(Items, filled) /\ Nested(Items, Before)
    BY <1>3, <2>5, EmptySeq DEF Nested
  <2>7. filled[Len(Before)] = Before[Len(Before)] \o v
    BY <2>4, <2>5
  <2>8. \A i \in 1 .. Len(Before) - 1 : filled[i] = Before[i]
    BY <1>3, <2>5
  <2>9. FlattenSeq(filled) = FlattenSeq(Before) \o v
    BY <1>3, <2>0, <2>5, <2>6, <2>7, <2>8, FlattenExtended
  <2>10. pages = IF Len(Before[n]) >= PageSize THEN grown ELSE filled
    BY DEF PagesAfter, grown, filled, v
  <2> HIDE DEF pages
  <2>11. /\ pages \in Seq(Seq(Items)) /\ pages # <<>>
         /\ FlattenSeq(pages) = Log \o v
    BY <1>4, <2>1, <2>3, <2>5, <2>6, <2>9, <2>10
  <2> QED
    BY <2>11 DEF v
<1>6. a \in Messages /\ b \in Messages
  <2>1. Len(Log) \in Nat
    BY <1>2, LogTypes
  <2>2. Len(Last(pages)) \in Nat /\ <<Recreated.made, Len(pages)>> \in PageIds
    <3>1. Len(pages) \in Nat \ {0}
      BY <1>5, EmptySeq
    <3>2. Len(pages) \in 1 .. Len(pages)
      BY <3>1
    <3>3. pages[Len(pages)] \in Seq(Items)
      BY <1>5, <3>2, ElementOfSeq
    <3> QED
      BY <1>3, <3>1, <3>3, LenProperties DEF Last, PageIds
  <2> QED
    BY <1>1, <2>1, <2>2 DEF TheConcat, TheUpdate, Messages
<1>7. /\ store' = [made |-> Recreated.made, pages |-> pages]
      /\ store' \in Stores
      /\ Log' = Log \o job.items
  <2>1. store' = [Recreated EXCEPT !.pages = pages]
    BY DEF DbConcat, PagesAfter, Before
  <2>2. store' = [made |-> Recreated.made, pages |-> pages]
    <3> HIDE DEF pages
    <3> QED
      BY <1>3, <2>1 DEF Stores
  <2> QED
    BY <1>3, <1>5, <2>2 DEF Stores, Log
<1>8. down' = [r \in Replicas |->
                 IF r \in subscribed
                 THEN down[r] \o (IF r = job.from THEN <<b>> ELSE <<a, b>>)
                 ELSE down[r]]
  BY DEF DbConcat, Broadcast, TheConcat, TheUpdate, PagesAfter, Before
<1> HIDE DEF job, pages, a, b
<1>9. ASSUME NEW r \in Replicas
      PROVE  /\ down'[r] \in Seq(Messages)
             /\ down'[r] =
                  IF r \notin subscribed THEN down[r]
                  ELSE IF r = job.from THEN Append(down[r], b)
                  ELSE Append(Append(down[r], a), b)
  <2>1. down[r] \in Seq(Messages)
    BY <1>2
  <2>2. /\ down[r] \o <<a, b>> = Append(Append(down[r], a), b)
        /\ down[r] \o <<b>> = Append(down[r], b)
    BY <1>6, <2>1, TwoAdded
  <2>3. Append(Append(down[r], a), b) \in Seq(Messages) /\ Append(down[r], b) \in Seq(Messages)
    BY <1>6, <2>1, AppendProperties
  <2> QED
    BY <1>8, <2>1, <2>2, <2>3
<1>10. down' \in [Replicas -> Seq(Messages)]
  BY <1>8, <1>9
<1> QED
  BY <1>0, <1>1, <1>5, <1>6, <1>7, <1>9, <1>10 DEF job, pages, a, b

\* A message to one replica.
Tells(r, m) ==
  \A q \in Replicas : down'[q] = IF q = r THEN Append(down[q], m) ELSE down[q]

LEMMA AnswersIs ==
  ASSUME CInv, DbSubscribeAnswers
  PROVE  LET r == Head(queue).from
             m == [kind |-> "subscribed", pages |-> Snapshot(1, Len(store.pages))]
         IN  /\ queue # <<>> /\ phase = "reading" /\ Exists
             /\ Head(queue).kind = "subscribe" /\ r \in Replicas
             /\ m \in Messages /\ Tells(r, m)
             /\ down' \in [Replicas -> Seq(Messages)]
             /\ Done /\ UNCHANGED <<store, subscribed, coll, wants, up, counters>>
<1> DEFINE r == Head(queue).from
           m == [kind |-> "subscribed", pages |-> Snapshot(1, Len(store.pages))]
<1>1. /\ phase = "reading" /\ Head(queue).kind = "subscribe"
      /\ down' = [down EXCEPT ![r] = Append(@, m)]
      /\ Done /\ UNCHANGED <<store, subscribed, coll, wants, up, counters>>
  BY DEF DbSubscribeAnswers, Running
<1>2. queue # <<>> /\ Exists
  BY <1>1 DEF CInv, Control, QueueRuns, ReadsPages
<1>3. r \in Replicas
  BY <1>2, TheJob
<1>4. m \in Messages
  <2>1. Snapshot(1, Len(store.pages)) \in Seq(Pages)
    BY TheTypes, SnapshotAll DEF CInv
  <2> QED
    BY <2>1 DEF Messages
<1> HIDE DEF m, r
<1>5. down \in [Replicas -> Seq(Messages)] /\ Append(down[r], m) \in Seq(Messages)
  <2>1. down \in [Replicas -> Seq(Messages)] /\ down[r] \in Seq(Messages)
    BY <1>3, TheTypes DEF CInv
  <2> QED
    BY <1>4, <2>1, AppendProperties
<1>6. Tells(r, m) /\ down' \in [Replicas -> Seq(Messages)]
  BY <1>1, <1>3, <1>5 DEF Tells
<1> QED
  BY <1>1, <1>2, <1>3, <1>4, <1>6 DEF m, r

LEMMA ReadIs ==
  ASSUME CInv, DbRead
  PROVE  LET job == Head(queue)
             m == [kind |-> "read", pages |-> Snapshot(job.first, job.last)]
         IN  /\ queue # <<>> /\ phase = "opening" /\ reads # 0
             /\ job.kind = "read" /\ job.from \in Replicas
             /\ job.first \in Nat \ {0} /\ job.last \in Nat
             /\ m \in Messages /\ (Exists => Tells(job.from, m))
             /\ ~Exists => down' = down
             /\ down' \in [Replicas -> Seq(Messages)]
             /\ Done /\ UNCHANGED <<store, subscribed, coll, wants, up, counters>>
<1> DEFINE job == Head(queue)
           m == [kind |-> "read", pages |-> Snapshot(job.first, job.last)]
           r == job.from
<1>1. /\ phase = "opening" /\ job.kind = "read"
      /\ down' = IF Exists THEN [down EXCEPT ![r] = Append(@, m)] ELSE down
      /\ Done /\ UNCHANGED <<store, subscribed, coll, wants, up, counters>>
  BY DEF DbRead, Running
<1>2. queue # <<>>
  BY <1>1 DEF CInv, Control, QueueRuns
<1>3. /\ r \in Replicas /\ reads # 0 /\ job.first \in Nat \ {0} /\ job.last \in Nat
  <2>1. job \in Calls /\ Justified(job, reads, deletes)
    BY <1>2, TheJob
  <2> QED
    BY <1>1, <2>1, CallFields DEF Justified
<1>4. m \in Messages
  <2>1. store \in Stores
    BY TheTypes DEF CInv
  <2>2. Snapshot(job.first, job.last) \in Seq(Pages)
    BY <1>3, <2>1, SnapshotIs
  <2> QED
    BY <2>2 DEF Messages
<1> HIDE DEF m, r
<1>5. down \in [Replicas -> Seq(Messages)] /\ Append(down[r], m) \in Seq(Messages)
  <2>1. down \in [Replicas -> Seq(Messages)] /\ down[r] \in Seq(Messages)
    BY <1>3, TheTypes DEF CInv
  <2> QED
    BY <1>4, <2>1, AppendProperties
<1>6. (Exists => Tells(r, m)) /\ down' \in [Replicas -> Seq(Messages)]
  BY <1>1, <1>3, <1>5 DEF Tells
<1> QED
  BY <1>1, <1>2, <1>3, <1>4, <1>6 DEF m, r

\* The deletion is told to the other subscribers.
LEMMA DeleteIs ==
  ASSUME CInv, DbDelete
  PROVE  /\ queue # <<>> /\ phase = "opening" /\ Exists /\ ~Referenced /\ deletes # 0
         /\ Head(queue).kind = "delete"
         /\ store' = [store EXCEPT !.pages = <<>>] /\ store' \in Stores
         /\ subscribed' = {}
         /\ down' \in [Replicas -> Seq(Messages)]
         /\ Done /\ UNCHANGED <<coll, wants, up, counters>>
<1> DEFINE m == [kind |-> "deleted"]
<1>1. /\ phase = "opening" /\ Exists /\ ~Referenced /\ Head(queue).kind = "delete"
      /\ store' = [store EXCEPT !.pages = <<>>]
      /\ subscribed' = {}
      /\ down' = [r \in Replicas |->
                    IF r \in subscribed
                    THEN down[r] \o (IF r = Head(queue).from THEN <<>> ELSE <<m>>)
                    ELSE down[r]]
      /\ Done /\ UNCHANGED <<coll, wants, up, counters>>
  BY DEF DbDelete, Running, Broadcast
<1>2. queue # <<>>
  BY <1>1 DEF CInv, Control, QueueRuns
<1>3. deletes # 0
  BY <1>1, <1>2, TheJob DEF Justified
<1>4. store' \in Stores
  <2> DEFINE none == <<>>
  <2>1. store \in Stores /\ none \in Seq(Seq(Items))
    BY TheTypes, EmptySeq DEF CInv
  <2>2. store' = [store EXCEPT !.pages = none]
    BY <1>1
  <2> HIDE DEF none
  <2> QED
    BY <2>1, <2>2 DEF Stores
<1>5. m \in Messages
  BY DEF Messages
<1> HIDE DEF m
<1>6. ASSUME NEW r \in Replicas
      PROVE  down'[r] \in Seq(Messages)
  <2>1. down[r] \in Seq(Messages)
    BY TheTypes DEF CInv
  <2>2. down[r] \o <<m>> = Append(down[r], m) /\ down[r] \o <<>> = down[r]
    BY <1>5, <2>1, TwoAdded
  <2>3. Append(down[r], m) \in Seq(Messages)
    BY <1>5, <2>1, AppendProperties
  <2> QED
    BY <1>1, <2>1, <2>2, <2>3
<1>7. down' \in [Replicas -> Seq(Messages)]
  BY <1>1, <1>6
<1> QED
  BY <1>1, <1>2, <1>3, <1>4, <1>7

\* Jobs that end with nothing said.
LEMMA SilentIs ==
  ASSUME CInv, DbConcatNothing \/ DbDeleteFails
  PROVE  /\ queue # <<>> /\ phase = "opening"
         /\ Done /\ UNCHANGED <<store, subscribed, coll, wants, up, down, counters>>
         /\ \/ Head(queue).kind = "concat" /\ Head(queue).items = <<>>
            \/ Head(queue).kind = "delete" /\ (~Exists \/ Referenced)
                 /\ deletes # 0
<1>1. /\ phase = "opening"
      /\ Done /\ UNCHANGED <<store, subscribed, coll, wants, up, down, counters>>
      /\ \/ Head(queue).kind = "concat" /\ Head(queue).items = <<>>
         \/ Head(queue).kind = "delete" /\ (~Exists \/ Referenced)
  BY DEF DbConcatNothing, DbDeleteFails, Running
<1>2. queue # <<>>
  BY <1>1 DEF CInv, Control, QueueRuns
<1>3. Head(queue).kind = "delete" => deletes # 0
  BY <1>2, TheJob DEF Justified
<1> QED
  BY <1>1, <1>2, <1>3

LEMMA JobControl ==
  ASSUME CInv, Job
  PROVE  CInv'
<1>0. store \in Stores /\ subscribed \subseteq Replicas
      /\ down \in [Replicas -> Seq(Messages)] /\ (subscribed # {} => Exists)
  BY TheTypes DEF CInv, Control, SubscribersExist
<1>1. CASE DbSubscribeAdds
  BY <1>1, AddsControl
<1>2. CASE DbSubscribeAnswers
  <2>1. /\ queue # <<>> /\ Done /\ down' \in [Replicas -> Seq(Messages)]
        /\ UNCHANGED <<store, subscribed, coll, wants, up, counters>>
    BY <1>2, AnswersIs
  <2>2. Exists' <=> Exists
    BY <2>1 DEF Exists
  <2> QED
    BY <1>0, <2>1, <2>2, DoneControl
<1>3. CASE DbRead
  <2>1. /\ queue # <<>> /\ Done /\ down' \in [Replicas -> Seq(Messages)]
        /\ UNCHANGED <<store, subscribed, coll, wants, up, counters>>
    BY <1>3, ReadIs
  <2>2. Exists' <=> Exists
    BY <2>1 DEF Exists
  <2> QED
    BY <1>0, <2>1, <2>2, DoneControl
<1>4. CASE DbConcatNothing \/ DbDeleteFails
  <2>1. /\ queue # <<>> /\ Done
        /\ UNCHANGED <<store, subscribed, coll, wants, up, down, counters>>
    BY <1>4, SilentIs
  <2>2. Exists' <=> Exists
    BY <2>1 DEF Exists
  <2> QED
    BY <1>0, <2>1, <2>2, DoneControl
<1>5. CASE DbConcat
  <2>1. /\ queue # <<>> /\ Done /\ down' \in [Replicas -> Seq(Messages)]
        /\ store' \in Stores /\ UNCHANGED <<subscribed, coll, wants, up, counters>>
        /\ store' = [made |-> Recreated.made, pages |-> PagesAfter(Head(queue))]
        /\ PagesAfter(Head(queue)) # <<>>
    BY <1>5, ConcatIs
  <2>2. Exists'
    BY <2>1 DEF Exists
  <2> QED
    BY <1>0, <2>1, <2>2, DoneControl
<1>6. CASE DbDelete
  <2>1. /\ queue # <<>> /\ Done /\ down' \in [Replicas -> Seq(Messages)]
        /\ store' \in Stores /\ subscribed' = {} /\ UNCHANGED <<coll, wants, up, counters>>
    BY <1>6, DeleteIs
  <2> QED
    BY <1>0, <2>1, DoneControl
<1> QED
  BY <1>1, <1>2, <1>3, <1>4, <1>5, <1>6 DEF Job

LEMMA InitControl == Init => CInv
<1> SUFFICES ASSUME Init PROVE CInv
  OBVIOUS
<1>1. /\ subscribed = {} /\ queue = <<>> /\ phase = "waiting"
      /\ up = [r \in Replicas |-> <<>>] /\ down = [r \in Replicas |-> <<>>]
      /\ coll = [r \in Replicas |-> None] /\ wants = [r \in Replicas |-> FALSE]
      /\ concats = 0 /\ calls = 0 /\ reads = 0 /\ deletes = 0
  BY DEF Init
<1>2. store \in Stores
  <2> DEFINE one == <<<<>>>>
             none == <<>>
  <2>1. one \in Seq(Seq(Items)) /\ none \in Seq(Seq(Items))
    OBVIOUS
  <2>2. store = [made |-> 0, pages |-> none] \/ store = [made |-> 1, pages |-> one]
    BY DEF Init
  <2> HIDE DEF one, none
  <2> QED
    BY <2>1, <2>2 DEF Stores
<1>3. TypeOK
  <2>1. {MaxConcats, MaxCalls, MaxReads, MaxDeletes} \subseteq Nat
    BY BoundsAssumption
  <2>2. up \in [Replicas -> Seq(Calls)] /\ down \in [Replicas -> Seq(Messages)]
        /\ queue \in Seq(Calls) /\ coll \in [Replicas -> Copies]
    BY <1>1, NoneTypes
  <2> QED
    BY <1>1, <1>2, <2>1, <2>2 DEF TypeOK, Stores, Copies
<1>4. \A r \in Replicas : Sane(up[r], reads, deletes) /\ Sent(r, up[r])
  BY <1>1 DEF Sane, Sent
<1>5. Sane(queue, reads, deletes)
  BY <1>1 DEF Sane
<1> QED
  BY <1>1, <1>3, <1>4, <1>5
     DEF CInv, Control, QueueRuns, ReadsPages, SubscribersExist, CallsAreSane

LEMMA NextControl == CInv /\ [Next]_vars => CInv'
<1> SUFFICES ASSUME CInv, [Next]_vars PROVE CInv'
  OBVIOUS
<1>1. CASE Next
  <2>1. CASE \E r \in Replicas :
               \/ Subscribe(r)
               \/ Unsubscribe(r)
               \/ \E n \in BatchSizes : Concat(r, n)
               \/ \E first, last \in 1 .. MaxConcats + 1 : Read(r, first, last)
               \/ Delete(r)
    BY <2>1, CallsControl
  <2>2. CASE \E r \in Replicas : Handle(r)
    BY <2>2, UnsubscribeControl, EnqueueControl DEF Handle
  <2>3. CASE \E r \in Replicas : Receive(r)
    BY <2>3, ReceiveControl
  <2>4. CASE DbGrant
    BY <2>4, GrantControl
  <2>5. CASE Job
    BY <2>5, JobControl
  <2> QED
    BY <1>1, <2>1, <2>2, <2>3, <2>4, <2>5 DEF Next
<1>2. CASE UNCHANGED vars
  BY <1>2 DEF vars, CInv, TypeOK, Control, QueueRuns, ReadsPages, SubscribersExist,
              CallsAreSane, Exists
<1> QED
  BY <1>1, <1>2

LEMMA InvariantCInv == Spec => []CInv
  BY InitControl, NextControl, PTL DEF Spec

\* Every state has the types the model says: the copies, the pages and the calls
\* and messages on their way, whatever is called and however pages fill.
THEOREM TypeCorrect == Spec => []TypeOK
<1>1. CInv => TypeOK
  BY DEF CInv
<1> QED
  BY <1>1, InvariantCInv, PTL

-----------------------------------------------------------------------------
(* What a subscribed reader will show                                      *)

LogOf(st) == FlattenSeq(st.pages)
Fits(st) == Len(st.pages) <= 1
OnePage(st) == [id |-> <<st.made, 1>>, size |-> Len(LogOf(st)), items |-> LogOf(st)]

\* The copy s is the collection st: whatever its pages if none was read again,
\* and to the page while there is only one.
Shows(s, st) == /\ s.held /\ s.pages # <<>>
                /\ Shown(s) = LogOf(st) /\ s.count = Len(LogOf(st))
Current(s, st, rd) == /\ Fits(st) \/ rd = 0 => Shows(s, st)
                      /\ Fits(st) => s.pages = <<OnePage(st)>>

Answering(r) == queue # <<>> /\ Running("subscribe", "reading")
                  /\ Head(queue).from = r
Follow(r) == ~Answering(r) => Current(Settled(r), store, reads)
FInv == CInv /\ \A r \in subscribed \ Writers : Follow(r)

\* The one page there is.
LEMMA OnePageIs ==
  ASSUME store \in Stores, Exists, Fits(store)
  PROVE  /\ Len(store.pages) = 1 /\ LogOf(store) = store.pages[1]
         /\ ThePage(1) = OnePage(store) /\ ThePage(1) \in Pages
<1>1. Nested(Items, store.pages) /\ Len(store.pages) = 1
  <2>1. /\ Nested(Items, store.pages) /\ Len(store.pages) \in Nat
        /\ Len(store.pages) >= 1
    BY LogTypes
  <2>2. Len(store.pages) <= 1
    BY DEF Fits
  <2> DEFINE n == Len(store.pages)
  <2>3. n \in Nat /\ n >= 1 /\ n <= 1
    BY <2>1, <2>2
  <2> HIDE DEF n
  <2>4. n = 1
    BY <2>3
  <2> QED
    BY <2>1, <2>4 DEF n
<1>2. LogOf(store) = store.pages[1]
  BY <1>1, FlattenOne DEF LogOf
<1>3. ThePage(1) = OnePage(store)
  BY <1>2 DEF ThePage, OnePage
<1>4. Snapshot(1, 1) \in Seq(Pages) /\ Len(Snapshot(1, 1)) = 1
      /\ Snapshot(1, 1)[1] = ThePage(1)
  <2>1. 1 \in 1 .. Len(store.pages)
    BY <1>1
  <2> QED
    BY <1>1, <2>1, SnapshotAll
<1>5. ThePage(1) \in Pages
  <2>1. 1 \in 1 .. Len(Snapshot(1, 1))
    BY <1>4
  <2> QED
    BY <1>4, <2>1, ElementOfSeq
<1> QED
  BY <1>1, <1>2, <1>3, <1>5

LEMMA OneIs ==
  ASSUME NEW S, NEW s \in Seq(S), Len(s) = 1
  PROVE  s = <<s[1]>>
<1>1. s[1] \in S /\ 1 \in 1 .. Len(s)
  BY ElementOfSeq
<1> DEFINE t == <<s[1]>>
<1>2. t \in Seq(S) /\ Len(t) = 1 /\ t[1] = s[1]
  BY <1>1
<1> HIDE DEF t
<1>3. \A i \in 1 .. Len(s) : s[i] = t[i]
  BY <1>2
<1>4. s = t
  BY <1>2, <1>3, SeqEqual
<1> QED
  BY <1>4 DEF t

LEMMA CurrentAnswer ==
  ASSUME store \in Stores, Exists, NEW c, NEW rd, NEW m,
         m = [kind |-> "subscribed", pages |-> Snapshot(1, Len(store.pages))]
  PROVE  Current(Deliver(c, m), store, rd)
<1> DEFINE n == Len(store.pages)
           s == Snapshot(1, n)
<1>1. /\ s \in Seq(Pages) /\ Len(s) = n
      /\ \A i \in 1 .. n : s[i] = ThePage(i)
      /\ ItemsOf(s) = LogOf(store)
  BY SnapshotAll DEF Log, LogOf
<1>2. n \in Nat /\ n >= 1
  BY LogTypes
<1> HIDE DEF s, n
<1>3. m.kind = "subscribed" /\ m.pages = s
  BY DEF s, n
<1>4. Shows(Deliver(c, m), store)
  <2>1. s # <<>>
    BY <1>1, <1>2, EmptySeq
  <2> QED
    BY <1>1, <1>3, <2>1, SubscribedIs DEF Shows
<1>5. ASSUME Fits(store)
      PROVE  Deliver(c, m).pages = <<OnePage(store)>>
  <2>1. n = 1 /\ ThePage(1) = OnePage(store)
    BY <1>5, OnePageIs DEF n
  <2>2. s[1] = OnePage(store) /\ Len(s) = 1
    BY <1>1, <2>1
  <2>3. s = <<OnePage(store)>>
    BY <1>1, <2>2, OneIs
  <2>4. Deliver(c, m).pages = m.pages
    BY <1>1, <1>3, SubscribedIs
  <2> QED
    BY <1>3, <2>3, <2>4
<1> QED
  BY <1>4, <1>5 DEF Current

\* Merging what a read finds into the one page changes nothing.
LEMMA OneMerged ==
  ASSUME store \in Stores, Exists, Fits(store), NEW first \in Nat \ {0}, NEW last \in Nat
  PROVE  /\ Snapshot(first, last) = <<>> \/ Snapshot(first, last) = <<OnePage(store)>>
         /\ MergePages(<<OnePage(store)>>, Snapshot(first, last)) = <<OnePage(store)>>
<1> DEFINE s == Snapshot(first, last)
           k == Smaller(last, Len(store.pages))
           p == OnePage(store)
           one == <<p>>
<1>1. Len(store.pages) = 1 /\ ThePage(1) = p /\ p \in Pages
  BY OnePageIs
<1>2. k \in Nat /\ k <= 1
  BY <1>1 DEF Smaller
<1>3. k = Smaller(last, Len(store.pages))
  OBVIOUS
<1> HIDE DEF k, p
<1>4. /\ s \in Seq(Pages)
      /\ Len(s) = IF first <= k THEN k - first + 1 ELSE 0
      /\ \A i \in 1 .. k - first + 1 : s[i] = ThePage(first + i - 1)
  BY <1>3, SnapshotIs
<1> HIDE DEF s
<1>5. Len(s) = 0 \/ (Len(s) = 1 /\ s[1] = p)
  <2>1. CASE first <= k
    <3>1. first = 1 /\ k = 1 /\ 1 \in 1 .. k - first + 1 /\ first + 1 - 1 = 1
      BY <1>2, <2>1
    <3>2. s[1] = ThePage(first + 1 - 1) /\ Len(s) = 1
      BY <1>4, <2>1, <3>1
    <3> QED
      BY <1>1, <3>1, <3>2
  <2>2. CASE ~(first <= k)
    BY <1>4, <2>2
  <2> QED
    BY <2>1, <2>2
<1>6. s = <<>> \/ s = <<p>>
  BY <1>4, <1>5, OneIs, EmptySeq
<1>7. MergePage(one, p) = one
  <2>1. one \in Seq(Pages) /\ Len(one) = 1 /\ one[1] = p /\ DOMAIN one = {1}
    BY <1>1
  <2> HIDE DEF one
  <2>2. MergePage(one, p) = [i \in {1} |-> IF one[i].id = p.id THEN p ELSE one[i]]
    BY <2>1 DEF MergePage
  <2> DEFINE t == MergePage(one, p)
  <2>3. t = [i \in {1} |-> p]
    BY <2>1, <2>2
  <2>4. t \in Seq(Pages)
    BY <1>1, <2>1, MergePageTypes
  <2>5. DOMAIN t = {1} /\ t[1] = p /\ Len(t) = 1
    BY <2>3, <2>4, LenProperties
  <2> HIDE DEF t
  <2>6. \A i \in 1 .. Len(t) : t[i] = one[i]
    BY <2>1, <2>5
  <2>7. t = one
    BY <2>1, <2>4, <2>5, <2>6, SeqEqual
  <2> QED
    BY <2>7 DEF t
<1>8. MergePages(one, s) \in {one}
  <2>1. Len(s) \in Nat /\ \A i \in 1 .. Len(s) : s[i] = p
    BY <1>5
  <2>2. \A x \in {one} : \A i \in 1 .. Len(s) : MergePage(x, s[i]) \in {one}
    BY <1>7, <2>1
  <2> HIDE DEF one
  <2> QED
    BY <2>1, <2>2, MergesKeep
<1> QED
  BY <1>6, <1>8 DEF s, p

LEMMA CurrentRead ==
  ASSUME store \in Stores, Exists, NEW c \in Copies, NEW rd, rd # 0,
         Current(c, store, rd), NEW first \in Nat \ {0}, NEW last \in Nat,
         NEW m, m = [kind |-> "read", pages |-> Snapshot(first, last)]
  PROVE  Current(Deliver(c, m), store, rd)
<1>1. CASE Fits(store)
  <2> DEFINE s == Snapshot(first, last)
             d == Deliver(c, m)
  <2>1. Shows(c, store) /\ c.pages = <<OnePage(store)>>
    BY <1>1 DEF Current
  <2>2. d = MergeRead(c, s)
    BY DEF Deliver
  <2>3. s \in Seq(Pages)
    BY SnapshotIs
  <2>4. MergePages(c.pages, s) = c.pages
    BY <1>1, <2>1, OneMerged
  <2> HIDE DEF s, d
  <2>5. d.held /\ d.pages = c.pages /\ d.count = c.count
    BY <2>1, <2>2, <2>3, <2>4, MergeReadTypes DEF Shows
  <2>6. Current(d, store, rd)
    BY <2>1, <2>5 DEF Current, Shows, Shown
  <2> QED
    BY <2>6 DEF d
<1>2. CASE ~Fits(store)
  BY <1>2 DEF Current
<1> QED
  BY <1>1, <1>2

\* A broadcast concat and the new size of its page bring a copy up to date.
LEMMA CurrentConcat ==
  ASSUME CInv, DbConcat, Exists, NEW c \in Copies, Current(c, store, reads),
         NEW a, a = TheConcat(Head(queue)),
         NEW b, b = TheUpdate(PagesAfter(Head(queue)))
  PROVE  /\ Current(Deliver(Deliver(c, a), b), store', reads)
         /\ Fits(store') => /\ Fits(store)
                            /\ Len(Deliver(c, a).pages) = 1
                            /\ Deliver(c, a).pages[1].id = <<store'.made, 1>>
                            /\ Shown(Deliver(c, a)) = LogOf(store')
<1> DEFINE items == Head(queue).items
           pages == PagesAfter(Head(queue))
           d == Deliver(c, a)
           e == Deliver(d, b)
           n == Len(store.pages)
<1>1. store \in Stores
  BY TheTypes DEF CInv
<1>2. Recreated = store /\ Before = store.pages
  BY <1>1, RecreatedTypes DEF Before
<1>3. /\ items \in Seq(Items) /\ pages \in Seq(Seq(Items)) /\ pages # <<>>
      /\ a \in Messages /\ b \in Messages
      /\ store' = [made |-> store.made, pages |-> pages]
      /\ FlattenSeq(pages) = Log \o items
  BY <1>2, ConcatIs
<1>4. /\ a.kind = "concat" /\ a.items = items /\ a.start = Len(Log)
      /\ b.kind = "metadata" /\ b.id = <<store.made, Len(pages)>>
      /\ b.size = Len(Last(pages))
  BY <1>2 DEF TheConcat, TheUpdate
<1>5. Log \in Seq(Items) /\ Len(Log) \in Nat /\ n \in Nat /\ n >= 1
      /\ store.pages \in Seq(Seq(Items))
  BY <1>1, LogTypes DEF Nested
<1>6. LogOf(store) = Log /\ LogOf(store') = Log \o items /\ Len(items) \in Nat
      /\ Len(Log \o items) = Len(Log) + Len(items)
  BY <1>3, <1>5, ConcatProperties, LenProperties DEF LogOf, Log
<1>7. pages = IF Len(store.pages[n]) >= PageSize THEN Append(store.pages, items)
              ELSE [store.pages EXCEPT ![n] = @ \o items]
  BY <1>2 DEF PagesAfter
<1>8. b.size \in Nat /\ a.items \in Seq(Items) /\ a.start \in Nat
  BY <1>3, <1>4, MessageFields
<1> HIDE DEF items, pages, n
<1>9. d = Replicate(c, a) /\ e = Resize(d, b.id, b.size)
  BY <1>4 DEF Deliver
<1> HIDE DEF d, e
<1>10. d \in Copies
  BY <1>8, <1>9, ReplicateAdds
<1>11. ASSUME Shows(c, store)
       PROVE  Shows(e, store')
  <2>1. /\ d.held /\ d.pages # <<>> /\ Shown(d) = Log \o items
        /\ d.count = Len(Log) + Len(items)
    <3>1. c.held /\ c.pages # <<>> /\ Shown(c) = Log /\ c.count = Len(Log)
      BY <1>6, <1>11 DEF Shows
    <3>2. a.start <= c.count
      BY <1>4, <1>5, <3>1
    <3> QED
      BY <1>4, <1>8, <1>9, <3>1, <3>2, ReplicateAdds
  <2>2. e.held /\ e.pages # <<>> /\ Shown(e) = Shown(d) /\ e.count = d.count
    BY <1>8, <1>9, <1>10, <2>1, ResizeKeeps
  <2> QED
    BY <1>6, <2>1, <2>2 DEF Shows
<1>12. Fits(store') => Fits(store) /\ n = 1 /\ ~(Len(store.pages[n]) >= PageSize)
                         /\ Len(pages) = 1
  <2>1. CASE Len(store.pages[n]) >= PageSize
    <3>1. Len(pages) = Len(store.pages) + 1
      BY <1>3, <1>5, <1>7, <2>1, AppendProperties
    <3> QED
      BY <1>3, <1>5, <3>1 DEF Fits, n
  <2>2. CASE ~(Len(store.pages[n]) >= PageSize)
    <3>1. n \in 1 .. Len(store.pages) /\ store.pages[n] \in Seq(Items)
      BY <1>5, ElementOfSeq DEF n
    <3> DEFINE w == store.pages[n] \o items
    <3>2. w \in Seq(Items) /\ pages = [store.pages EXCEPT ![n] = w]
      BY <1>3, <1>7, <2>2, <3>1, ConcatProperties
    <3> HIDE DEF w
    <3>3. Len(pages) = n
      BY <1>5, <3>1, <3>2, ExceptSeq DEF n
    <3>4. store'.pages = pages
      BY <1>3
    <3>5. Fits(store') => n <= 1
      BY <3>3, <3>4 DEF Fits
    <3>6. n <= 1 => n = 1
      BY <1>5
    <3>7. n <= 1 => Fits(store)
      BY DEF Fits, n
    <3> QED
      BY <2>2, <3>3, <3>5, <3>6, <3>7
  <2> QED
    BY <2>1, <2>2
<1>13. ASSUME Fits(store')
       PROVE  /\ e.pages = <<OnePage(store')>>
              /\ Len(d.pages) = 1 /\ d.pages[1].id = <<store'.made, 1>>
              /\ Shown(d) = LogOf(store')
  <2> DEFINE p == OnePage(store)
             q == [p EXCEPT !.items = @ \o items]
  <2>1. Fits(store) /\ Shows(c, store) /\ c.pages = <<p>>
    BY <1>12, <1>13 DEF Current
  <2>2. /\ store.pages[1] = Log /\ p \in Pages
        /\ p.id = <<store.made, 1>> /\ p.size = Len(Log) /\ p.items = Log
    BY <1>1, <1>6, <2>1, OnePageIs DEF OnePage
  <2>3. ~(p.size >= PageSize)
    <3>1. n = 1 /\ ~(Len(store.pages[n]) >= PageSize)
      BY <1>12, <1>13
    <3>2. ~(Len(store.pages[1]) >= PageSize)
      BY <3>1
    <3>3. ~(Len(Log) >= PageSize)
      BY <2>2, <3>2
    <3> QED
      BY <2>2, <3>3
  <2> HIDE DEF p
  <2>4. c.held /\ c.pages # <<>> /\ Len(c.pages) = 1 /\ c.pages[1] = p
        /\ c.pages \in Seq(Pages)
    BY <2>1, <2>2 DEF Shows, Copies
  <2>5. /\ Len(d.pages) = 1 /\ d.pages \in Seq(Pages)
        /\ d.pages[1].id = p.id /\ d.pages[1].items = Log \o items
    <3>1. CASE items = <<>>
      <4>1. ConcatTo(c, items) = c
        BY <3>1 DEF ConcatTo
      <4>2. d.pages = c.pages
        BY <1>4, <1>8, <1>9, <2>4, <4>1, ReplicateAdds
      <4>3. Log \o items = Log
        BY <1>5, <3>1, ConcatEmptySeq
      <4> QED
        BY <2>2, <2>4, <4>2, <4>3
    <3>2. CASE items # <<>>
      <4> DEFINE k == 1
      <4>1. k = Len(c.pages) /\ c.pages[k] = p
        BY <2>4
      <4> HIDE DEF k
      <4>2. ~(c.pages[k].size >= PageSize)
        BY <2>3, <4>1
      <4>3. /\ ConcatTo(c, items).pages \in Seq(Pages)
            /\ Len(ConcatTo(c, items).pages) = k
            /\ ConcatTo(c, items).pages[k].id = c.pages[k].id
            /\ ConcatTo(c, items).pages[k].items = c.pages[k].items \o items
        BY <1>3, <2>4, <3>2, <4>1, <4>2, ConcatFits
      <4>4. d.pages = ConcatTo(c, items).pages
        BY <1>4, <1>8, <1>9, <2>4, ReplicateAdds
      <4>5. /\ Len(d.pages) = k /\ d.pages \in Seq(Pages)
            /\ d.pages[k].id = p.id /\ d.pages[k].items = Log \o items
        BY <2>2, <4>1, <4>3, <4>4
      <4> QED
        BY <4>5 DEF k
    <3> QED
      BY <3>1, <3>2
  <2>6. b.id = p.id /\ b.size = Len(Log \o items)
    <3>1. Len(pages) = 1
      BY <1>12, <1>13
    <3>2. pages[1] = Log \o items
      <4>1. Nested(Items, pages)
        BY <1>3 DEF Nested
      <4> QED
        BY <1>3, <3>1, <4>1, FlattenOne
    <3>3. Last(pages) = pages[1]
      BY <3>1 DEF Last
    <3> QED
      BY <1>4, <2>2, <3>1, <3>2, <3>3
  <2>7. /\ Len(e.pages) = 1 /\ e.pages \in Seq(Pages)
        /\ e.pages[1] = [d.pages[1] EXCEPT !.size = b.size]
    <3>1. /\ e \in Copies /\ Len(e.pages) = Len(d.pages)
          /\ \A i \in 1 .. Len(d.pages) :
               e.pages[i] = IF d.pages[i].id = b.id
                            THEN [d.pages[i] EXCEPT !.size = b.size]
                            ELSE d.pages[i]
      BY <1>8, <1>9, <1>10, ResizeKeeps
    <3>2. 1 \in 1 .. Len(d.pages)
      BY <2>5
    <3> QED
      BY <2>5, <2>6, <3>1, <3>2 DEF Copies
  <2>8. e.pages[1] = OnePage(store')
    <3>1. d.pages[1] \in Pages
      <4>1. 1 \in 1 .. Len(d.pages)
        BY <2>5
      <4> QED
        BY <2>5, <4>1, ElementOfSeq
    <3>2. e.pages[1] = [id |-> p.id, size |-> b.size, items |-> Log \o items]
      <4> DEFINE x == d.pages[1]
      <4>1. x \in Pages /\ x.id = p.id /\ x.items = Log \o items
            /\ e.pages[1] = [x EXCEPT !.size = b.size]
        BY <2>5, <2>7, <3>1
      <4> HIDE DEF x
      <4>2. e.pages[1] = [id |-> x.id, size |-> b.size, items |-> x.items]
        <5> DEFINE k == b.size
        <5>1. x \in Pages /\ e.pages[1] = [x EXCEPT !.size = k]
          BY <4>1
        <5> HIDE DEF k
        <5>2. [x EXCEPT !.size = k] = [id |-> x.id, size |-> k, items |-> x.items]
          BY <5>1 DEF Pages
        <5> QED
          BY <5>1, <5>2 DEF k
      <4> QED
        BY <4>1, <4>2
    <3>3. store'.made = store.made
      BY <1>3
    <3> QED
      BY <1>6, <2>2, <2>6, <3>2, <3>3 DEF OnePage
  <2>9. d.pages[1].id = <<store'.made, 1>>
    BY <1>3, <2>2, <2>5
  <2>10. Shown(d) = LogOf(store')
    <3>1. Nested(Items, PartsOf(d.pages)) /\ Len(PartsOf(d.pages)) = 1
          /\ PartsOf(d.pages)[1] = d.pages[1].items
      <4>1. 1 \in 1 .. Len(d.pages)
        BY <2>5
      <4> QED
        BY <2>5, <4>1, PartsNested
    <3>2. FlattenSeq(PartsOf(d.pages)) = d.pages[1].items
      BY <3>1, FlattenOne
    <3> QED
      BY <1>6, <2>5, <3>2 DEF Shown, ItemsOf, PartsOf
  <2>11. e.pages = <<OnePage(store')>>
    BY <2>7, <2>8, OneIs
  <2> QED
    BY <2>5, <2>9, <2>10, <2>11
<1>14. Fits(store') \/ reads = 0 => Shows(e, store')
  BY <1>11, <1>12 DEF Current
<1>15. Current(e, store', reads)
  BY <1>13, <1>14 DEF Current
<1>16. Fits(store') => Fits(store)
  BY <1>12
<1> QED
  BY <1>13, <1>15, <1>16 DEF d, e

LEMMA CourseTypes ==
  ASSUME NEW c \in Copies, NEW d \in Seq(Messages)
  PROVE  \A n \in 0 .. Len(d) : Course(c, d)[n] \in Copies
<1> DEFINE h == Course(c, d)
           I == {n \in Nat : n \in 0 .. Len(d) => h[n] \in Copies}
<1>1. /\ Len(d) \in Nat /\ h[0] = c
      /\ \A n \in 0 .. Len(d) - 1 : h[n + 1] = Deliver(h[n], d[n + 1])
      /\ \A n \in 1 .. Len(d) : d[n] \in Messages
  BY CourseSteps, LenProperties, ElementOfSeq
<1> HIDE DEF h
<1>2. 0 \in I
  BY <1>1
<1>3. ASSUME NEW n \in Nat, n \in I
      PROVE  n + 1 \in I
  <2>1. CASE n + 1 \in 0 .. Len(d)
    <3>1. n \in 0 .. Len(d) - 1 /\ n \in 0 .. Len(d) /\ n + 1 \in 1 .. Len(d)
      BY <1>1, <2>1
    <3>2. h[n] \in Copies /\ d[n + 1] \in Messages
          /\ h[n + 1] = Deliver(h[n], d[n + 1])
      BY <1>1, <1>3, <3>1
    <3>3. h[n + 1] \in Copies
      BY <3>2, DeliverTypes
    <3> QED
      BY <3>3
  <2> QED
    BY <2>1
<1> HIDE DEF I
<1>4. Nat \subseteq I
  BY <1>2, <1>3, NatsIn
<1> QED
  BY <1>1, <1>4 DEF I, h

LEMMA SettledTypes ==
  ASSUME CInv, NEW r \in Replicas
  PROVE  Settled(r) \in Copies
<1>1. coll[r] \in Copies /\ down[r] \in Seq(Messages) /\ Len(down[r]) \in Nat
  BY TheTypes DEF CInv
<1>2. Len(down[r]) \in 0 .. Len(down[r])
  BY <1>1
<1> QED
  BY <1>1, <1>2, CourseTypes DEF Settled

\* What changes the settled copy, and what does not.
LEMMA SettledKept ==
  ASSUME NEW r, coll'[r] = coll[r], down'[r] = down[r]
  PROVE  Settled(r)' = Settled(r)
  BY DEF Settled

LEMMA SettledAppend ==
  ASSUME CInv, NEW r \in Replicas, coll'[r] = coll[r], NEW m \in Messages,
         down'[r] = Append(down[r], m)
  PROVE  Settled(r)' = Deliver(Settled(r), m)
<1> DEFINE c == coll[r]
           d == down[r]
           e == Append(d, m)
<1>1. d \in Seq(Messages)
  BY TheTypes DEF CInv
<1>2. Course(c, e)[Len(d) + 1] = Deliver(Course(c, d)[Len(d)], m)
      /\ Len(e) = Len(d) + 1
  BY <1>1, CourseAppend, AppendProperties
<1>3. Settled(r)' = Course(c, e)[Len(e)]
  BY DEF Settled
<1> QED
  BY <1>2, <1>3 DEF Settled

LEMMA SettledReceive ==
  ASSUME CInv, NEW r \in Replicas, Receive(r)
  PROVE  Settled(r)' = Settled(r)
<1> DEFINE c == coll[r]
           d == down[r]
           k == Len(d) - 1
<1>1. d \in Seq(Messages) /\ d # <<>> /\ coll'[r] = Deliver(c, Head(d))
      /\ down'[r] = Tail(d)
  <2>1. coll \in [Replicas -> Copies] /\ down \in [Replicas -> Seq(Messages)]
    BY TheTypes DEF CInv
  <2> QED
    BY <2>1 DEF Receive
<1>2. Len(Tail(d)) = k /\ k \in 0 .. Len(d) - 1 /\ k + 1 = Len(d)
  <2>1. Len(d) \in Nat /\ Len(d) >= 1 /\ Len(Tail(d)) = k
    BY <1>1, Taken, LenProperties
  <2> QED
    BY <2>1
<1>3. Course(Deliver(c, Head(d)), Tail(d))[k] = Course(c, d)[k + 1]
  BY <1>1, <1>2, CourseTail
<1>4. Settled(r)' = Course(Deliver(c, Head(d)), Tail(d))[k]
  <2> HIDE DEF k, d
  <2> QED
    BY <1>1, <1>2 DEF Settled
<1> QED
  BY <1>2, <1>3, <1>4 DEF Settled

LEMMA CurrentMore ==
  ASSUME NEW s, NEW st, NEW rd, NEW re, re = 0 => rd = 0, Current(s, st, rd)
  PROVE  Current(s, st, re)
  BY DEF Current

\* Whoever is subscribed is a replica, and the collection is there.
LEMMA SubscriberFacts ==
  ASSUME CInv, NEW r \in subscribed
  PROVE  r \in Replicas /\ Exists /\ store \in Stores
  BY TheTypes DEF CInv, Control, SubscribersExist

Readers == subscribed \ Writers

\* A step that leaves the copy, what is on its way and the store as they are.
LEMMA FollowKept ==
  ASSUME NEW r, Follow(r), Answering(r) => Answering(r)', store' = store,
         coll'[r] = coll[r], down'[r] = down[r], reads' = 0 => reads = 0
  PROVE  Follow(r)'
<1>1. Settled(r)' = Settled(r)
  BY SettledKept
<1> QED
  BY <1>1, CurrentMore DEF Follow

LEMMA CallsFollow ==
  ASSUME FInv, NEW q \in Replicas,
         \/ Subscribe(q)
         \/ Unsubscribe(q)
         \/ \E n \in BatchSizes : Concat(q, n)
         \/ \E first, last \in 1 .. MaxConcats + 1 : Read(q, first, last)
         \/ Delete(q),
         NEW r \in Readers'
  PROVE  Follow(r)'
<1>1. coll \in [Replicas -> Copies] /\ reads \in Nat /\ subscribed \subseteq Replicas
  <2>1. TypeOK
    BY DEF FInv, CInv
  <2>2. reads \in 0 .. MaxReads /\ MaxReads \in Nat
    BY <2>1, BoundsAssumption DEF TypeOK
  <2> QED
    BY <2>1, <2>2, TheTypes
<1>2. UNCHANGED <<dbVars, down>>
  BY DEF Subscribe, Unsubscribe, Concat, Read, Delete
<1>3. r \in Readers /\ r \in Replicas
  BY <1>1, <1>2 DEF Readers, dbVars
<1>4. reads' = 0 => reads = 0
  <2>1. reads' = reads \/ reads' = reads + 1
    BY DEF Subscribe, Unsubscribe, Concat, Read, Delete
  <2> QED
    BY <1>1, <2>1
<1>5. coll'[r] = coll[r]
  BY <1>1, <1>3 DEF Subscribe, Unsubscribe, Concat, Read, Delete, Readers
<1>6. Answering(r)' <=> Answering(r)
  BY <1>2 DEF Answering, Running, dbVars
<1>7. Follow(r)
  BY <1>3 DEF FInv, Readers
<1> QED
  BY <1>2, <1>4, <1>5, <1>6, <1>7, FollowKept DEF dbVars

LEMMA ReceiveFollow ==
  ASSUME FInv, NEW q \in Replicas, Receive(q), NEW r \in Readers'
  PROVE  Follow(r)'
<1>1. /\ UNCHANGED <<dbVars, wants, up, counters>>
      /\ \A p \in Replicas : p # q => coll'[p] = coll[p] /\ down'[p] = down[p]
  <2>1. coll \in [Replicas -> Copies] /\ down \in [Replicas -> Seq(Messages)]
    BY TheTypes DEF FInv, CInv
  <2> QED
    BY <2>1 DEF Receive
<1>2. r \in Readers /\ r \in Replicas /\ Follow(r)
  BY <1>1, SubscriberFacts DEF Readers, dbVars, FInv
<1>3. Settled(r)' = Settled(r)
  <2>1. CASE r = q
    BY <2>1, SettledReceive DEF FInv
  <2>2. CASE r # q
    BY <1>1, <1>2, <2>2, SettledKept
  <2> QED
    BY <2>1, <2>2
<1>4. Answering(r)' <=> Answering(r)
  BY <1>1 DEF Answering, Running, dbVars
<1>5. store' = store /\ reads' = reads
  BY <1>1 DEF dbVars, counters
<1> QED
  BY <1>2, <1>3, <1>4, <1>5 DEF Follow

LEMMA HandleFollow ==
  ASSUME FInv, NEW q \in Replicas, Handle(q) \/ DbGrant, NEW r \in Readers'
  PROVE  Follow(r)'
<1>0. queue \in Seq(Calls) /\ down \in [Replicas -> Seq(Messages)] /\ subscribed \subseteq Replicas
  BY TheTypes DEF FInv, CInv
<1>1. UNCHANGED <<store, coll, counters>> /\ subscribed' \subseteq subscribed
  BY DEF Handle, DbUnsubscribe, DbEnqueue, DbGrant
<1>2. r \in Readers /\ r \in Replicas /\ Follow(r)
  BY <1>1, SubscriberFacts DEF Readers, FInv
<1>3. down'[r] = down[r]
  <2>1. CASE DbUnsubscribe(q)
    <3>1. r # q
      BY <2>1 DEF DbUnsubscribe, Readers
    <3> QED
      BY <1>0, <1>2, <2>1, <3>1 DEF DbUnsubscribe
  <2>2. CASE DbEnqueue(q) \/ DbGrant
    BY <2>2 DEF DbEnqueue, DbGrant
  <2> QED
    BY <2>1, <2>2 DEF Handle
<1>4. Answering(r) => Answering(r)'
  <2>1. CASE DbUnsubscribe(q)
    BY <2>1 DEF DbUnsubscribe, Answering, Running
  <2>2. CASE DbEnqueue(q)
    <3>1. ASSUME queue # <<>>
          PROVE  Head(queue') = Head(queue) /\ queue' # <<>>
      <4>1. queue' = Append(queue, Head(up[q])) /\ Head(up[q]) \in Calls
        BY <2>2, ArrivesTakes DEF DbEnqueue, FInv
      <4> QED
        BY <1>0, <3>1, <4>1, HeadTailAppend, AppendProperties
    <3>2. phase' = phase
      BY <2>2 DEF DbEnqueue
    <3> QED
      BY <3>1, <3>2 DEF Answering, Running
  <2>3. CASE DbGrant
    BY <2>3 DEF DbGrant, Answering, Running
  <2> QED
    BY <2>1, <2>2, <2>3 DEF Handle
<1> QED
  BY <1>1, <1>2, <1>3, <1>4, FollowKept DEF counters

\* One replica is told something, the others nothing.
LEMMA JobFollow ==
  ASSUME FInv, Job, NEW r \in Readers'
  PROVE  Follow(r)'
<1>c. CInv
  BY DEF FInv
<1>1. CASE DbSubscribeAdds
  <2>1. /\ phase = "opening" /\ Head(queue).kind = "subscribe"
        /\ store' = Recreated /\ subscribed' = subscribed \cup {Head(queue).from}
        /\ phase' = "reading" /\ UNCHANGED <<queue, coll, wants, up, down, counters>>
    BY <1>1 DEF DbSubscribeAdds, Running
  <2>2. queue # <<>>
    BY <1>c, <2>1 DEF CInv, Control, QueueRuns
  <2>3. CASE r = Head(queue).from
    <3>1. Answering(r)'
      BY <2>1, <2>2, <2>3 DEF Answering, Running
    <3> QED
      BY <3>1 DEF Follow
  <2>4. CASE r # Head(queue).from
    <3>1. r \in Readers /\ Follow(r)
      BY <2>1, <2>4 DEF Readers, FInv
    <3>2. store' = store
      BY <1>c, <2>1, <3>1, SubscriberFacts, RecreatedTypes DEF Readers
    <3>3. ~Answering(r)
      BY <2>1 DEF Answering, Running
    <3> QED
      BY <2>1, <3>1, <3>2, <3>3, FollowKept DEF counters
  <2> QED
    BY <2>3, <2>4
<1>2. CASE DbSubscribeAnswers
  <2> DEFINE q == Head(queue).from
             m == [kind |-> "subscribed", pages |-> Snapshot(1, Len(store.pages))]
  <2>1. /\ Exists /\ q \in Replicas /\ m \in Messages /\ Tells(q, m)
        /\ UNCHANGED <<store, subscribed, coll, wants, up, counters>>
    BY <1>2, <1>c, AnswersIs
  <2>2. r \in Readers /\ r \in Replicas /\ store \in Stores /\ Follow(r)
    BY <1>c, <2>1, SubscriberFacts DEF Readers, FInv
  <2> DEFINE s == Settled(r)
  <2> HIDE DEF q
  <2>3. CASE r = q
    <3> HIDE DEF m
    <3>1. Settled(r)' = Deliver(s, m)
      BY <1>c, <2>1, <2>2, <2>3, SettledAppend DEF Tells
    <3>2. m = [kind |-> "subscribed", pages |-> Snapshot(1, Len(store.pages))]
      BY DEF m
    <3>3. Current(Deliver(s, m), store, reads)
      BY <2>1, <2>2, <3>2, CurrentAnswer
    <3> QED
      BY <2>1, <3>1, <3>3 DEF Follow, counters
  <2>4. CASE r # q
    <3>1. down'[r] = down[r] /\ coll'[r] = coll[r] /\ store' = store /\ reads' = reads
      BY <2>1, <2>2, <2>4 DEF Tells, counters
    <3>2. ~Answering(r)
      BY <2>4 DEF Answering, q
    <3> QED
      BY <2>2, <3>1, <3>2, FollowKept
  <2> QED
    BY <2>3, <2>4
<1>3. CASE DbRead
  <2> DEFINE job == Head(queue)
             m == [kind |-> "read", pages |-> Snapshot(job.first, job.last)]
  <2>1. /\ phase = "opening" /\ reads # 0 /\ job.from \in Replicas
        /\ job.first \in Nat \ {0} /\ job.last \in Nat
        /\ m \in Messages /\ (Exists => Tells(job.from, m))
        /\ UNCHANGED <<store, subscribed, coll, wants, up, counters>>
    BY <1>3, <1>c, ReadIs
  <2>2. r \in Readers /\ r \in Replicas /\ Exists /\ store \in Stores /\ Follow(r)
    BY <1>c, <2>1, SubscriberFacts DEF Readers, FInv
  <2>3. ~Answering(r)
    BY <2>1 DEF Answering, Running
  <2> DEFINE s == Settled(r)
  <2> HIDE DEF job
  <2>4. CASE r = job.from
    <3> HIDE DEF m
    <3>1. Settled(r)' = Deliver(s, m)
      BY <1>c, <2>1, <2>2, <2>4, SettledAppend DEF Tells
    <3>2. m = [kind |-> "read", pages |-> Snapshot(job.first, job.last)]
      BY DEF m
    <3>3. s \in Copies /\ Current(s, store, reads)
      BY <1>c, <2>2, <2>3, SettledTypes DEF Follow
    <3> HIDE DEF s
    <3>4. Current(Deliver(s, m), store, reads)
      BY <2>1, <2>2, <3>2, <3>3, CurrentRead
    <3> QED
      BY <2>1, <3>1, <3>4 DEF Follow, counters
  <2>5. CASE r # job.from
    <3>1. down'[r] = down[r] /\ coll'[r] = coll[r] /\ store' = store /\ reads' = reads
      BY <2>1, <2>2, <2>5 DEF Tells, counters
    <3> QED
      BY <2>2, <2>3, <3>1, FollowKept
  <2> QED
    BY <2>4, <2>5
<1>4. CASE DbConcatNothing \/ DbDeleteFails
  <2>1. /\ phase = "opening"
        /\ UNCHANGED <<store, subscribed, coll, wants, up, down, counters>>
    BY <1>4, <1>c, SilentIs
  <2>2. r \in Readers /\ Follow(r) /\ ~Answering(r)
    BY <2>1 DEF Readers, FInv, Answering, Running
  <2> QED
    BY <2>1, <2>2, FollowKept DEF counters
<1>5. CASE DbConcat
  <2> DEFINE job == Head(queue)
             a == TheConcat(job)
             b == TheUpdate(PagesAfter(job))
             s == Settled(r)
  <2>1. /\ phase = "opening" /\ job.from \in Writers
        /\ a \in Messages /\ b \in Messages
        /\ UNCHANGED <<subscribed, coll, wants, up, counters>>
        /\ \A q \in Replicas :
             down'[q] = IF q \notin subscribed THEN down[q]
                        ELSE IF q = job.from THEN Append(down[q], b)
                        ELSE Append(Append(down[q], a), b)
    BY <1>5, <1>c, ConcatIs
  <2>2. r \in Readers /\ r \in Replicas /\ Exists /\ Follow(r)
    BY <1>c, <2>1, SubscriberFacts DEF Readers, FInv
  <2>3. s \in Copies /\ Current(s, store, reads)
    <3>1. ~Answering(r)
      BY <2>1 DEF Answering, Running
    <3> QED
      BY <1>c, <2>2, <3>1, SettledTypes DEF Follow
  <2>a. a = TheConcat(Head(queue)) /\ b = TheUpdate(PagesAfter(Head(queue)))
    OBVIOUS
  <2> HIDE DEF a, b
  <2>4. Settled(r)' = Deliver(Deliver(s, a), b)
    <3> DEFINE c == coll[r]
               d == down[r]
               e == Append(d, a)
               f == Append(e, b)
    <3>1. down'[r] = f /\ coll'[r] = c
      BY <2>1, <2>2 DEF Readers
    <3>2. d \in Seq(Messages) /\ e \in Seq(Messages) /\ Len(e) = Len(d) + 1
          /\ Len(f) = Len(e) + 1
      <4>1. d \in Seq(Messages)
        BY <1>c, <2>2, TheTypes DEF CInv
      <4> QED
        BY <2>1, <4>1, AppendProperties
    <3>3. Course(c, e)[Len(d) + 1] = Deliver(Course(c, d)[Len(d)], a)
      BY <2>1, <3>2, CourseAppend
    <3> HIDE DEF e
    <3>6. e \in Seq(Messages) /\ b \in Messages
      BY <2>1, <3>2
    <3>4. Course(c, f)[Len(e) + 1] = Deliver(Course(c, e)[Len(e)], b)
      BY <3>6, CourseAppend
    <3> HIDE DEF f
    <3>5. Settled(r)' = Course(c, f)[Len(f)]
      BY <3>1 DEF Settled
    <3> QED
      BY <3>2, <3>3, <3>4, <3>5 DEF Settled
  <2> HIDE DEF s, job
  <2>5. Current(Deliver(Deliver(s, a), b), store', reads)
    BY <1>5, <1>c, <2>2, <2>3, <2>a, CurrentConcat
  <2> QED
    BY <2>1, <2>4, <2>5 DEF Follow, counters
<1>6. CASE DbDelete
  BY <1>6, <1>c, DeleteIs DEF Readers
<1> QED
  BY <1>1, <1>2, <1>3, <1>4, <1>5, <1>6 DEF Job

LEMMA NextFollow == FInv /\ [Next]_vars => FInv'
<1> SUFFICES ASSUME FInv, [Next]_vars PROVE FInv'
  OBVIOUS
<1>1. CInv'
  BY NextControl DEF FInv
<1>2. ASSUME NEW r \in Readers'
      PROVE  Follow(r)'
  <2>1. CASE Next
    <3>1. CASE \E q \in Replicas :
                 \/ Subscribe(q)
                 \/ Unsubscribe(q)
                 \/ \E n \in BatchSizes : Concat(q, n)
                 \/ \E first, last \in 1 .. MaxConcats + 1 : Read(q, first, last)
                 \/ Delete(q)
      BY <3>1, CallsFollow
    <3>2. CASE \E q \in Replicas : Handle(q)
      BY <3>2, HandleFollow
    <3>3. CASE \E q \in Replicas : Receive(q)
      BY <3>3, ReceiveFollow
    <3>4. CASE DbGrant
      <4>1. r \in Replicas
        BY <1>1, TheTypes DEF Readers, CInv, TypeOK
      <4> QED
        BY <3>4, <4>1, HandleFollow
    <3>5. CASE Job
      BY <3>5, JobFollow
    <3> QED
      BY <2>1, <3>1, <3>2, <3>3, <3>4, <3>5 DEF Next
  <2>2. CASE UNCHANGED vars
    <3>1. r \in Readers /\ Follow(r)
      BY <2>2 DEF vars, Readers, FInv
    <3>2. Answering(r)' <=> Answering(r)
      BY <2>2 DEF vars, Answering, Running
    <3> QED
      BY <2>2, <3>1, <3>2, FollowKept DEF vars
  <2> QED
    BY <2>1, <2>2
<1> QED
  BY <1>1, <1>2 DEF FInv, Readers

LEMMA InvariantFInv == Spec => []FInv
<1>1. Init => FInv
  BY InitControl DEF Init, FInv
<1> QED
  BY <1>1, NextFollow, PTL DEF Spec

\* A subscribed replica that does not write will show exactly the database's
\* items, in its order, with the right totalCount: a concat that overlaps the
\* subscribe is either in the pages of its answer or broadcast after it, and so
\* is one that overlaps a second subscribe, a read or an unsubscribe.
THEOREM ReplicasFollow == Spec => []SubscribersFollow
<1>1. FInv => SubscribersFollow
  <2> SUFFICES ASSUME FInv, NEW r \in subscribed \ Writers, ~Answering(r),
                      PagesFit \/ reads = 0
               PROVE  /\ Settled(r).held /\ Shown(Settled(r)) = Log
                      /\ Settled(r).count = Len(Log)
    BY DEF SubscribersFollow, Answering
  <2>1. Current(Settled(r), store, reads)
    BY DEF FInv, Follow
  <2>2. Fits(store) \/ reads = 0
    BY DEF PagesFit, Fits
  <2> QED
    BY <2>1, <2>2 DEF Current, Shows, LogOf, Log
<1> QED
  BY <1>1, InvariantFInv, PTL

-----------------------------------------------------------------------------
(* What a reader shows is a beginning of the log                           *)

\* s is a beginning of t.
Begins(s, t) == Len(s) <= Len(t) /\ \A i \in 1 .. Len(s) : s[i] = t[i]

LEMMA BeginsPrefix ==
  ASSUME NEW E, NEW s \in Seq(E), NEW t \in Seq(E), Begins(s, t)
  PROVE  IsPrefix(s, t)
<1> DEFINE n == Len(s)
           one == 1
<1>1. /\ n \in Nat /\ n <= Len(t) /\ Len(t) \in Nat
      /\ \A i \in 1 .. n : s[i] = t[i] /\ s[i] \in E /\ t[i] \in E
  <2>1. n \in Nat /\ n <= Len(t) /\ Len(t) \in Nat
    BY LenProperties DEF Begins
  <2>2. \A i \in 1 .. n : s[i] = t[i] /\ s[i] \in E
    BY ElementOfSeq DEF Begins
  <2> QED
    BY <2>1, <2>2
<1>2. one = 1 /\ one \in Int /\ n \in Int
  BY <1>1
<1> HIDE DEF n, one
<1>3. /\ SubSeq(s, one, n) \in Seq(E)
      /\ Len(SubSeq(s, one, n)) = IF one <= n THEN n - one + 1 ELSE 0
      /\ \A i \in 1 .. n - one + 1 : SubSeq(s, one, n)[i] = s[one + i - 1]
  <2>1. \A i \in one .. n : s[i] \in E
    BY <1>1, <1>2
  <2> QED
    BY <1>2, <2>1, SubSeqProperties
<1>4. /\ SubSeq(t, one, n) \in Seq(E)
      /\ Len(SubSeq(t, one, n)) = IF one <= n THEN n - one + 1 ELSE 0
      /\ \A i \in 1 .. n - one + 1 : SubSeq(t, one, n)[i] = t[one + i - 1]
  <2>1. \A i \in one .. n : t[i] \in E
    BY <1>1, <1>2
  <2> QED
    BY <1>2, <2>1, SubSeqProperties
<1> DEFINE u == SubSeq(s, one, n)
           v == SubSeq(t, one, n)
<1>5. ASSUME NEW i \in 1 .. Len(u)
      PROVE  u[i] = v[i]
  <2>1. i \in 1 .. n - one + 1 /\ one + i - 1 = i /\ i \in 1 .. n
    BY <1>1, <1>2, <1>3
  <2>2. u[i] = s[i] /\ v[i] = t[i]
    BY <1>3, <1>4, <2>1
  <2> QED
    BY <1>1, <2>1, <2>2
<1>6. Len(u) = Len(v)
  BY <1>3, <1>4
<1>7. u = v
  <2> HIDE DEF u, v
  <2>1. u \in Seq(E) /\ v \in Seq(E)
    BY <1>3, <1>4 DEF u, v
  <2> QED
    BY <1>5, <1>6, <2>1, SeqEqual
<1> QED
  BY <1>1, <1>2, <1>7 DEF IsPrefix, n

LEMMA BeginsFacts ==
  ASSUME NEW E, NEW s \in Seq(E), NEW t \in Seq(E), NEW v \in Seq(E)
  PROVE  /\ Begins(s, s)
         /\ Begins(<<>>, s)
         /\ Begins(s, t) => Begins(s, t \o v)
<1>1. Len(s) \in Nat /\ Len(t) \in Nat /\ Len(v) \in Nat /\ Len(<<>>) = 0
  BY LenProperties, EmptySeq
<1>2. /\ Len(t \o v) = Len(t) + Len(v)
      /\ \A i \in 1 .. Len(t) : (t \o v)[i] = t[i]
  <2>1. /\ Len(t \o v) = Len(t) + Len(v)
        /\ \A i \in 1 .. Len(t) + Len(v) :
             (t \o v)[i] = IF i <= Len(t) THEN t[i] ELSE v[i - Len(t)]
    BY ConcatProperties
  <2>2. \A i \in 1 .. Len(t) : i \in 1 .. Len(t) + Len(v) /\ i <= Len(t)
    BY <1>1
  <2> QED
    BY <2>1, <2>2
<1>3. Begins(s, s)
  BY <1>1 DEF Begins
<1>4. Begins(<<>>, s)
  BY <1>1 DEF Begins
<1>5. ASSUME Begins(s, t)
      PROVE  Begins(s, t \o v)
  <2>1. Len(s) <= Len(t \o v)
    BY <1>1, <1>2, <1>5 DEF Begins
  <2>2. \A i \in 1 .. Len(s) : i \in 1 .. Len(t)
    BY <1>1, <1>5 DEF Begins
  <2> QED
    BY <1>2, <1>5, <2>1, <2>2 DEF Begins
<1> QED
  BY <1>3, <1>4, <1>5

\* A copy with at most the page of the collection st, and a beginning of it.
Near(c, st) == /\ c \in Copies /\ Len(c.pages) <= 1
               /\ c.pages # <<>> => st.pages # <<>> /\ c.pages[1].id = <<st.made, 1>>
               /\ Begins(Shown(c), LogOf(st))
Grows(c, d) == c.held /\ d.held => Begins(Shown(c), Shown(d))
Smooth(g, n, st) == /\ \A i \in 0 .. n : Near(g[i], st)
                    /\ \A i \in 0 .. n - 1 : Grows(g[i], g[i + 1])

\* tt is the collection st, created if it was not there, with v at its end.
Further(st, tt, v) == /\ LogOf(st) \in Seq(Items) /\ v \in Seq(Items)
                      /\ LogOf(tt) = LogOf(st) \o v
                      /\ st.pages # <<>> => tt.pages # <<>> /\ tt.made = st.made

LEMMA ShownTypes ==
  ASSUME NEW c \in Copies
  PROVE  Shown(c) \in Seq(Items)
  BY ItemsOfTypes DEF Copies, Shown

LEMMA NearFurther ==
  ASSUME NEW c, NEW st, NEW tt, NEW v, Near(c, st), Further(st, tt, v)
  PROVE  Near(c, tt)
<1>1. Begins(Shown(c), LogOf(tt))
  <2>1. Shown(c) \in Seq(Items) /\ LogOf(st) \in Seq(Items) /\ v \in Seq(Items)
        /\ Begins(Shown(c), LogOf(st))
    BY ShownTypes DEF Near, Further
  <2>2. Begins(Shown(c), LogOf(st) \o v)
    BY <2>1, BeginsFacts
  <2> QED
    BY <2>2 DEF Further
<1> QED
  BY <1>1 DEF Near, Further

LEMMA SmoothFurther ==
  ASSUME NEW g, NEW n, NEW st, NEW tt, NEW v, Smooth(g, n, st), Further(st, tt, v)
  PROVE  Smooth(g, n, tt)
  BY NearFurther DEF Smooth

LEMMA NearNone ==
  ASSUME NEW st, LogOf(st) \in Seq(Items)
  PROVE  Near(None, st)
<1>1. Shown(None) = <<>>
  BY NoneTypes, ItemsOfNothing DEF Shown
<1>2. Len(None.pages) <= 1
  BY NoneTypes, EmptySeq
<1>3. Begins(<<>>, LogOf(st))
  BY BeginsFacts
<1> QED
  BY <1>1, <1>2, <1>3, NoneTypes DEF Near

LEMMA SmoothAppend ==
  ASSUME NEW c, NEW d \in Seq(Messages), NEW m \in Messages, NEW st,
         Smooth(Course(c, d), Len(d), st), NEW x,
         x = Deliver(Course(c, d)[Len(d)], m),
         Near(x, st), Grows(Course(c, d)[Len(d)], x)
  PROVE  Smooth(Course(c, Append(d, m)), Len(Append(d, m)), st)
<1> DEFINE g == Course(c, d)
           h == Course(c, Append(d, m))
           n == Len(d)
<1>1. /\ \A i \in 0 .. n : h[i] = g[i]
      /\ h[n + 1] = x
  BY CourseAppend
<1>2. Len(Append(d, m)) = n + 1 /\ n \in Nat
  BY AppendProperties, LenProperties
<1>s. Smooth(g, n, st) /\ Near(x, st) /\ Grows(g[n], x)
  OBVIOUS
<1> HIDE DEF g, h, n
<1>3. ASSUME NEW i \in 0 .. n + 1
      PROVE  Near(h[i], st)
  <2>1. CASE i = n + 1
    BY <1>1, <1>s, <2>1
  <2>2. CASE i # n + 1
    <3>1. i \in 0 .. n
      BY <1>2, <2>2
    <3> QED
      BY <1>1, <1>s, <3>1 DEF Smooth
  <2> QED
    BY <2>1, <2>2
<1>4. ASSUME NEW i \in 0 .. (n + 1) - 1
      PROVE  Grows(h[i], h[i + 1])
  <2>1. CASE i = n
    <3>1. i \in 0 .. n
      BY <1>2, <2>1
    <3>2. h[i] = g[n] /\ h[i + 1] = x
      BY <1>1, <2>1, <3>1
    <3> QED
      BY <1>s, <3>2
  <2>2. CASE i # n
    <3>1. i \in 0 .. n - 1 /\ i \in 0 .. n /\ i + 1 \in 0 .. n
      BY <1>2, <2>2
    <3> QED
      BY <1>1, <1>s, <3>1 DEF Smooth
  <2> QED
    BY <2>1, <2>2
<1>5. Smooth(h, n + 1, st)
  BY <1>3, <1>4 DEF Smooth
<1> QED
  BY <1>2, <1>5 DEF h

LEMMA SmoothTail ==
  ASSUME NEW c, NEW d \in Seq(Messages), d # <<>>, NEW st,
         Smooth(Course(c, d), Len(d), st)
  PROVE  Smooth(Course(Deliver(c, Head(d)), Tail(d)), Len(Tail(d)), st)
<1> DEFINE g == Course(c, d)
           h == Course(Deliver(c, Head(d)), Tail(d))
           n == Len(d)
<1>1. \A i \in 0 .. n - 1 : h[i] = g[i + 1]
  BY CourseTail
<1>2. n \in Nat /\ n >= 1 /\ Len(Tail(d)) = n - 1
  BY Taken, LenProperties
<1>s. Smooth(g, n, st)
  OBVIOUS
<1> HIDE DEF g, h, n
<1>3. ASSUME NEW i \in 0 .. n - 1
      PROVE  Near(h[i], st)
  <2>1. i + 1 \in 0 .. n
    BY <1>2
  <2> QED
    BY <1>1, <1>s, <2>1 DEF Smooth
<1>4. ASSUME NEW i \in 0 .. (n - 1) - 1
      PROVE  Grows(h[i], h[i + 1])
  <2>1. i + 1 \in 0 .. n - 1 /\ i \in 0 .. n - 1
    BY <1>2
  <2>2. h[i] = g[i + 1] /\ h[i + 1] = g[(i + 1) + 1]
    BY <1>1, <2>1
  <2>3. Grows(g[i + 1], g[(i + 1) + 1])
    BY <1>s, <2>1 DEF Smooth
  <2> QED
    BY <2>2, <2>3
<1>5. Smooth(h, n - 1, st)
  BY <1>3, <1>4 DEF Smooth
<1> QED
  BY <1>2, <1>5 DEF h

Starts(r) == Fits(store) /\ deletes = 0 =>
               Smooth(Course(coll[r], down[r]), Len(down[r]), store)
BInv == FInv /\ \A r \in Replicas \ Writers : Starts(r)

LEMMA ShownOne ==
  ASSUME NEW c \in Copies, Len(c.pages) = 1
  PROVE  Shown(c) = c.pages[1].items
<1>1. c.pages \in Seq(Pages) /\ 1 \in 1 .. Len(c.pages)
  BY DEF Copies
<1>2. Nested(Items, PartsOf(c.pages)) /\ Len(PartsOf(c.pages)) = 1
      /\ PartsOf(c.pages)[1] = c.pages[1].items
  BY <1>1, PartsNested
<1>3. FlattenSeq(PartsOf(c.pages)) = c.pages[1].items
  BY <1>2, FlattenOne
<1> QED
  BY <1>3 DEF Shown, ItemsOf, PartsOf

LEMMA LogOfTypes ==
  ASSUME store \in Stores
  PROVE  LogOf(store) \in Seq(Items) /\ Further(store, store, <<>>)
<1>1. LogOf(store) \in Seq(Items)
  BY LogTypes DEF LogOf, Log
<1>2. LogOf(store) \o <<>> = LogOf(store) /\ <<>> \in Seq(Items)
  BY <1>1, ConcatEmptySeq, EmptySeq
<1> QED
  BY <1>1, <1>2 DEF Further

LEMMA NearAll ==
  ASSUME NEW st, st.pages # <<>>, LogOf(st) \in Seq(Items), NEW d \in Copies,
         Len(d.pages) = 1, d.pages[1].id = <<st.made, 1>>, Shown(d) = LogOf(st)
  PROVE  Near(d, st)
  BY BeginsFacts DEF Near

LEMMA GrowsAll ==
  ASSUME NEW st, NEW c, NEW d, Near(c, st), Shown(d) = LogOf(st)
  PROVE  Grows(c, d)
  BY DEF Near, Grows

LEMMA AnswerNear ==
  ASSUME store \in Stores, Exists, Fits(store), NEW c, Near(c, store),
         NEW m, m = [kind |-> "subscribed", pages |-> Snapshot(1, Len(store.pages))]
  PROVE  Near(Deliver(c, m), store) /\ Grows(c, Deliver(c, m))
<1> DEFINE d == Deliver(c, m)
           n == Len(store.pages)
<1>1. Current(d, store, 0)
  BY CurrentAnswer
<1>2. d \in Copies
  <2>1. Snapshot(1, n) \in Seq(Pages)
    BY SnapshotAll
  <2> QED
    BY <2>1, SubscribedIs
<1> HIDE DEF d
<1>3. Shown(d) = LogOf(store) /\ d.pages = <<OnePage(store)>>
  BY <1>1 DEF Current, Shows
<1>4. Len(d.pages) = 1 /\ d.pages[1].id = <<store.made, 1>>
  <2>1. d.pages[1] = OnePage(store) /\ Len(d.pages) = 1
    BY <1>3
  <2> QED
    BY <2>1 DEF OnePage
<1>5. store.pages # <<>> /\ LogOf(store) \in Seq(Items)
  BY LogOfTypes DEF Exists
<1> QED
  BY <1>2, <1>3, <1>4, <1>5, NearAll, GrowsAll DEF d

LEMMA MergeOne ==
  ASSUME NEW pages \in Seq(Pages), NEW p \in Pages, Len(pages) <= 1,
         pages # <<>> => pages[1].id = p.id
  PROVE  MergePage(pages, p) = <<p>>
<1> DEFINE t == MergePage(pages, p)
<1>1. t \in Seq(Pages)
  BY MergePageTypes
<1>2. CASE pages = <<>>
  <2>1. DOMAIN pages = {}
    BY <1>2
  <2>2. t = Append(pages, p)
    BY <2>1 DEF MergePage
  <2>3. Len(pages) = 0
    BY <1>2
  <2>4. Len(t) = 1 /\ t[1] = p
    <3>1. /\ Len(Append(pages, p)) = Len(pages) + 1
          /\ Append(pages, p)[Len(pages) + 1] = p
      BY AppendProperties
    <3> HIDE DEF t
    <3> QED
      BY <2>2, <2>3, <3>1
  <2> HIDE DEF t
  <2>5. t = <<t[1]>>
    BY <1>1, <2>4, OneIs
  <2> QED
    BY <2>4, <2>5 DEF t
<1>3. CASE pages # <<>>
  <2>1. Len(pages) = 1 /\ DOMAIN pages = {1} /\ pages[1].id = p.id
    <3>1. Len(pages) \in Nat /\ Len(pages) # 0 /\ DOMAIN pages = 1 .. Len(pages)
      BY <1>3, EmptySeq, LenProperties
    <3>2. Len(pages) = 1
      BY <3>1
    <3> QED
      BY <1>3, <3>1, <3>2
  <2>2. t = [i \in {1} |-> IF pages[i].id = p.id THEN p ELSE pages[i]]
    BY <2>1 DEF MergePage
  <2>3. t = [i \in {1} |-> p]
    BY <2>1, <2>2
  <2>4. DOMAIN t = {1} /\ t[1] = p
    BY <2>3
  <2> HIDE DEF t
  <2>5. Len(t) = 1
    <3>1. DOMAIN t = 1 .. Len(t) /\ Len(t) \in Nat
      BY <1>1, LenProperties
    <3>2. 1 \in 1 .. Len(t) /\ (Len(t) >= 2 => 2 \in 1 .. Len(t))
      BY <2>4, <3>1
    <3> QED
      BY <2>4, <3>1, <3>2
  <2>6. t = <<t[1]>>
    BY <1>1, <2>5, OneIs
  <2> QED
    BY <2>4, <2>6 DEF t
<1> QED
  BY <1>2, <1>3

LEMMA ReadNear ==
  ASSUME store \in Stores, Exists, Fits(store), NEW c, Near(c, store),
         NEW first \in Nat \ {0}, NEW last \in Nat,
         NEW m, m = [kind |-> "read", pages |-> Snapshot(first, last)]
  PROVE  Near(Deliver(c, m), store) /\ Grows(c, Deliver(c, m))
<1> DEFINE s == Snapshot(first, last)
           p == OnePage(store)
           one == <<p>>
           d == Deliver(c, m)
<1>1. /\ s \in Seq(Pages) /\ (s = <<>> \/ s = one) /\ p \in Pages
      /\ one \in Seq(Pages)
  <2>1. p \in Pages
    BY OnePageIs
  <2>2. s \in Seq(Pages)
    BY SnapshotIs
  <2>3. s = <<>> \/ s = one
    BY OneMerged
  <2> QED
    BY <2>1, <2>2, <2>3
<1>2. c \in Copies /\ c.pages \in Seq(Pages) /\ Len(c.pages) <= 1
      /\ (c.pages # <<>> => c.pages[1].id = p.id)
      /\ Begins(Shown(c), LogOf(store))
  BY DEF Near, Copies, OnePage
<1>3. d = MergeRead(c, s)
  BY DEF Deliver
<1>4. Len(one) = 1 /\ one[1] = p /\ one # <<>> /\ p.id = <<store.made, 1>>
      /\ p.items = LogOf(store)
  BY DEF OnePage
<1> HIDE DEF s, p, d, one
<1>5. MergePage(c.pages, p) = one /\ MergePage(one, p) = one
  <2>1. one[1].id = p.id /\ Len(one) <= 1
    BY <1>4
  <2> QED
    BY <1>1, <1>2, <2>1, MergeOne DEF one
<1>6. MergePages(c.pages, s) \in {c.pages, one}
  <2>1. Len(s) \in Nat /\ \A i \in 1 .. Len(s) : s[i] = p
    <3>1. CASE s = <<>>
      BY <3>1
    <3>2. CASE s = one
      <4> DEFINE l == Len(one)
      <4>1. l = 1 /\ one[1] = p
        BY <1>4
      <4> HIDE DEF l
      <4>2. l \in Nat /\ \A i \in 1 .. l : one[i] = p
        BY <4>1
      <4> QED
        BY <3>2, <4>2 DEF l
    <3> QED
      BY <1>1, <3>1, <3>2
  <2>2. \A x \in {c.pages, one} : \A i \in 1 .. Len(s) :
          MergePage(x, s[i]) \in {c.pages, one}
    BY <1>5, <2>1
  <2> QED
    BY <2>1, <2>2, MergesKeep
<1>7. d \in Copies /\ d.pages = MergePages(c.pages, s)
  BY <1>1, <1>2, <1>3, MergeReadTypes
<1>8. CASE d.pages = c.pages
  <2>1. Shown(d) = Shown(c) /\ Shown(c) \in Seq(Items)
    BY <1>2, <1>8, ShownTypes DEF Shown
  <2>2. Near(d, store)
    BY <1>7, <1>8, <2>1 DEF Near
  <2>3. Grows(c, d)
    BY <2>1, BeginsFacts DEF Grows
  <2> QED
    BY <2>2, <2>3 DEF d
<1>9. CASE d.pages = one
  <2>1. Shown(d) = LogOf(store)
    BY <1>4, <1>7, <1>9, ShownOne
  <2>2. Near(d, store)
    BY <1>4, <1>7, <1>9, <2>1, LogOfTypes, NearAll DEF Exists
  <2>3. Grows(c, d)
    BY <2>1, GrowsAll
  <2> QED
    BY <2>2, <2>3 DEF d
<1> QED
  BY <1>6, <1>7, <1>8, <1>9

LEMMA StartsKept ==
  ASSUME NEW r, Starts(r), coll'[r] = coll[r], down'[r] = down[r],
         deletes' = 0 => deletes = 0, Fits(store') => Fits(store),
         NEW v, Further(store, store', v)
  PROVE  Starts(r)'
<1> SUFFICES ASSUME Fits(store'), deletes' = 0
             PROVE  Smooth(Course(coll[r], down[r]), Len(down[r]), store')
  BY DEF Starts
<1>1. Smooth(Course(coll[r], down[r]), Len(down[r]), store)
  BY DEF Starts
<1> QED
  BY <1>1, SmoothFurther

LEMMA StartsSame ==
  ASSUME NEW r, Starts(r), coll'[r] = coll[r], down'[r] = down[r],
         deletes' = 0 => deletes = 0, store' = store
  PROVE  Starts(r)'
  BY DEF Starts

LEMMA StartsTold ==
  ASSUME CInv, NEW r \in Replicas, Starts(r), coll'[r] = coll[r], store' = store,
         deletes' = deletes, NEW m \in Messages, down'[r] = Append(down[r], m),
         Fits(store) /\ deletes = 0 /\ Near(Settled(r), store) =>
           Near(Deliver(Settled(r), m), store)
             /\ Grows(Settled(r), Deliver(Settled(r), m))
  PROVE  Starts(r)'
<1> SUFFICES ASSUME Fits(store), deletes = 0
             PROVE  Smooth(Course(coll[r], Append(down[r], m)),
                           Len(Append(down[r], m)), store)
  BY DEF Starts
<1> DEFINE c == coll[r]
           d == down[r]
           s == Course(c, d)[Len(d)]
           x == Deliver(s, m)
<1>1. d \in Seq(Messages) /\ Len(d) \in Nat
  BY TheTypes DEF CInv
<1>2. Smooth(Course(c, d), Len(d), store)
  BY DEF Starts
<1>3. Near(s, store) /\ s = Settled(r)
  <2>1. Len(d) \in 0 .. Len(d)
    BY <1>1
  <2>2. Near(Course(c, d)[Len(d)], store)
    <3> DEFINE g == Course(c, d)
    <3>1. Smooth(g, Len(d), store)
      BY <1>2
    <3> HIDE DEF g
    <3>2. Near(g[Len(d)], store)
      BY <2>1, <3>1 DEF Smooth
    <3> QED
      BY <3>2 DEF g
  <2> QED
    BY <2>2 DEF Settled
<1>4. Near(x, store) /\ Grows(s, x)
  BY <1>3
<1> QED
  BY <1>1, <1>2, <1>4, SmoothAppend

\* The copy of a reader changes only as it receives.
LEMMA ReaderCopyKept ==
  ASSUME CInv, Next, NEW r \in Replicas \ Writers
  PROVE  coll'[r] = coll[r] \/ Receive(r)
<1>0. coll \in [Replicas -> Copies]
  BY TheTypes DEF CInv
<1>1. CASE \E q \in Replicas :
             \/ Subscribe(q)
             \/ Unsubscribe(q)
             \/ \E n \in BatchSizes : Concat(q, n)
             \/ \E first, last \in 1 .. MaxConcats + 1 : Read(q, first, last)
             \/ Delete(q)
  BY <1>0, <1>1 DEF Subscribe, Unsubscribe, Concat, Read, Delete
<1>2. CASE \E q \in Replicas : Handle(q)
  BY <1>2 DEF Handle, DbUnsubscribe, DbEnqueue
<1>3. CASE \E q \in Replicas : Receive(q)
  <2>1. PICK q \in Replicas : Receive(q)
    BY <1>3
  <2> QED
    BY <1>0, <2>1 DEF Receive
<1>4. CASE DbGrant
  BY <1>4 DEF DbGrant
<1>5. CASE Job
  BY <1>5 DEF Job, DbSubscribeAdds, DbSubscribeAnswers, DbRead, DbConcatNothing,
              DbConcat, DbDeleteFails, DbDelete
<1> QED
  BY <1>1, <1>2, <1>3, <1>4, <1>5 DEF Next

LEMMA QuietStarts ==
  ASSUME BInv, NEW r \in Replicas \ Writers,
         \/ \E q \in Replicas :
              \/ Subscribe(q)
              \/ Unsubscribe(q)
              \/ \E n \in BatchSizes : Concat(q, n)
              \/ \E first, last \in 1 .. MaxConcats + 1 : Read(q, first, last)
              \/ Delete(q)
         \/ \E q \in Replicas : DbEnqueue(q)
         \/ DbGrant
  PROVE  Starts(r)'
<1>1. coll \in [Replicas -> Copies] /\ deletes \in 0 .. MaxDeletes
  BY TheTypes DEF BInv, FInv, CInv, TypeOK
<1>2. store' = store /\ down' = down
  BY DEF Subscribe, Unsubscribe, Concat, Read, Delete, DbEnqueue, DbGrant, dbVars
<1>3. deletes' = 0 => deletes = 0
  <2>1. deletes' = deletes \/ deletes' = deletes + 1
    BY DEF Subscribe, Unsubscribe, Concat, Read, Delete, DbEnqueue, DbGrant, counters
  <2> QED
    BY <1>1, <2>1
<1>4. coll'[r] = coll[r]
  BY <1>1 DEF Subscribe, Unsubscribe, Concat, Read, Delete, DbEnqueue, DbGrant
<1>5. Starts(r)
  BY DEF BInv
<1> QED
  BY <1>2, <1>3, <1>4, <1>5, StartsSame

LEMMA ReceiveStarts ==
  ASSUME BInv, NEW q \in Replicas, Receive(q), NEW r \in Replicas \ Writers
  PROVE  Starts(r)'
<1>1. /\ coll \in [Replicas -> Copies] /\ down \in [Replicas -> Seq(Messages)]
      /\ down[q] # <<>> /\ store' = store /\ deletes' = deletes
      /\ coll' = [coll EXCEPT ![q] = Deliver(@, Head(down[q]))]
      /\ down' = [down EXCEPT ![q] = Tail(@)]
  BY TheTypes DEF BInv, FInv, CInv, Receive, dbVars, counters
<1>2. Starts(r)
  BY DEF BInv
<1>3. CASE r = q
  <2> SUFFICES ASSUME Fits(store), deletes = 0
               PROVE  Smooth(Course(Deliver(coll[r], Head(down[r])), Tail(down[r])),
                             Len(Tail(down[r])), store)
    BY <1>1, <1>3 DEF Starts
  <2>1. Smooth(Course(coll[r], down[r]), Len(down[r]), store)
    BY <1>2 DEF Starts
  <2>2. down[r] \in Seq(Messages) /\ down[r] # <<>>
    BY <1>1, <1>3
  <2> QED
    BY <2>1, <2>2, SmoothTail
<1>4. CASE r # q
  BY <1>1, <1>2, <1>4, StartsSame
<1> QED
  BY <1>3, <1>4

LEMMA UnsubscribeStarts ==
  ASSUME BInv, NEW q \in Replicas, DbUnsubscribe(q), NEW r \in Replicas \ Writers
  PROVE  Starts(r)'
<1> DEFINE m == [kind |-> "unsubscribed"]
<1>1. /\ down \in [Replicas -> Seq(Messages)]
      /\ store' = store /\ deletes' = deletes /\ coll' = coll
      /\ down' = [down EXCEPT ![q] = Append(@, m)]
  BY TheTypes DEF BInv, FInv, CInv, DbUnsubscribe, counters
<1>2. Starts(r) /\ CInv /\ store \in Stores
  BY TheTypes DEF BInv, FInv, CInv
<1>3. CASE r = q
  <2>1. m \in Messages
    BY DEF Messages
  <2>2. Deliver(Settled(r), m) = None
    BY DEF Deliver
  <2>3. Near(None, store) /\ Grows(Settled(r), None)
    BY <1>2, LogOfTypes, NearNone, NoneTypes DEF Grows
  <2>4. down'[r] = Append(down[r], m)
    BY <1>1, <1>3
  <2> HIDE DEF m
  <2> QED
    BY <1>1, <1>2, <2>1, <2>2, <2>3, <2>4, StartsTold
<1>4. CASE r # q
  BY <1>1, <1>2, <1>4, StartsSame
<1> QED
  BY <1>3, <1>4

LEMMA ConcatStarts ==
  ASSUME BInv, DbConcat, NEW r \in Replicas \ Writers
  PROVE  Starts(r)'
<1> DEFINE job == Head(queue)
           a == TheConcat(job)
           b == TheUpdate(PagesAfter(job))
           v == job.items
<1>c. CInv /\ FInv /\ Starts(r) /\ store \in Stores
  BY TheTypes DEF BInv, FInv, CInv
<1>1. /\ phase = "opening" /\ job.from \in Writers /\ v \in Seq(Items)
      /\ a \in Messages /\ b \in Messages /\ Log' = Log \o v
      /\ store' = [made |-> Recreated.made, pages |-> PagesAfter(job)]
      /\ store' \in Stores /\ PagesAfter(job) # <<>>
      /\ UNCHANGED <<subscribed, coll, wants, up, counters>>
      /\ \A q \in Replicas :
           down'[q] = IF q \notin subscribed THEN down[q]
                      ELSE IF q = job.from THEN Append(down[q], b)
                      ELSE Append(Append(down[q], a), b)
  BY <1>c, ConcatIs
<1>a. a = TheConcat(Head(queue)) /\ b = TheUpdate(PagesAfter(Head(queue)))
  OBVIOUS
<1>2. Further(store, store', v)
  <2>1. LogOf(store) = Log /\ LogOf(store') = Log'
    BY DEF LogOf, Log
  <2>2. LogOf(store) \in Seq(Items)
    BY <1>c, LogOfTypes
  <2>3. store.pages # <<>> => store'.pages # <<>> /\ store'.made = store.made
    BY <1>c, <1>1, RecreatedTypes DEF Exists
  <2> QED
    BY <1>1, <2>1, <2>2, <2>3 DEF Further
<1> HIDE DEF a, b, v
<1>3. CASE r \notin subscribed
  <2>1. Fits(store') => Fits(store)
    <3>1. ASSUME Exists
          PROVE  Len(PagesAfter(job)) >= Len(store.pages)
      <4> DEFINE n == Len(store.pages)
      <4>1. Before = store.pages /\ store.pages \in Seq(Seq(Items)) /\ n \in Nat /\ n >= 1
        BY <1>c, <3>1, RecreatedTypes, LogTypes DEF Before, Nested
      <4>2. PagesAfter(job) = IF Len(store.pages[n]) >= PageSize
                              THEN Append(store.pages, v)
                              ELSE [store.pages EXCEPT ![n] = @ \o v]
        BY <4>1 DEF PagesAfter, v
      <4> HIDE DEF n
      <4>3. Len(Append(store.pages, v)) = Len(store.pages) + 1
        BY <1>1, <4>1, AppendProperties
      <4>4. Len([store.pages EXCEPT ![n] = @ \o v]) = Len(store.pages)
        <5> DEFINE w == store.pages[n] \o v
        <5>1. n \in 1 .. Len(store.pages) /\ store.pages[n] \in Seq(Items)
          BY <4>1, ElementOfSeq DEF n
        <5>2. w \in Seq(Items)
          BY <1>1, <5>1, ConcatProperties
        <5> HIDE DEF w
        <5>3. Len([store.pages EXCEPT ![n] = w]) = Len(store.pages)
          BY <4>1, <5>1, <5>2, ExceptSeq
        <5> QED
          BY <5>3 DEF w
      <4> QED
        BY <4>1, <4>2, <4>3, <4>4 DEF n
    <3>2. store'.pages = PagesAfter(job) /\ Len(store.pages) \in Nat
      BY <1>c, <1>1, LogTypes
    <3>3. ~Exists => Len(store.pages) = 0
      BY <1>c, LogTypes
    <3>4. Len(store'.pages) \in Nat
      BY <1>1, LenProperties DEF Stores
    <3> QED
      BY <3>1, <3>2, <3>3, <3>4 DEF Fits
  <2>2. down'[r] = down[r] /\ coll'[r] = coll[r] /\ deletes' = deletes
    BY <1>1, <1>3 DEF counters
  <2> QED
    BY <1>c, <1>2, <2>1, <2>2, StartsKept
<1>4. CASE r \in subscribed
  <2> DEFINE c == coll[r]
             d == down[r]
             e == Append(d, a)
             f == Append(e, b)
             s == Settled(r)
             x == Deliver(s, a)
             y == Deliver(x, b)
  <2>1. r \in Readers /\ Exists /\ Follow(r) /\ ~Answering(r) /\ s \in Copies
    BY <1>c, <1>1, <1>4, SubscriberFacts, SettledTypes
       DEF Readers, FInv, Answering, Running
  <2>2. Current(s, store, reads)
    BY <2>1 DEF Follow
  <2>3. down'[r] = f /\ coll'[r] = c /\ deletes' = deletes
    BY <1>1, <1>4 DEF counters
  <2>4. /\ Current(y, store', reads)
        /\ Fits(store') => /\ Fits(store) /\ Len(x.pages) = 1
                           /\ x.pages[1].id = <<store'.made, 1>>
                           /\ Shown(x) = LogOf(store')
    <3> HIDE DEF s
    <3> QED
      BY <1>c, <1>a, <2>1, <2>2, CurrentConcat
  <2>5. x \in Copies /\ y \in Copies
    BY <1>1, <2>1, DeliverTypes
  <2>6. d \in Seq(Messages) /\ e \in Seq(Messages) /\ Len(e) = Len(d) + 1
        /\ Len(d) \in Nat
    <3>1. d \in Seq(Messages) /\ Len(d) \in Nat
      BY <1>c, TheTypes DEF CInv
    <3> QED
      BY <1>1, <3>1, AppendProperties
  <2>7. s = Course(c, d)[Len(d)]
    BY DEF Settled
  <2> HIDE DEF s
  <2>8. x = Course(c, e)[Len(e)]
    BY <1>1, <2>6, <2>7, CourseAppend
  <2> HIDE DEF x
  <2>x. x = Deliver(Course(c, d)[Len(d)], a)
    BY <2>7 DEF x
  <2>y. y = Deliver(Course(c, e)[Len(e)], b)
    BY <2>8
  <2> HIDE DEF y
  <2> SUFFICES ASSUME Fits(store'), deletes = 0
               PROVE  Smooth(Course(c, f), Len(f), store')
    BY <2>3 DEF Starts
  <2>9. Smooth(Course(c, d), Len(d), store')
    BY <1>c, <1>2, <2>4, SmoothFurther DEF Starts
  <2>10. Near(s, store')
    <3> DEFINE g == Course(c, d)
    <3>1. Smooth(g, Len(d), store') /\ Len(d) \in 0 .. Len(d)
      BY <2>6, <2>9
    <3> HIDE DEF g
    <3>2. Near(g[Len(d)], store')
      BY <3>1 DEF Smooth
    <3> QED
      BY <2>7, <3>2 DEF g
  <2>11. store'.pages # <<>> /\ LogOf(store') \in Seq(Items)
    <3>1. store'.pages # <<>>
      BY <1>1
    <3>2. /\ LogOf(store) \in Seq(Items) /\ v \in Seq(Items)
          /\ LogOf(store') = LogOf(store) \o v
      BY <1>2 DEF Further
    <3>3. LogOf(store) \o v \in Seq(Items)
      BY <3>2, ConcatProperties
    <3> QED
      BY <3>1, <3>2, <3>3
  <2>12. Near(x, store') /\ Grows(s, x)
    BY <2>4, <2>5, <2>10, <2>11, NearAll, GrowsAll
  <2>13. Near(y, store') /\ Grows(x, y)
    <3>1. Shown(y) = LogOf(store') /\ y.pages = <<OnePage(store')>>
      BY <2>4 DEF Current, Shows
    <3>2. Len(y.pages) = 1 /\ y.pages[1].id = <<store'.made, 1>>
      <4>1. Len(y.pages) = 1 /\ y.pages[1] = OnePage(store')
        BY <3>1
      <4> QED
        BY <4>1 DEF OnePage
    <3> QED
      BY <2>5, <2>11, <2>12, <3>1, <3>2, NearAll, GrowsAll
  <2>14. Smooth(Course(c, e), Len(e), store')
    BY <1>1, <2>6, <2>7, <2>9, <2>12, <2>x, SmoothAppend
  <2> HIDE DEF e
  <2> QED
    BY <1>1, <2>6, <2>8, <2>13, <2>14, <2>y, SmoothAppend
<1> QED
  BY <1>3, <1>4

LEMMA JobStarts ==
  ASSUME BInv, Job, NEW r \in Replicas \ Writers
  PROVE  Starts(r)'
<1>c. CInv /\ Starts(r) /\ store \in Stores
  BY TheTypes DEF BInv, FInv, CInv
<1>1. CASE DbSubscribeAdds
  <2>1. store' = Recreated /\ UNCHANGED <<queue, coll, wants, up, down, counters>>
    BY <1>1 DEF DbSubscribeAdds
  <2>2. CASE Exists
    <3>1. store' = store
      BY <1>c, <2>1, <2>2, RecreatedTypes
    <3> QED
      BY <1>c, <2>1, <3>1, StartsSame DEF counters
  <2>3. CASE ~Exists
    <3>1. Fits(store)
      BY <1>c, <2>3, LogTypes DEF Fits
    <3>2. LogOf(store) = <<>> /\ LogOf(store') = <<>>
      <4>1. store'.pages = <<<<>>>> /\ store' \in Stores
        BY <1>c, <2>1, <2>3, RecreatedTypes
      <4>2. Nested(Items, store'.pages) /\ Len(store'.pages) = 1 /\ store'.pages[1] = <<>>
        <5> DEFINE pages == store'.pages
        <5>1. pages \in Seq(Seq(Items)) /\ pages = <<<<>>>>
          BY <4>1 DEF Stores
        <5> HIDE DEF pages
        <5>2. Len(pages) = 1 /\ pages[1] = <<>>
          BY <5>1
        <5> QED
          BY <5>1, <5>2 DEF pages, Nested
      <4>3. LogOf(store') = <<>>
        BY <4>2, FlattenOne DEF LogOf
      <4> QED
        BY <1>c, <2>3, <4>3, LogTypes DEF LogOf, Log
    <3> DEFINE v == <<>>
    <3>3. v \in Seq(Items) /\ v = v \o v /\ v = LogOf(store) /\ v = LogOf(store')
      BY <3>2, EmptySeq, ConcatEmptySeq
    <3> HIDE DEF v
    <3>4. Further(store, store', v)
      BY <2>3, <3>3 DEF Further, Exists
    <3> QED
      BY <1>c, <2>1, <3>1, <3>4, StartsKept DEF counters
  <2> QED
    BY <2>2, <2>3
<1>2. CASE DbSubscribeAnswers
  <2> DEFINE q == Head(queue).from
             m == [kind |-> "subscribed", pages |-> Snapshot(1, Len(store.pages))]
             s == Settled(r)
  <2>1. /\ Exists /\ m \in Messages /\ Tells(q, m)
        /\ UNCHANGED <<store, subscribed, coll, wants, up, counters>>
    BY <1>2, <1>c, AnswersIs
  <2>2. m = [kind |-> "subscribed", pages |-> Snapshot(1, Len(store.pages))]
    OBVIOUS
  <2> HIDE DEF q, m, s
  <2>3. CASE r = q
    <3>1. down'[r] = Append(down[r], m)
      BY <2>1, <2>3 DEF Tells
    <3>2. Fits(store) /\ Near(s, store) =>
            Near(Deliver(s, m), store) /\ Grows(s, Deliver(s, m))
      BY <1>c, <2>1, <2>2, AnswerNear
    <3> QED
      BY <1>c, <2>1, <3>1, <3>2, StartsTold DEF s, counters
  <2>4. CASE r # q
    BY <1>c, <2>1, <2>4, StartsSame DEF Tells, counters
  <2> QED
    BY <2>3, <2>4
<1>3. CASE DbRead
  <2> DEFINE job == Head(queue)
             m == [kind |-> "read", pages |-> Snapshot(job.first, job.last)]
             s == Settled(r)
  <2>1. /\ job.first \in Nat \ {0} /\ job.last \in Nat
        /\ m \in Messages /\ (Exists => Tells(job.from, m))
        /\ (~Exists => down' = down)
        /\ UNCHANGED <<store, subscribed, coll, wants, up, counters>>
    BY <1>3, <1>c, ReadIs
  <2>2. m = [kind |-> "read", pages |-> Snapshot(job.first, job.last)]
    OBVIOUS
  <2> HIDE DEF job, m, s
  <2>3. CASE r = job.from /\ Exists
    <3>1. down'[r] = Append(down[r], m)
      BY <2>1, <2>3 DEF Tells
    <3>2. Fits(store) /\ Near(s, store) =>
            Near(Deliver(s, m), store) /\ Grows(s, Deliver(s, m))
      BY <1>c, <2>1, <2>2, <2>3, ReadNear
    <3> QED
      BY <1>c, <2>1, <3>1, <3>2, StartsTold DEF s, counters
  <2>4. CASE ~(r = job.from /\ Exists)
    <3>1. down'[r] = down[r]
      BY <2>1, <2>4 DEF Tells
    <3> QED
      BY <1>c, <2>1, <3>1, StartsSame DEF counters
  <2> QED
    BY <2>3, <2>4
<1>4. CASE DbConcatNothing \/ DbDeleteFails
  <2>1. UNCHANGED <<store, coll, down, counters>>
    BY <1>4, <1>c, SilentIs
  <2> QED
    BY <1>c, <2>1, StartsSame DEF counters
<1>5. CASE DbConcat
  BY <1>5, ConcatStarts
<1>6. CASE DbDelete
  BY <1>6, <1>c, DeleteIs DEF Starts, counters
<1> QED
  BY <1>1, <1>2, <1>3, <1>4, <1>5, <1>6 DEF Job

LEMMA NextStarts == BInv /\ [Next]_vars => BInv'
<1> SUFFICES ASSUME BInv, [Next]_vars PROVE BInv'
  OBVIOUS
<1>1. FInv'
  BY NextFollow DEF BInv
<1>2. ASSUME NEW r \in Replicas \ Writers
      PROVE  Starts(r)'
  <2>1. CASE Next
    BY <2>1, QuietStarts, ReceiveStarts, UnsubscribeStarts, JobStarts DEF Next, Handle
  <2>2. CASE UNCHANGED vars
    BY <2>2, StartsSame DEF vars, BInv
  <2> QED
    BY <2>1, <2>2
<1> QED
  BY <1>1, <1>2 DEF BInv

LEMMA InitStarts == Init => BInv
<1> SUFFICES ASSUME Init PROVE BInv
  OBVIOUS
<1>1. FInv /\ store \in Stores
  BY InitControl, TheTypes DEF Init, FInv, CInv
<1>2. ASSUME NEW r \in Replicas \ Writers
      PROVE  Starts(r)
  <2> DEFINE none == <<>>
  <2>1. coll[r] = None /\ down[r] = none /\ none \in Seq(Messages) /\ Len(none) = 0
    BY DEF Init
  <2>2. Near(None, store)
    BY <1>1, LogOfTypes, NearNone
  <2> HIDE DEF none
  <2>3. Course(None, none)[0] = None
    BY <2>1, CourseSteps
  <2> DEFINE g == Course(None, none)
  <2>4. g[0] = None
    BY <2>3
  <2> HIDE DEF g
  <2>5. Smooth(g, 0, store)
    BY <2>2, <2>4 DEF Smooth
  <2> QED
    BY <2>1, <2>5 DEF Starts, g
<1> QED
  BY <1>1, <1>2 DEF BInv

LEMMA InvariantBInv == Spec => []BInv
  BY InitStarts, NextStarts, PTL DEF Spec

\* What a reading replica shows is a beginning of what the database holds, and
\* it only grows at its end as long as the replica keeps its entry: neither a
\* second subscription nor a read of pages ever takes an item back, repeats it
\* or moves it (while the first page has not filled and nothing was deleted).
THEOREM ReadersOnlyAppend == Spec => ReadersAppendOnly
<1>1. ASSUME BInv, Next, NEW r \in Replicas \ Writers,
             PagesFit, deletes = 0, coll[r].held, coll'[r].held
      PROVE  /\ IsPrefix(Shown(coll[r]), Shown(coll'[r]))
             /\ IsPrefix(Shown(coll'[r]), Log)
  <2> DEFINE c == coll[r]
             d == down[r]
             g == Course(c, d)
             x == coll'[r]
  <2>1. /\ CInv /\ Starts(r) /\ store \in Stores
        /\ c \in Copies /\ d \in Seq(Messages) /\ Len(d) \in Nat
    BY <1>1, TheTypes DEF BInv, FInv, CInv
  <2>2. Smooth(g, Len(d), store)
    BY <1>1, <2>1 DEF Starts, PagesFit, Fits
  <2>3. /\ g[0] = c
        /\ \A n \in 0 .. Len(d) - 1 : g[n + 1] = Deliver(g[n], d[n + 1])
    BY <2>1, CourseSteps
  <2> HIDE DEF g
  <2>4. Near(c, store)
    <3>1. 0 \in 0 .. Len(d)
      BY <2>1
    <3> QED
      BY <2>2, <2>3, <3>1 DEF Smooth
  <2>5. Near(x, store) /\ Grows(c, x)
    <3>1. CASE x = c
      <4>1. Grows(c, c)
        BY <2>1, ShownTypes, BeginsFacts DEF Grows
      <4> QED
        BY <2>4, <3>1, <4>1
    <3>2. CASE Receive(r)
      <4>1. d # <<>> /\ x = Deliver(c, Head(d))
        <5>1. coll \in [Replicas -> Copies]
          BY <2>1, TheTypes DEF CInv
        <5> QED
          BY <3>2, <5>1 DEF Receive
      <4>2. Head(d) = d[1] /\ Len(d) >= 1
        BY <2>1, <4>1, Taken
      <4>3. 0 \in 0 .. Len(d) - 1 /\ 1 \in 0 .. Len(d) /\ 0 + 1 = 1
        BY <2>1, <4>2
      <4>4. g[0 + 1] = Deliver(g[0], d[0 + 1])
        BY <2>3, <4>3
      <4>5. x = g[1]
        BY <2>3, <4>1, <4>2, <4>3, <4>4
      <4>6. Near(g[1], store) /\ Grows(g[0], g[0 + 1])
        BY <2>2, <4>3 DEF Smooth
      <4> QED
        BY <2>3, <4>3, <4>5, <4>6
    <3> QED
      BY <1>1, <2>1, <3>1, <3>2, ReaderCopyKept
  <2>6. /\ Shown(c) \in Seq(Items) /\ Shown(x) \in Seq(Items) /\ Log \in Seq(Items)
        /\ Log = LogOf(store)
    BY <2>1, <2>5, ShownTypes, LogTypes DEF Near, LogOf, Log
  <2>7. Begins(Shown(c), Shown(x)) /\ Begins(Shown(x), Log)
    BY <1>1, <2>5, <2>6 DEF Near, Grows
  <2> HIDE DEF c, x
  <2>8. IsPrefix(Shown(c), Shown(x)) /\ IsPrefix(Shown(x), Log)
    BY <2>6, <2>7, BeginsPrefix
  <2> QED
    BY <2>8 DEF c, x
<1> DEFINE A == \A r \in Replicas \ Writers :
                  PagesFit /\ deletes = 0 /\ coll[r].held /\ coll'[r].held =>
                    /\ IsPrefix(Shown(coll[r]), Shown(coll'[r]))
                    /\ IsPrefix(Shown(coll'[r]), Log)
<1>2. BInv /\ [Next]_vars => [A]_vars
  BY <1>1
<1> QED
  BY <1>2, InvariantBInv, PTL DEF Spec, ReadersAppendOnly

-----------------------------------------------------------------------------
(* How often an item is in a sequence                                      *)

At(x, s) == {i \in DOMAIN s : s[i] = x}
Times(x, s) == Cardinality(At(x, s))

LEMMA TimesTypes ==
  ASSUME NEW E, NEW s \in Seq(E), NEW x
  PROVE  /\ Times(x, s) \in Nat /\ IsFiniteSet(At(x, s))
         /\ At(x, s) \subseteq 1 .. Len(s)
         /\ x \in Range(s) <=> Times(x, s) # 0
<1>1. DOMAIN s = 1 .. Len(s) /\ Len(s) \in Nat
  BY LenProperties
<1>2. IsFiniteSet(1 .. Len(s))
  <2>1. 1 \in Int /\ Len(s) \in Int
    BY <1>1
  <2> QED
    BY <2>1, FS_Interval
<1>3. At(x, s) \subseteq 1 .. Len(s)
  BY <1>1 DEF At
<1>4. IsFiniteSet(At(x, s))
  BY <1>2, <1>3, FS_Subset
<1>5. Times(x, s) \in Nat
  BY <1>4, FS_CardinalityType DEF Times
<1>6. Times(x, s) = 0 <=> At(x, s) = {}
  BY <1>4, FS_EmptySet DEF Times
<1>7. x \in Range(s) <=> At(x, s) # {}
  BY DEF Range, At
<1> QED
  BY <1>3, <1>4, <1>5, <1>6, <1>7

LEMMA TimesConcat ==
  ASSUME NEW E, NEW s \in Seq(E), NEW t \in Seq(E), NEW x
  PROVE  Times(x, s \o t) = Times(x, s) + Times(x, t)
<1> DEFINE u == s \o t
           n == Len(s)
           m == Len(t)
           A == At(x, s)
           B == At(x, t)
           C == {n + j : j \in B}
<1>1. /\ u \in Seq(E) /\ n \in Nat /\ m \in Nat
      /\ DOMAIN u = 1 .. n + m /\ DOMAIN s = 1 .. n /\ DOMAIN t = 1 .. m
      /\ \A i \in 1 .. n + m : u[i] = IF i <= n THEN s[i] ELSE t[i - n]
  <2>1. u \in Seq(E) /\ Len(u) = n + m
        /\ \A i \in 1 .. n + m : u[i] = IF i <= n THEN s[i] ELSE t[i - n]
    BY ConcatProperties
  <2>2. DOMAIN u = 1 .. Len(u)
    BY <2>1, LenProperties
  <2> QED
    BY <2>1, <2>2, LenProperties
<1> HIDE DEF u, n, m
<1>2. A \subseteq 1 .. n /\ B \subseteq 1 .. m
  BY <1>1 DEF At
<1>3. At(x, u) = A \cup C
  <2>1. ASSUME NEW i \in At(x, u)
        PROVE  i \in A \cup C
    <3>1. i \in 1 .. n + m /\ u[i] = x
      BY <1>1 DEF At
    <3>2. CASE i <= n
      <4>1. i \in 1 .. n /\ s[i] = x
        BY <1>1, <3>1, <3>2
      <4> QED
        BY <1>1, <4>1 DEF At
    <3>3. CASE ~(i <= n)
      <4> DEFINE j == i - n
      <4>1. j \in 1 .. m /\ t[j] = x /\ i = n + j
        BY <1>1, <3>1, <3>3
      <4>2. j \in B
        BY <1>1, <4>1 DEF At
      <4> QED
        BY <4>1, <4>2
    <3> QED
      BY <3>2, <3>3
  <2>2. ASSUME NEW i \in A
        PROVE  i \in At(x, u)
    <3>1. i \in 1 .. n /\ s[i] = x
      BY <1>1 DEF At
    <3>2. i \in 1 .. n + m /\ i <= n
      BY <1>1, <3>1
    <3> QED
      BY <1>1, <3>1, <3>2 DEF At
  <2>3. ASSUME NEW j \in B
        PROVE  n + j \in At(x, u)
    <3>1. j \in 1 .. m /\ t[j] = x
      BY <1>1 DEF At
    <3>2. n + j \in 1 .. n + m /\ ~(n + j <= n) /\ (n + j) - n = j
      BY <1>1, <3>1
    <3> QED
      BY <1>1, <3>1, <3>2 DEF At
  <2> HIDE DEF A, B
  <2> QED
    BY <2>1, <2>2, <2>3
<1>4. /\ IsFiniteSet(A) /\ Cardinality(A) = Times(x, s) /\ Cardinality(A) \in Nat
      /\ IsFiniteSet(B) /\ Cardinality(B) = Times(x, t) /\ Cardinality(B) \in Nat
  BY TimesTypes DEF Times
<1> HIDE DEF A, B
<1>5. IsFiniteSet(C) /\ Cardinality(C) = Cardinality(B)
  <2> DEFINE f == [j \in B |-> n + j]
  <2>1. f \in Bijection(B, C)
    <3>1. f \in [B -> C]
      OBVIOUS
    <3>2. \A i, j \in B : f[i] = f[j] => i = j
      BY <1>1, <1>2
    <3>3. \A y \in C : \E j \in B : f[j] = y
      OBVIOUS
    <3> QED
      BY <3>1, <3>2, <3>3 DEF Bijection, Injection, IsInjective, Surjection
  <2>2. ExistsBijection(B, C)
    BY <2>1 DEF ExistsBijection
  <2> QED
    BY <1>4, <2>2, FS_Bijection
<1>6. A \cap C = {}
  BY <1>1, <1>2
<1> HIDE DEF C
<1>7. Cardinality(A \cup C) = Cardinality(A) + Cardinality(C) - Cardinality(A \cap C)
  BY <1>4, <1>5, FS_Union
<1>8. Cardinality(A \cap C) = 0
  BY <1>6, FS_EmptySet
<1>9. Cardinality(A \cup C) = Cardinality(A) + Cardinality(B)
  BY <1>4, <1>5, <1>7, <1>8
<1>10. Times(x, u) = Times(x, s) + Times(x, t)
  BY <1>3, <1>4, <1>9 DEF Times
<1> QED
  BY <1>10 DEF u

\* Sequences with the same items, each as often, are the same bag.
LEMMA BagsEqual ==
  ASSUME NEW E, NEW s \in Seq(E), NEW t \in Seq(E),
         \A x \in E : Times(x, s) = Times(x, t)
  PROVE  ToBag(s) = ToBag(t)
<1>1. Range(s) \subseteq E /\ Range(t) \subseteq E
  <2>1. DOMAIN s = 1 .. Len(s) /\ DOMAIN t = 1 .. Len(t)
    BY LenProperties
  <2> QED
    BY <2>1, ElementOfSeq DEF Range
<1>2. Range(s) = Range(t)
  BY <1>1, TimesTypes
<1>3. ToBag(s) = [x \in Range(s) |-> Times(x, s)]
  BY DEF ToBag, Times, At
<1>4. ToBag(t) = [x \in Range(t) |-> Times(x, t)]
  BY DEF ToBag, Times, At
<1> QED
  BY <1>1, <1>2, <1>3, <1>4

\* What a concatenation adds up to.
LEMMA Adds ==
  ASSUME NEW s \in Seq(Items), NEW t \in Seq(Items)
  PROVE  /\ s \o t \in Seq(Items)
         /\ Len(s) \in Nat /\ Len(t) \in Nat /\ Len(s \o t) = Len(s) + Len(t)
         /\ \A x \in Items : /\ Times(x, s) \in Nat /\ Times(x, t) \in Nat
                             /\ Times(x, s \o t) = Times(x, s) + Times(x, t)
<1>1. s \o t \in Seq(Items) /\ Len(s \o t) = Len(s) + Len(t)
  BY ConcatProperties
<1>2. Len(s) \in Nat /\ Len(t) \in Nat
  BY LenProperties
<1>3. \A x \in Items : /\ Times(x, s) \in Nat /\ Times(x, t) \in Nat
                       /\ Times(x, s \o t) = Times(x, s) + Times(x, t)
  BY TimesTypes, TimesConcat
<1> QED
  BY <1>1, <1>2, <1>3

-----------------------------------------------------------------------------
(* The calls of one replica on their way                                   *)

Lacks(r, kind, s) == \A i \in 1 .. Len(s) : ~(s[i].kind = kind /\ s[i].from = r)

\* No concat of r comes after its subscribe.
Ordered(r, s) ==
  \A i, k \in 1 .. Len(s) :
    i < k /\ s[i].kind = "subscribe" /\ s[i].from = r =>
      ~(s[k].kind = "concat" /\ s[k].from = r)

\* The items that r is about to append.
Part(r, m) == IF m.kind = "concat" /\ m.from = r THEN m.items ELSE <<>>
Parts(r, s) == [i \in DOMAIN s |-> Part(r, s[i])]
Own(r, s) == FlattenSeq(Parts(r, s))

LEMMA LacksAppend ==
  ASSUME NEW s \in Seq(Calls), NEW m \in Calls, NEW r, NEW kind
  PROVE  Lacks(r, kind, Append(s, m))
           <=> Lacks(r, kind, s) /\ ~(m.kind = kind /\ m.from = r)
<1> DEFINE t == Append(s, m)
           n == Len(s)
<1>1. Len(t) = n + 1 /\ n \in Nat /\ t[n + 1] = m /\ \A i \in 1 .. n : t[i] = s[i]
  BY AppendProperties, LenProperties
<1> HIDE DEF t
<1>2. \A i \in 1 .. n + 1 : i \in 1 .. n \/ i = n + 1
  BY <1>1
<1>3. \A i \in 1 .. n : i \in 1 .. n + 1
  BY <1>1
<1>4. n + 1 \in 1 .. n + 1
  BY <1>1
<1>5. Lacks(r, kind, t) <=> Lacks(r, kind, s) /\ ~(m.kind = kind /\ m.from = r)
  BY <1>1, <1>2, <1>3, <1>4 DEF Lacks
<1> QED
  BY <1>5 DEF t

LEMMA LacksTail ==
  ASSUME NEW s \in Seq(Calls), s # <<>>, NEW r, NEW kind
  PROVE  Lacks(r, kind, s)
           <=> Lacks(r, kind, Tail(s)) /\ ~(Head(s).kind = kind /\ Head(s).from = r)
<1> DEFINE t == Tail(s)
           n == Len(t)
<1>1. /\ Len(s) = n + 1 /\ n \in Nat /\ Head(s) = s[1]
      /\ \A i \in 1 .. n : t[i] = s[i + 1]
  <2>1. /\ Len(t) = Len(s) - 1 /\ Len(s) \in Nat /\ Len(s) >= 1 /\ Head(s) = s[1]
        /\ \A i \in 1 .. Len(s) - 1 : t[i] = s[i + 1]
    BY Taken, LenProperties
  <2> QED
    BY <2>1
<1> HIDE DEF t
<1>2. \A i \in 1 .. n + 1 : i = 1 \/ (i - 1 \in 1 .. n /\ (i - 1) + 1 = i)
  BY <1>1
<1>3. \A i \in 1 .. n : i + 1 \in 1 .. n + 1
  BY <1>1
<1>4. 1 \in 1 .. n + 1
  BY <1>1
<1>5. ASSUME Lacks(r, kind, s)
      PROVE  Lacks(r, kind, t) /\ ~(Head(s).kind = kind /\ Head(s).from = r)
  BY <1>1, <1>3, <1>4, <1>5 DEF Lacks
<1>6. ASSUME Lacks(r, kind, t), ~(Head(s).kind = kind /\ Head(s).from = r)
      PROVE  Lacks(r, kind, s)
  <2> SUFFICES ASSUME NEW i \in 1 .. Len(s)
               PROVE  ~(s[i].kind = kind /\ s[i].from = r)
    BY DEF Lacks
  <2>1. CASE i = 1
    BY <1>1, <1>6, <2>1
  <2>2. CASE i - 1 \in 1 .. n /\ (i - 1) + 1 = i
    <3>1. t[i - 1] = s[i]
      BY <1>1, <2>2
    <3> QED
      BY <1>6, <2>2, <3>1 DEF Lacks
  <2> QED
    BY <1>1, <1>2, <2>1, <2>2
<1> QED
  BY <1>5, <1>6 DEF t

LEMMA OrderedAppend ==
  ASSUME NEW s \in Seq(Calls), NEW m \in Calls, NEW r, Ordered(r, s),
         ~(m.kind = "concat" /\ m.from = r) \/ Lacks(r, "subscribe", s)
  PROVE  Ordered(r, Append(s, m))
<1> DEFINE t == Append(s, m)
           n == Len(s)
<1>1. Len(t) = n + 1 /\ n \in Nat /\ t[n + 1] = m /\ \A i \in 1 .. n : t[i] = s[i]
  BY AppendProperties, LenProperties
<1> HIDE DEF t
<1> SUFFICES ASSUME NEW i \in 1 .. Len(t), NEW k \in 1 .. Len(t),
                    i < k, t[i].kind = "subscribe", t[i].from = r
             PROVE  ~(t[k].kind = "concat" /\ t[k].from = r)
  <2> QED
    BY DEF Ordered, t
<1>2. i \in 1 .. n /\ t[i] = s[i]
  BY <1>1
<1>3. CASE k \in 1 .. n
  BY <1>1, <1>2, <1>3 DEF Ordered
<1>4. CASE k = n + 1
  BY <1>1, <1>2, <1>4 DEF Lacks
<1> QED
  BY <1>1, <1>3, <1>4

LEMMA OrderedTail ==
  ASSUME NEW s \in Seq(Calls), s # <<>>, NEW r, Ordered(r, s)
  PROVE  /\ Ordered(r, Tail(s))
         /\ Head(s).kind = "subscribe" /\ Head(s).from = r =>
              Lacks(r, "concat", Tail(s))
<1> DEFINE t == Tail(s)
           n == Len(t)
<1>1. /\ Len(s) = n + 1 /\ n \in Nat /\ Head(s) = s[1]
      /\ \A i \in 1 .. n : t[i] = s[i + 1]
  <2>1. /\ Len(t) = Len(s) - 1 /\ Len(s) \in Nat /\ Len(s) >= 1 /\ Head(s) = s[1]
        /\ \A i \in 1 .. Len(s) - 1 : t[i] = s[i + 1]
    BY Taken, LenProperties
  <2> QED
    BY <2>1
<1> HIDE DEF t
<1>2. \A i \in 1 .. n : i + 1 \in 1 .. Len(s) /\ 1 < i + 1
  BY <1>1
<1>3. 1 \in 1 .. Len(s)
  BY <1>1
<1>4. ASSUME NEW i \in 1 .. n, NEW k \in 1 .. n,
             i < k, t[i].kind = "subscribe", t[i].from = r
      PROVE  ~(t[k].kind = "concat" /\ t[k].from = r)
  <2>1. i + 1 < k + 1
    BY <1>1, <1>4
  <2>2. t[i] = s[i + 1] /\ t[k] = s[k + 1]
    BY <1>1
  <2> QED
    BY <1>2, <1>4, <2>1, <2>2 DEF Ordered
<1>5. Ordered(r, t)
  BY <1>4 DEF Ordered
<1>6. Head(s).kind = "subscribe" /\ Head(s).from = r => Lacks(r, "concat", t)
  BY <1>1, <1>2, <1>3 DEF Ordered, Lacks
<1> QED
  BY <1>5, <1>6 DEF t

LEMMA PartsTypes ==
  ASSUME NEW s \in Seq(Calls), NEW r
  PROVE  /\ Nested(Items, Parts(r, s)) /\ Len(Parts(r, s)) = Len(s)
         /\ \A i \in 1 .. Len(s) : Parts(r, s)[i] = Part(r, s[i])
         /\ \A m \in Calls : Part(r, m) \in Seq(Items)
<1>1. \A m \in Calls : Part(r, m) \in Seq(Items)
  BY CallFields, EmptySeq DEF Part
<1>2. /\ Len(s) \in Nat /\ DOMAIN s = 1 .. Len(s)
      /\ \A i \in 1 .. Len(s) : s[i] \in Calls
  BY LenProperties, ElementOfSeq
<1>3. Parts(r, s) \in [1 .. Len(s) -> Seq(Items)]
  BY <1>1, <1>2 DEF Parts
<1>4. Parts(r, s) \in Seq(Seq(Items)) /\ Len(Parts(r, s)) = Len(s)
  BY <1>2, <1>3
<1> QED
  BY <1>1, <1>2, <1>4 DEF Nested, Parts

LEMMA OwnTypes ==
  ASSUME NEW s \in Seq(Calls), NEW r
  PROVE  Own(r, s) \in Seq(Items)
  BY PartsTypes, FlattenTypes DEF Own

LEMMA OwnAppend ==
  ASSUME NEW s \in Seq(Calls), NEW m \in Calls, NEW r
  PROVE  Own(r, Append(s, m)) = Own(r, s) \o Part(r, m)
<1> DEFINE t == Append(s, m)
           n == Len(s)
           v == Part(r, m)
<1>1. t \in Seq(Calls) /\ Len(t) = n + 1 /\ n \in Nat /\ t[n + 1] = m
      /\ \A i \in 1 .. n : t[i] = s[i]
  BY AppendProperties, LenProperties
<1> HIDE DEF t
<1>2. /\ Nested(Items, Parts(r, s)) /\ Len(Parts(r, s)) = n
      /\ \A i \in 1 .. n : Parts(r, s)[i] = Part(r, s[i])
      /\ v \in Seq(Items)
  BY PartsTypes
<1>3. /\ Nested(Items, Parts(r, t)) /\ Len(Parts(r, t)) = n + 1
      /\ \A i \in 1 .. n + 1 : Parts(r, t)[i] = Part(r, t[i])
  BY <1>1, PartsTypes
<1>4. \A i \in 1 .. n : i \in 1 .. n + 1
  BY <1>1
<1>5. n + 1 \in 1 .. n + 1
  BY <1>1
<1>6. \A i \in 1 .. Len(Parts(r, s)) : Parts(r, t)[i] = Parts(r, s)[i]
  BY <1>1, <1>2, <1>3, <1>4
<1>7. Parts(r, t)[Len(Parts(r, s)) + 1] = v
  BY <1>1, <1>2, <1>3, <1>5
<1> HIDE DEF v
<1>8. Longer(Items, Parts(r, s), Parts(r, t), v)
  BY <1>2, <1>3, <1>6, <1>7 DEF Longer
<1>9. Own(r, t) = Own(r, s) \o v
  BY <1>8, FlattenLonger DEF Own
<1> QED
  BY <1>9 DEF t, v

LEMMA OwnTail ==
  ASSUME NEW s \in Seq(Calls), s # <<>>, NEW r
  PROVE  Own(r, s) = Part(r, Head(s)) \o Own(r, Tail(s))
<1> DEFINE t == Tail(s)
           n == Len(t)
<1>1. /\ t \in Seq(Calls) /\ Len(s) = n + 1 /\ n \in Nat /\ Head(s) = s[1]
      /\ \A i \in 1 .. n : t[i] = s[i + 1]
  <2>1. /\ t \in Seq(Calls) /\ Len(t) = Len(s) - 1 /\ Len(s) \in Nat /\ Len(s) >= 1
        /\ Head(s) = s[1]
        /\ \A i \in 1 .. Len(s) - 1 : t[i] = s[i + 1]
    BY Taken, LenProperties
  <2> QED
    BY <2>1
<1> HIDE DEF t
<1>2. /\ Nested(Items, Parts(r, s)) /\ Len(Parts(r, s)) = n + 1
      /\ \A i \in 1 .. n + 1 : Parts(r, s)[i] = Part(r, s[i])
  BY <1>1, PartsTypes
<1>3. /\ Nested(Items, Parts(r, t)) /\ Len(Parts(r, t)) = n
      /\ \A i \in 1 .. n : Parts(r, t)[i] = Part(r, t[i])
  BY <1>1, PartsTypes
<1>4. \A i \in 1 .. n : i + 1 \in 1 .. n + 1
  BY <1>1
<1>5. 1 \in 1 .. n + 1
  BY <1>1
<1>6. \A i \in 1 .. Len(Parts(r, t)) : Parts(r, t)[i] = Parts(r, s)[i + 1]
  BY <1>1, <1>2, <1>3, <1>4
<1>7. Parts(r, s)[1] = Part(r, Head(s))
  BY <1>1, <1>2, <1>5
<1>8. Shorter(Items, Parts(r, s), Parts(r, t))
  BY <1>2, <1>3, <1>6 DEF Shorter
<1>9. Own(r, s) = Parts(r, s)[1] \o Own(r, t)
  BY <1>8, FlattenShorter DEF Own
<1> QED
  BY <1>7, <1>9 DEF t

LEMMA OwnNothing ==
  ASSUME NEW s \in Seq(Calls), NEW r, Lacks(r, "concat", s)
  PROVE  Own(r, s) = <<>>
<1> DEFINE p == Parts(r, s)
           none == {}
<1>1. /\ p \in Seq(Seq(Items)) /\ Len(p) = Len(s)
      /\ \A i \in 1 .. Len(s) : p[i] = Part(r, s[i])
  BY PartsTypes DEF Nested
<1>2. DOMAIN p = 1 .. Len(p) /\ Len(p) \in Nat
  BY <1>1, LenProperties
<1>3. \A i \in 1 .. Len(p) : p[i] = <<>>
  BY <1>1 DEF Part, Lacks
<1> HIDE DEF p
<1>4. Nested(none, p)
  <2>1. <<>> \in Seq(none)
    BY EmptySeq
  <2>2. p \in Seq(Seq(Items)) /\ \A i \in 1 .. Len(p) : p[i] \in Seq(none)
    BY <1>1, <1>3, <2>1
  <2>3. p = [i \in 1 .. Len(p) |-> p[i]]
    BY <1>1, <1>2
  <2>4. p \in [1 .. Len(p) -> Seq(none)]
    BY <2>2, <2>3
  <2> HIDE DEF none
  <2>5. p \in Seq(Seq(none))
    BY <1>2, <2>4
  <2> QED
    BY <2>5 DEF Nested
<1>5. FlattenSeq(p) \in Seq(none)
  BY <1>4, FlattenTypes
<1> DEFINE f == FlattenSeq(p)
<1> HIDE DEF f
<1>6. f = <<>>
  <2>1. f \in Seq(none)
    BY <1>5 DEF f
  <2>2. ASSUME f # <<>>
        PROVE  FALSE
    <3>1. Head(f) \in none
      BY <2>1, <2>2, Taken
    <3> QED
      BY <3>1
  <2> QED
    BY <2>2
<1> QED
  BY <1>6 DEF f, p, Own

-----------------------------------------------------------------------------
(* Copies that catch up                                                    *)

Good(c) == c \in Copies /\ c.held /\ c.pages # <<>>

\* m is told to whoever has all that came before it.
Follows(m, c) == /\ m.kind \in {"concat", "metadata"}
                 /\ m.kind = "concat" => m.start <= c.count

\* c shows the items of a, b and d, in some order.
Weigh(c, a, b, d) ==
  /\ c.count = Len(a) + Len(b) + Len(d)
  /\ \A x \in Items : Times(x, Shown(c)) = Times(x, a) + Times(x, b) + Times(x, d)

\* d shows the items of c and v.
MoreBy(c, d, v) ==
  /\ d.count = c.count + Len(v)
  /\ \A x \in Items : Times(x, Shown(d)) = Times(x, Shown(c)) + Times(x, v)

\* Once the message j, an answer to a subscribe, is delivered (or from the
\* start, if j is 0), nothing is to come but what was appended since.
Catches(g, d, j) ==
  /\ j \in 0 .. Len(d)
  /\ j > 0 => d[j].kind = "subscribed"
  /\ \A i \in j .. Len(d) : Good(g[i])
  /\ \A i \in j .. Len(d) - 1 : Follows(d[i + 1], g[i])

LEMMA GoodDelivered ==
  ASSUME NEW c, Good(c), NEW m \in Messages, Follows(m, c)
  PROVE  /\ Good(Deliver(c, m))
         /\ m.kind = "concat" =>
              /\ m.items \in Seq(Items)
              /\ Shown(Deliver(c, m)) = Shown(c) \o m.items
              /\ Deliver(c, m).count = c.count + Len(m.items)
         /\ m.kind = "metadata" =>
              /\ Shown(Deliver(c, m)) = Shown(c)
              /\ Deliver(c, m).count = c.count
<1>1. c \in Copies /\ c.held /\ c.pages # <<>>
  BY DEF Good
<1>2. CASE m.kind = "concat"
  <2>1. Deliver(c, m) = Replicate(c, m)
    BY <1>2 DEF Deliver
  <2>2. m.items \in Seq(Items) /\ m.start \in Nat /\ m.start <= c.count
    BY <1>2, MessageFields DEF Follows
  <2>3. /\ Replicate(c, m) \in Copies /\ Replicate(c, m).held
        /\ Replicate(c, m).pages # <<>>
        /\ Shown(Replicate(c, m)) = Shown(c) \o m.items
        /\ Replicate(c, m).count = c.count + Len(m.items)
    BY <1>1, <2>2, ReplicateAdds
  <2> QED
    BY <1>2, <2>1, <2>2, <2>3 DEF Good
<1>3. CASE m.kind = "metadata"
  <2>1. Deliver(c, m) = Resize(c, m.id, m.size)
    BY <1>3 DEF Deliver
  <2>2. m.size \in Nat
    BY <1>3, MessageFields
  <2>3. /\ Resize(c, m.id, m.size) \in Copies /\ Resize(c, m.id, m.size).held
        /\ Resize(c, m.id, m.size).pages # <<>>
        /\ Shown(Resize(c, m.id, m.size)) = Shown(c)
        /\ Resize(c, m.id, m.size).count = c.count
    BY <1>1, <2>2, ResizeKeeps
  <2> QED
    BY <1>3, <2>1, <2>3 DEF Good
<1> QED
  BY <1>2, <1>3 DEF Follows

LEMMA GoodNumbers ==
  ASSUME NEW c, Good(c)
  PROVE  /\ c.count \in Nat /\ Shown(c) \in Seq(Items)
         /\ \A x \in Items : Times(x, Shown(c)) \in Nat
<1>1. c \in Copies
  BY DEF Good
<1>2. Shown(c) \in Seq(Items)
  BY <1>1, ShownTypes
<1> QED
  BY <1>1, <1>2, TimesTypes DEF Copies

LEMMA BothDelivered ==
  ASSUME NEW c, Good(c), NEW d, Good(d), NEW v \in Seq(Items), MoreBy(c, d, v),
         NEW m \in Messages, Follows(m, c)
  PROVE  /\ Good(Deliver(d, m)) /\ Follows(m, d)
         /\ MoreBy(Deliver(c, m), Deliver(d, m), v)
<1> DEFINE p == Deliver(c, m)
           q == Deliver(d, m)
<1>1. Len(v) \in Nat /\ \A x \in Items : Times(x, v) \in Nat
  BY LenProperties, TimesTypes
<1>2. c.count \in Nat /\ d.count \in Nat /\ d.count = c.count + Len(v)
      /\ Shown(c) \in Seq(Items) /\ Shown(d) \in Seq(Items)
      /\ \A x \in Items : /\ Times(x, Shown(c)) \in Nat
                          /\ Times(x, Shown(d)) = Times(x, Shown(c)) + Times(x, v)
  BY GoodNumbers DEF MoreBy
<1>3. Follows(m, d)
  <2>1. ASSUME m.kind = "concat"
        PROVE  m.start <= d.count
    <3>1. m.start \in Nat /\ m.start <= c.count
      BY <2>1, MessageFields DEF Follows
    <3> QED
      BY <1>1, <1>2, <3>1
  <2> QED
    BY <2>1 DEF Follows
<1>4. CASE m.kind = "concat"
  <2> DEFINE u == m.items
  <2>1. /\ u \in Seq(Items)
        /\ Shown(p) = Shown(c) \o u /\ p.count = c.count + Len(u)
        /\ Shown(q) = Shown(d) \o u /\ q.count = d.count + Len(u)
        /\ Good(q)
    BY <1>3, <1>4, GoodDelivered
  <2> HIDE DEF u, p, q
  <2>2. q.count = p.count + Len(v)
    <3>1. Len(u) \in Nat
      BY <2>1, LenProperties
    <3> QED
      BY <1>1, <1>2, <2>1, <3>1
  <2>3. ASSUME NEW x \in Items
        PROVE  Times(x, Shown(q)) = Times(x, Shown(p)) + Times(x, v)
    <3>1. /\ Times(x, Shown(p)) = Times(x, Shown(c)) + Times(x, u)
          /\ Times(x, Shown(q)) = Times(x, Shown(d)) + Times(x, u)
          /\ Times(x, u) \in Nat
      BY <1>2, <2>1, Adds
    <3>2. /\ Times(x, Shown(c)) \in Nat /\ Times(x, v) \in Nat
          /\ Times(x, Shown(d)) = Times(x, Shown(c)) + Times(x, v)
      BY <1>1, <1>2
    <3> QED
      BY <3>1, <3>2
  <2>4. MoreBy(p, q, v)
    BY <2>2, <2>3 DEF MoreBy
  <2> QED
    BY <1>3, <2>1, <2>4 DEF p, q
<1>5. CASE m.kind = "metadata"
  <2>1. /\ Shown(p) = Shown(c) /\ p.count = c.count
        /\ Shown(q) = Shown(d) /\ q.count = d.count /\ Good(q)
    BY <1>3, <1>5, GoodDelivered
  <2>2. MoreBy(p, q, v)
    <3> HIDE DEF p, q
    <3> QED
      BY <2>1 DEF MoreBy
  <2> QED
    BY <1>3, <2>1, <2>2
<1> QED
  BY <1>4, <1>5 DEF Follows

\* A concat of the replica's own, made while others' are on their way.
LEMMA CatchesConcat ==
  ASSUME NEW c \in Copies, NEW D \in Seq(Messages), NEW v \in Seq(Items),
         Catches(Course(c, D), D, 0)
  PROVE  /\ Catches(Course(ConcatTo(c, v), D), D, 0)
         /\ MoreBy(Course(c, D)[Len(D)], Course(ConcatTo(c, v), D)[Len(D)], v)
<1> DEFINE d == ConcatTo(c, v)
           g == Course(c, D)
           h == Course(d, D)
           N == Len(D)
           I == {i \in Nat : i \in 0 .. N => Good(h[i]) /\ MoreBy(g[i], h[i], v)}
<1>1. /\ N \in Nat /\ g[0] = c /\ h[0] = d
      /\ \A i \in 0 .. N - 1 : g[i + 1] = Deliver(g[i], D[i + 1])
      /\ \A i \in 0 .. N - 1 : h[i + 1] = Deliver(h[i], D[i + 1])
      /\ \A i \in 1 .. N : D[i] \in Messages
  BY CourseSteps, LenProperties, ElementOfSeq
<1>2. Catches(g, D, 0)
  OBVIOUS
<1> HIDE DEF g, h, d
<1>3. /\ \A i \in 0 .. N : Good(g[i])
      /\ \A i \in 0 .. N - 1 : Follows(D[i + 1], g[i])
  BY <1>2 DEF Catches
<1>4. 0 \in I
  <2>1. 0 \in 0 .. N /\ Good(c)
    BY <1>1, <1>3
  <2>2. d \in Copies /\ d.held = c.held /\ d.pages # <<>>
        /\ Shown(d) = Shown(c) \o v /\ d.count = c.count + Len(v)
    BY <2>1, ConcatToAdds DEF Good, d
  <2>3. \A x \in Items : Times(x, Shown(d)) = Times(x, Shown(c)) + Times(x, v)
    BY <2>1, <2>2, GoodNumbers, Adds
  <2>4. Good(d) /\ MoreBy(c, d, v)
    BY <2>1, <2>2, <2>3 DEF Good, MoreBy
  <2> QED
    BY <1>1, <2>4
<1>5. ASSUME NEW i \in Nat, i \in I
      PROVE  i + 1 \in I
  <2>1. CASE i + 1 \in 0 .. N
    <3>1. i \in 0 .. N /\ i \in 0 .. N - 1 /\ i + 1 \in 1 .. N
      BY <1>1, <2>1
    <3>2. /\ Good(g[i]) /\ Good(h[i]) /\ MoreBy(g[i], h[i], v)
          /\ Follows(D[i + 1], g[i]) /\ D[i + 1] \in Messages
          /\ g[i + 1] = Deliver(g[i], D[i + 1])
          /\ h[i + 1] = Deliver(h[i], D[i + 1])
      BY <1>1, <1>3, <1>5, <3>1
    <3>3. Good(h[i + 1]) /\ MoreBy(g[i + 1], h[i + 1], v)
      BY <3>2, BothDelivered
    <3> QED
      BY <3>3
  <2> QED
    BY <2>1
<1> HIDE DEF I
<1>6. Nat \subseteq I
  BY <1>4, <1>5, NatsIn
<1>7. \A i \in 0 .. N : Good(h[i]) /\ MoreBy(g[i], h[i], v)
  BY <1>1, <1>6 DEF I
<1>8. ASSUME NEW i \in 0 .. N - 1
      PROVE  Follows(D[i + 1], h[i])
  <2>1. i \in 0 .. N /\ i + 1 \in 1 .. N
    BY <1>1
  <2>2. /\ Good(g[i]) /\ Good(h[i]) /\ MoreBy(g[i], h[i], v)
        /\ Follows(D[i + 1], g[i]) /\ D[i + 1] \in Messages
    BY <1>1, <1>3, <1>7, <2>1
  <2> QED
    BY <2>2, BothDelivered
<1>9. Catches(h, D, 0)
  BY <1>1, <1>7, <1>8 DEF Catches
<1>10. N \in 0 .. N
  BY <1>1
<1>11. MoreBy(g[N], h[N], v)
  BY <1>7, <1>10
<1> QED
  BY <1>9, <1>11 DEF g, h, d

LEMMA CatchesAppend ==
  ASSUME NEW c, NEW D \in Seq(Messages), NEW m \in Messages, NEW j,
         Catches(Course(c, D), D, j), Follows(m, Course(c, D)[Len(D)])
  PROVE  Catches(Course(c, Append(D, m)), Append(D, m), j)
<1> DEFINE g == Course(c, D)
           E == Append(D, m)
           h == Course(c, E)
           N == Len(D)
<1>1. /\ \A i \in 0 .. N : h[i] = g[i]
      /\ h[N + 1] = Deliver(g[N], m)
  BY CourseAppend
<1>2. /\ N \in Nat /\ Len(E) = N + 1 /\ E[N + 1] = m
      /\ \A i \in 1 .. N : E[i] = D[i]
  BY AppendProperties, LenProperties
<1>3. Catches(g, D, j) /\ Follows(m, g[N])
  OBVIOUS
<1> HIDE DEF g, h, E
<1>4. /\ j \in 0 .. N /\ (j > 0 => D[j].kind = "subscribed")
      /\ \A i \in j .. N : Good(g[i])
      /\ \A i \in j .. N - 1 : Follows(D[i + 1], g[i])
  BY <1>3 DEF Catches
<1>5. Good(h[N + 1])
  <2>1. Good(g[N])
    BY <1>2, <1>4
  <2> QED
    BY <1>1, <1>3, <2>1, GoodDelivered
<1>6. ASSUME NEW i \in j .. N + 1
      PROVE  Good(h[i])
  <2>1. CASE i = N + 1
    BY <1>5, <2>1
  <2>2. CASE i # N + 1
    <3>1. i \in j .. N /\ i \in 0 .. N
      BY <1>2, <1>4, <2>2
    <3> QED
      BY <1>1, <1>4, <3>1
  <2> QED
    BY <2>1, <2>2
<1>7. ASSUME NEW i \in j .. (N + 1) - 1
      PROVE  Follows(E[i + 1], h[i])
  <2>0. i \in 0 .. N
    BY <1>2, <1>4
  <2>1. CASE i = N
    <3>1. E[i + 1] = m /\ h[i] = g[N]
      BY <1>1, <1>2, <2>0, <2>1
    <3> QED
      BY <1>3, <3>1
  <2>2. CASE i # N
    <3>1. i \in j .. N - 1 /\ i + 1 \in 1 .. N
      BY <1>2, <2>0, <2>2
    <3> QED
      BY <1>1, <1>2, <1>4, <2>0, <3>1
  <2> QED
    BY <2>1, <2>2
<1>8. j \in 0 .. N + 1 /\ (j > 0 => E[j].kind = "subscribed")
  <2>1. j \in 0 .. N + 1 /\ (j > 0 => j \in 1 .. N)
    BY <1>2, <1>4
  <2> QED
    BY <1>2, <1>4, <2>1
<1>9. Catches(h, E, j)
  BY <1>2, <1>6, <1>7, <1>8 DEF Catches
<1> QED
  BY <1>9 DEF h, E

\* An answer to a subscribe is a new beginning.
LEMMA CatchesFresh ==
  ASSUME NEW c, NEW D \in Seq(Messages), NEW m \in Messages, m.kind = "subscribed",
         Good(Deliver(Course(c, D)[Len(D)], m))
  PROVE  Catches(Course(c, Append(D, m)), Append(D, m), Len(Append(D, m)))
<1> DEFINE g == Course(c, D)
           E == Append(D, m)
           h == Course(c, E)
           N == Len(D)
<1>1. h[N + 1] = Deliver(g[N], m)
  BY CourseAppend
<1>2. N \in Nat /\ Len(E) = N + 1 /\ E[N + 1] = m
  BY AppendProperties, LenProperties
<1>3. Good(h[N + 1])
  BY <1>1
<1> HIDE DEF g, h, E
<1>4. \A i \in (N + 1) .. (N + 1) : i = N + 1
  BY <1>2
<1>5. ~\E i \in (N + 1) .. (N + 1) - 1 : TRUE
  BY <1>2
<1>6. N + 1 \in 0 .. N + 1
  BY <1>2
<1>7. Catches(h, E, N + 1)
  BY <1>2, <1>3, <1>4, <1>5, <1>6 DEF Catches
<1> QED
  BY <1>2, <1>7 DEF h, E

LEMMA CatchesTail ==
  ASSUME NEW c, NEW D \in Seq(Messages), D # <<>>, NEW j, Catches(Course(c, D), D, j),
         NEW k, k = IF j = 0 THEN 0 ELSE j - 1
  PROVE  Catches(Course(Deliver(c, Head(D)), Tail(D)), Tail(D), k)
<1> DEFINE g == Course(c, D)
           E == Tail(D)
           h == Course(Deliver(c, Head(D)), E)
           M == Len(E)
<1>1. \A i \in 0 .. Len(D) - 1 : h[i] = g[i + 1]
  BY CourseTail
<1>2. /\ M \in Nat /\ Len(D) = M + 1
      /\ \A i \in 1 .. M : E[i] = D[i + 1]
  <2>1. /\ M = Len(D) - 1 /\ Len(D) \in Nat /\ Len(D) >= 1
        /\ \A i \in 1 .. Len(D) - 1 : E[i] = D[i + 1]
    BY Taken, LenProperties
  <2> QED
    BY <2>1
<1>3. Catches(g, D, j)
  OBVIOUS
<1> HIDE DEF g, h, E
<1>4. /\ j \in 0 .. M + 1 /\ (j > 0 => D[j].kind = "subscribed")
      /\ \A i \in j .. M + 1 : Good(g[i])
      /\ \A i \in j .. (M + 1) - 1 : Follows(D[i + 1], g[i])
  BY <1>2, <1>3 DEF Catches
<1>5. /\ k \in 0 .. M /\ j \in Nat /\ k + 1 >= j
      /\ k > 0 => k + 1 = j /\ k \in 1 .. M
  BY <1>2, <1>4
<1>6. ASSUME NEW i \in k .. M
      PROVE  Good(h[i])
  <2>1. i \in 0 .. (M + 1) - 1 /\ i + 1 \in j .. M + 1
    BY <1>2, <1>5
  <2> QED
    BY <1>1, <1>2, <1>4, <2>1
<1>7. ASSUME NEW i \in k .. M - 1
      PROVE  Follows(E[i + 1], h[i])
  <2>1. /\ i \in 0 .. (M + 1) - 1 /\ i + 1 \in j .. (M + 1) - 1
        /\ i + 1 \in 1 .. M
    BY <1>2, <1>5
  <2>2. h[i] = g[i + 1] /\ E[i + 1] = D[(i + 1) + 1]
    BY <1>1, <1>2, <2>1
  <2> QED
    BY <1>4, <2>1, <2>2
<1>8. k > 0 => E[k].kind = "subscribed"
  BY <1>2, <1>4, <1>5
<1>9. Catches(h, E, k)
  BY <1>5, <1>6, <1>7, <1>8 DEF Catches
<1> QED
  BY <1>9 DEF h, E

-----------------------------------------------------------------------------
(* A copy that misses nothing                                              *)

LEMMA WeighSame ==
  ASSUME NEW c, NEW d, NEW a, NEW b, NEW u, Weigh(c, a, b, u),
         Shown(d) = Shown(c), d.count = c.count
  PROVE  Weigh(d, a, b, u)
  BY DEF Weigh

LEMMA WeighNothing ==
  ASSUME NEW c, NEW a \in Seq(Items), Shown(c) = a, c.count = Len(a)
  PROVE  Weigh(c, a, <<>>, <<>>)
<1> DEFINE e == <<>>
<1>1. e \in Seq(Items) /\ Len(e) = 0
  OBVIOUS
<1> HIDE DEF e
<1>e. e \o e = e
  <2>1. e \o <<>> = e
    BY <1>1, ConcatEmptySeq
  <2>2. \A s : s = <<>> => e \o s = e
    BY <2>1
  <2>3. e = <<>>
    BY DEF e
  <2> QED
    BY <2>2, <2>3
<1>2. Len(a) \in Nat /\ \A x \in Items : Times(x, a) \in Nat
  BY Adds
<1>3. \A x \in Items : Times(x, e) \in Nat /\ Times(x, e) = Times(x, e) + Times(x, e)
  <2>1. \A x \in Items : Times(x, e) \in Nat /\ Times(x, e \o e) = Times(x, e) + Times(x, e)
    BY <1>1, Adds
  <2> QED
    BY <1>e, <2>1
<1>4. ASSUME NEW x \in Items
      PROVE  Times(x, Shown(c)) = Times(x, a) + Times(x, e) + Times(x, e)
  <2>1. Times(x, a) \in Nat /\ Times(x, e) \in Nat
    BY <1>2, <1>3
  <2>2. Times(x, e) = 0
    BY <1>3, <2>1
  <2>3. Times(x, Shown(c)) = Times(x, a)
    OBVIOUS
  <2> QED
    BY <2>1, <2>2, <2>3
<1>5. c.count = Len(a) + Len(e) + Len(e)
  BY <1>1, <1>2
<1> QED
  BY <1>4, <1>5 DEF Weigh, e

\* Sequences of items, the lengths and the items of their concatenations.
Four(a, b, d, v) == /\ a \in Seq(Items) /\ b \in Seq(Items)
                    /\ d \in Seq(Items) /\ v \in Seq(Items)

LEMMA WeighMoves ==
  ASSUME NEW a, NEW b, NEW d, NEW v, Four(a, b, d, v), NEW c
  PROVE  /\ Weigh(c, a, b, v \o d) => Weigh(c, a, b \o v, d)
         /\ Weigh(c, a, v \o b, d) => Weigh(c, a \o v, b, d)
<1>1. /\ Len(a) \in Nat /\ Len(b) \in Nat /\ Len(d) \in Nat /\ Len(v) \in Nat
      /\ Len(v \o d) = Len(v) + Len(d) /\ Len(b \o v) = Len(b) + Len(v)
      /\ Len(v \o b) = Len(v) + Len(b) /\ Len(a \o v) = Len(a) + Len(v)
  BY Adds DEF Four
<1>2. \A x \in Items :
        /\ Times(x, a) \in Nat /\ Times(x, b) \in Nat
        /\ Times(x, d) \in Nat /\ Times(x, v) \in Nat
        /\ Times(x, v \o d) = Times(x, v) + Times(x, d)
        /\ Times(x, b \o v) = Times(x, b) + Times(x, v)
        /\ Times(x, v \o b) = Times(x, v) + Times(x, b)
        /\ Times(x, a \o v) = Times(x, a) + Times(x, v)
  BY Adds DEF Four
<1>3. ASSUME Weigh(c, a, b, v \o d)
      PROVE  Weigh(c, a, b \o v, d)
  <2>1. c.count = Len(a) + Len(b \o v) + Len(d)
    BY <1>1, <1>3 DEF Weigh
  <2>2. \A x \in Items :
          Times(x, Shown(c)) = Times(x, a) + Times(x, b \o v) + Times(x, d)
    BY <1>2, <1>3 DEF Weigh
  <2> QED
    BY <2>1, <2>2 DEF Weigh
<1>4. ASSUME Weigh(c, a, v \o b, d)
      PROVE  Weigh(c, a \o v, b, d)
  <2>1. c.count = Len(a \o v) + Len(b) + Len(d)
    BY <1>1, <1>4 DEF Weigh
  <2>2. \A x \in Items :
          Times(x, Shown(c)) = Times(x, a \o v) + Times(x, b) + Times(x, d)
    BY <1>2, <1>4 DEF Weigh
  <2> QED
    BY <2>1, <2>2 DEF Weigh
<1> QED
  BY <1>3, <1>4

LEMMA WeighMore ==
  ASSUME NEW a, NEW b, NEW d, NEW v, Four(a, b, d, v), NEW c, NEW e,
         Weigh(c, a, b, d), MoreBy(c, e, v)
  PROVE  Weigh(e, a, b, d \o v) /\ Weigh(e, a \o v, b, d)
<1>1. /\ Len(a) \in Nat /\ Len(b) \in Nat /\ Len(d) \in Nat /\ Len(v) \in Nat
      /\ Len(d \o v) = Len(d) + Len(v) /\ Len(a \o v) = Len(a) + Len(v)
  BY Adds DEF Four
<1>2. \A x \in Items :
        /\ Times(x, a) \in Nat /\ Times(x, b) \in Nat
        /\ Times(x, d) \in Nat /\ Times(x, v) \in Nat
        /\ Times(x, d \o v) = Times(x, d) + Times(x, v)
        /\ Times(x, a \o v) = Times(x, a) + Times(x, v)
  BY Adds DEF Four
<1>3. e.count = Len(a) + Len(b) + Len(d) + Len(v)
  BY DEF Weigh, MoreBy
<1>4. \A x \in Items :
        Times(x, Shown(e)) = Times(x, a) + Times(x, b) + Times(x, d) + Times(x, v)
  BY DEF Weigh, MoreBy
<1>5. Weigh(e, a, b, d \o v)
  <2>1. e.count = Len(a) + Len(b) + Len(d \o v)
    BY <1>1, <1>3
  <2>2. \A x \in Items :
          Times(x, Shown(e)) = Times(x, a) + Times(x, b) + Times(x, d \o v)
    BY <1>2, <1>4
  <2> QED
    BY <2>1, <2>2 DEF Weigh
<1>6. Weigh(e, a \o v, b, d)
  <2>1. e.count = Len(a \o v) + Len(b) + Len(d)
    BY <1>1, <1>3
  <2>2. \A x \in Items :
          Times(x, Shown(e)) = Times(x, a \o v) + Times(x, b) + Times(x, d)
    BY <1>2, <1>4
  <2> QED
    BY <2>1, <2>2 DEF Weigh
<1> QED
  BY <1>5, <1>6

\* The copy c, with the messages D to come, shows the items of the log a and
\* those of its own that are in the queue (b) and on their way (d), in the end.
Complete(c, D, a, b, d) ==
  /\ \E j \in 0 .. Len(D) : Catches(Course(c, D), D, j)
  /\ Weigh(Course(c, D)[Len(D)], a, b, d)

LEMMA CompleteCatches ==
  ASSUME NEW c, NEW D, NEW a, NEW b, NEW d, NEW j,
         Catches(Course(c, D), D, j), Weigh(Course(c, D)[Len(D)], a, b, d)
  PROVE  Complete(c, D, a, b, d)
<1>1. j \in 0 .. Len(D)
  BY DEF Catches
<1> QED
  BY <1>1 DEF Complete

LEMMA CatchesGood ==
  ASSUME NEW c, NEW D \in Seq(Messages), NEW j, Catches(Course(c, D), D, j)
  PROVE  Good(Course(c, D)[Len(D)])
<1> DEFINE g == Course(c, D)
           N == Len(D)
<1>1. Catches(g, D, j) /\ N \in Nat
  BY LenProperties
<1> HIDE DEF g
<1>2. N \in j .. N
  BY <1>1 DEF Catches
<1>3. Good(g[N])
  BY <1>1, <1>2 DEF Catches
<1> QED
  BY <1>3 DEF g

LEMMA CompleteReceive ==
  ASSUME NEW c, NEW D \in Seq(Messages), D # <<>>, NEW a, NEW b, NEW d,
         Complete(c, D, a, b, d)
  PROVE  Complete(Deliver(c, Head(D)), Tail(D), a, b, d)
<1> DEFINE x == Deliver(c, Head(D))
           E == Tail(D)
<1>1. PICK j \in 0 .. Len(D) : Catches(Course(c, D), D, j)
  BY DEF Complete
<1>2. Catches(Course(x, E), E, IF j = 0 THEN 0 ELSE j - 1)
  BY <1>1, CatchesTail
<1>3. Course(x, E)[Len(E)] = Course(c, D)[Len(D)]
  <2>1. Len(E) = Len(D) - 1 /\ Len(D) \in Nat /\ Len(D) >= 1
    BY Taken, LenProperties
  <2>2. Len(E) \in 0 .. Len(D) - 1 /\ Len(E) + 1 = Len(D)
    BY <2>1
  <2>3. Course(x, E)[Len(E)] = Course(c, D)[Len(E) + 1]
    BY <2>2, CourseTail
  <2> QED
    BY <2>2, <2>3
<1>4. Weigh(Course(x, E)[Len(E)], a, b, d)
  BY <1>3 DEF Complete
<1> HIDE DEF x, E
<1>5. Complete(x, E, a, b, d)
  BY <1>2, <1>4, CompleteCatches
<1> QED
  BY <1>5 DEF x, E

LEMMA CompleteSent ==
  ASSUME NEW c \in Copies, NEW D \in Seq(Messages),
         \A i \in 1 .. Len(D) : D[i].kind # "subscribed",
         NEW a, NEW b, NEW d, NEW v, Four(a, b, d, v), Complete(c, D, a, b, d)
  PROVE  Complete(ConcatTo(c, v), D, a, b, d \o v)
<1>1. PICK j \in 0 .. Len(D) : Catches(Course(c, D), D, j)
  BY DEF Complete
<1>2. j = 0
  <2>1. j > 0 => D[j].kind = "subscribed"
    BY <1>1 DEF Catches
  <2>2. Len(D) \in Nat
    BY LenProperties
  <2>3. j > 0 => j \in 1 .. Len(D)
    BY <2>2
  <2>4. j \in Nat
    BY <2>2
  <2> QED
    BY <2>1, <2>3, <2>4
<1>3. v \in Seq(Items) /\ Weigh(Course(c, D)[Len(D)], a, b, d)
  BY DEF Four, Complete
<1>4. /\ Catches(Course(ConcatTo(c, v), D), D, 0)
      /\ MoreBy(Course(c, D)[Len(D)], Course(ConcatTo(c, v), D)[Len(D)], v)
  BY <1>1, <1>2, <1>3, CatchesConcat
<1>5. Weigh(Course(ConcatTo(c, v), D)[Len(D)], a, b, d \o v)
  BY <1>3, <1>4, WeighMore
<1> QED
  BY <1>4, <1>5, CompleteCatches

LEMMA CompleteAnswered ==
  ASSUME NEW c, NEW D \in Seq(Messages), NEW m \in Messages, m.kind = "subscribed",
         NEW a \in Seq(Items), NEW x, x = Deliver(Course(c, D)[Len(D)], m),
         Good(x), Shown(x) = a, x.count = Len(a)
  PROVE  Complete(c, Append(D, m), a, <<>>, <<>>)
<1> DEFINE E == Append(D, m)
<1>1. Catches(Course(c, E), E, Len(E))
  BY CatchesFresh
<1>2. Course(c, E)[Len(E)] = x
  <2>1. Len(E) = Len(D) + 1
    BY AppendProperties
  <2>2. Course(c, E)[Len(D) + 1] = x
    BY CourseAppend
  <2> HIDE DEF E
  <2> QED
    BY <2>1, <2>2
<1>3. Weigh(x, a, <<>>, <<>>)
  BY WeighNothing
<1> HIDE DEF E
<1>4. Complete(c, E, a, <<>>, <<>>)
  BY <1>1, <1>2, <1>3, CompleteCatches
<1> QED
  BY <1>4 DEF E

\* A concat of another replica.
LEMMA CompleteTold ==
  ASSUME NEW c, NEW D \in Seq(Messages), NEW a, NEW b, NEW d, NEW v, Four(a, b, d, v),
         Complete(c, D, a, b, d), NEW m \in Messages, m.kind = "concat",
         m.items = v, m.start = Len(a)
  PROVE  Complete(c, Append(D, m), a \o v, b, d)
<1> DEFINE E == Append(D, m)
           s == Course(c, D)[Len(D)]
           x == Course(c, E)[Len(E)]
<1>1. PICK j \in 0 .. Len(D) : Catches(Course(c, D), D, j)
  BY DEF Complete
<1>2. Good(s) /\ Weigh(s, a, b, d)
  BY <1>1, CatchesGood DEF Complete
<1>3. Follows(m, s)
  <2>1. Len(a) \in Nat /\ Len(b) \in Nat /\ Len(d) \in Nat
    BY Adds DEF Four
  <2> HIDE DEF s
  <2>2. s.count = Len(a) + Len(b) + Len(d)
    BY <1>2 DEF Weigh
  <2>3. m.start <= s.count
    BY <2>1, <2>2
  <2> QED
    BY <2>3 DEF Follows
<1>4. Catches(Course(c, E), E, j)
  BY <1>1, <1>3, CatchesAppend
<1>5. x = Deliver(s, m)
  <2>1. Len(E) = Len(D) + 1
    BY AppendProperties
  <2>2. Course(c, E)[Len(D) + 1] = Deliver(s, m)
    BY CourseAppend
  <2> HIDE DEF E, s
  <2> QED
    BY <2>1, <2>2
<1> HIDE DEF s
<1>6. MoreBy(s, x, v)
  <2> HIDE DEF x
  <2>1. Shown(x) = Shown(s) \o v /\ x.count = s.count + Len(v)
    BY <1>2, <1>3, <1>5, GoodDelivered
  <2>2. Shown(s) \in Seq(Items) /\ v \in Seq(Items)
    BY <1>2, GoodNumbers DEF Four
  <2>3. \A y \in Items : Times(y, Shown(x)) = Times(y, Shown(s)) + Times(y, v)
    BY <2>1, <2>2, Adds
  <2> QED
    BY <2>1, <2>3 DEF MoreBy
<1>7. Weigh(x, a \o v, b, d)
  <2> HIDE DEF x
  <2> QED
    BY <1>2, <1>6, WeighMore
<1> HIDE DEF E
<1>8. Complete(c, E, a \o v, b, d)
  BY <1>4, <1>7, CompleteCatches DEF x
<1> QED
  BY <1>8 DEF E

\* The new size of a page.
LEMMA CompleteResized ==
  ASSUME NEW c, NEW D \in Seq(Messages), NEW a, NEW b, NEW d,
         Complete(c, D, a, b, d), NEW m \in Messages, m.kind = "metadata"
  PROVE  Complete(c, Append(D, m), a, b, d)
<1> DEFINE E == Append(D, m)
           s == Course(c, D)[Len(D)]
           x == Course(c, E)[Len(E)]
<1>1. PICK j \in 0 .. Len(D) : Catches(Course(c, D), D, j)
  BY DEF Complete
<1>2. Good(s) /\ Weigh(s, a, b, d)
  BY <1>1, CatchesGood DEF Complete
<1>3. Follows(m, s)
  BY DEF Follows
<1>4. Catches(Course(c, E), E, j)
  BY <1>1, <1>3, CatchesAppend
<1>5. x = Deliver(s, m)
  <2>1. Len(E) = Len(D) + 1
    BY AppendProperties
  <2>2. Course(c, E)[Len(D) + 1] = Deliver(s, m)
    BY CourseAppend
  <2> HIDE DEF E, s
  <2> QED
    BY <2>1, <2>2
<1> HIDE DEF s
<1>6. Weigh(x, a, b, d)
  <2> HIDE DEF x
  <2>1. Shown(x) = Shown(s) /\ x.count = s.count
    BY <1>2, <1>3, <1>5, GoodDelivered
  <2> QED
    BY <1>2, <2>1, WeighSame
<1> HIDE DEF E
<1>8. Complete(c, E, a, b, d)
  BY <1>4, <1>6, CompleteCatches DEF x
<1> QED
  BY <1>8 DEF E

LEMMA CompleteMoves ==
  ASSUME NEW c, NEW D, NEW a, NEW b, NEW d, NEW v, Four(a, b, d, v)
  PROVE  /\ Complete(c, D, a, b, v \o d) => Complete(c, D, a, b \o v, d)
         /\ Complete(c, D, a, v \o b, d) => Complete(c, D, a \o v, b, d)
  BY WeighMoves DEF Complete

-----------------------------------------------------------------------------
(* The order of the calls of a replica                                     *)

\* A concat of r is neither behind its subscribe in the queue q nor on its way
\* (in u) to a queue that holds a subscribe of r.
InOrder(r, q, u) ==
  /\ Ordered(r, q) /\ Ordered(r, u)
  /\ Lacks(r, "subscribe", q) \/ Lacks(r, "concat", u)

LEMMA OrderTaken ==
  ASSUME NEW r, NEW q \in Seq(Calls), NEW u \in Seq(Calls), InOrder(r, q, u)
  PROVE  /\ q # <<>> => InOrder(r, Tail(q), u)
         /\ u # <<>> => InOrder(r, q, Tail(u))
<1>1. ASSUME q # <<>>
      PROVE  InOrder(r, Tail(q), u)
  <2>1. Ordered(r, Tail(q))
    BY <1>1, OrderedTail DEF InOrder
  <2>2. Lacks(r, "subscribe", q) => Lacks(r, "subscribe", Tail(q))
    BY <1>1, LacksTail
  <2> QED
    BY <2>1, <2>2 DEF InOrder
<1>2. ASSUME u # <<>>
      PROVE  InOrder(r, q, Tail(u))
  <2>1. Ordered(r, Tail(u))
    BY <1>2, OrderedTail DEF InOrder
  <2>2. Lacks(r, "concat", u) => Lacks(r, "concat", Tail(u))
    BY <1>2, LacksTail
  <2> QED
    BY <2>1, <2>2 DEF InOrder
<1> QED
  BY <1>1, <1>2

LEMMA OrderCalled ==
  ASSUME NEW r, NEW q \in Seq(Calls), NEW u \in Seq(Calls), InOrder(r, q, u),
         NEW m \in Calls,
         m.kind # "concat" \/ (Lacks(r, "subscribe", q) /\ Lacks(r, "subscribe", u))
  PROVE  InOrder(r, q, Append(u, m))
<1>1. Ordered(r, Append(u, m))
  BY OrderedAppend DEF InOrder
<1>2. CASE m.kind # "concat"
  <2>1. Lacks(r, "concat", u) => Lacks(r, "concat", Append(u, m))
    BY <1>2, LacksAppend
  <2> QED
    BY <1>1, <2>1 DEF InOrder
<1>3. CASE Lacks(r, "subscribe", q)
  BY <1>1, <1>3 DEF InOrder
<1> QED
  BY <1>2, <1>3

LEMMA OrderForeign ==
  ASSUME NEW r, NEW q \in Seq(Calls), NEW u \in Seq(Calls), InOrder(r, q, u),
         NEW m \in Calls, m.from # r
  PROVE  InOrder(r, Append(q, m), u)
<1>1. Ordered(r, Append(q, m))
  BY OrderedAppend DEF InOrder
<1>2. Lacks(r, "subscribe", q) => Lacks(r, "subscribe", Append(q, m))
  BY LacksAppend
<1> QED
  BY <1>1, <1>2 DEF InOrder

LEMMA OrderQueued ==
  ASSUME NEW r, NEW q \in Seq(Calls), NEW u \in Seq(Calls), InOrder(r, q, u), u # <<>>,
         NEW m \in Calls, m = Head(u), m.from = r
  PROVE  InOrder(r, Append(q, m), Tail(u))
<1>1. /\ Ordered(r, Tail(u))
      /\ m.kind = "subscribe" => Lacks(r, "concat", Tail(u))
  BY OrderedTail DEF InOrder
<1>2. Lacks(r, "concat", u) <=> Lacks(r, "concat", Tail(u)) /\ ~(m.kind = "concat")
  BY LacksTail
<1>3. Ordered(r, Append(q, m))
  <2>1. m.kind = "concat" => Lacks(r, "subscribe", q)
    BY <1>2 DEF InOrder
  <2> QED
    BY <2>1, OrderedAppend DEF InOrder
<1>4. Lacks(r, "subscribe", q) /\ m.kind # "subscribe"
        => Lacks(r, "subscribe", Append(q, m))
  BY LacksAppend
<1> QED
  BY <1>1, <1>2, <1>3, <1>4 DEF InOrder

-----------------------------------------------------------------------------
(* Nothing is missed                                                       *)

\* No client calls while its own subscribe or unsubscribe is on its way, or
\* reads pages, and no delete is refused.
Orderly == ~Overlapping /\ MaxReads = 0 /\ (MaxDeletes = 0 \/ ~Referenced)

\* A delete of r is on its way: its copy is gone already.
Deleting(r) == ~(Lacks(r, "delete", queue) /\ Lacks(r, "delete", up[r]))
Whole(r) == Complete(coll[r], down[r], Log, Own(r, queue), Own(r, up[r]))
Due(r) == ~Answering(r) /\ ~Deleting(r) => Whole(r)
CaughtUp == \A r \in subscribed : Due(r)
InLine == \A r \in Replicas : InOrder(r, queue, up[r])
NInv == CInv /\ CaughtUp /\ InLine

\* A step that changes nothing of what r will show, nor of what it should.
LEMMA DueKept ==
  ASSUME NEW r, Due(r), Answering(r) => Answering(r)', Deleting(r) => Deleting(r)',
         coll'[r] = coll[r], down'[r] = down[r], Log' = Log,
         Own(r, queue') = Own(r, queue), Own(r, up'[r]) = Own(r, up[r])
  PROVE  Due(r)'
  BY DEF Due, Whole

LEMMA OwnFour ==
  ASSUME CInv, NEW r \in Replicas, NEW v \in Seq(Items)
  PROVE  /\ Four(Log, Own(r, queue), Own(r, up[r]), v)
         /\ queue # <<>> => Four(Log, Own(r, Tail(queue)), Own(r, up[r]), v)
         /\ up[r] # <<>> => Four(Log, Own(r, queue), Own(r, Tail(up[r])), v)
<1>1. /\ Log \in Seq(Items) /\ queue \in Seq(Calls) /\ up[r] \in Seq(Calls)
      /\ Own(r, queue) \in Seq(Items) /\ Own(r, up[r]) \in Seq(Items)
  BY TheTypes, LogTypes, OwnTypes DEF CInv
<1>2. ASSUME queue # <<>>
      PROVE  Own(r, Tail(queue)) \in Seq(Items)
  BY <1>1, <1>2, HeadTailProperties, OwnTypes
<1>3. ASSUME up[r] # <<>>
      PROVE  Own(r, Tail(up[r])) \in Seq(Items)
  BY <1>1, <1>3, HeadTailProperties, OwnTypes
<1> QED
  BY <1>1, <1>2, <1>3 DEF Four

\* A call of q that is not a concat: the others see nothing of it.
LEMMA CallDue ==
  ASSUME NInv, NEW q \in Replicas, NEW m \in Calls, m.from = q, Send(q, m),
         UNCHANGED <<store, subscribed, queue, phase, down>>,
         NEW r \in subscribed, coll'[r] = coll[r], r # q \/ m.kind # "concat"
  PROVE  Due(r)'
<1>1. /\ r \in Replicas /\ Due(r) /\ up \in [Replicas -> Seq(Calls)]
      /\ up[r] \in Seq(Calls)
  BY TheTypes DEF NInv, CInv, CaughtUp
<1>2. up'[r] = IF r = q THEN Append(up[r], m) ELSE up[r]
  BY <1>1 DEF Send
<1>3. Own(r, up'[r]) = Own(r, up[r])
  <2>1. CASE r = q
    <3> DEFINE s == up[r]
    <3>1. Part(r, m) = <<>>
      BY <2>1 DEF Part
    <3>2. s \in Seq(Calls) /\ up'[r] = Append(s, m)
      BY <1>1, <1>2, <2>1
    <3>3. Own(r, Append(s, m)) = Own(r, s) \o <<>>
      BY <3>1, <3>2, OwnAppend
    <3>4. Own(r, s) \in Seq(Items)
      BY <3>2, OwnTypes
    <3>5. Own(r, s) \o <<>> = Own(r, s)
      BY <3>4, ConcatEmptySeq
    <3> QED
      BY <3>2, <3>3, <3>5
  <2> QED
    BY <1>2, <2>1
<1>4. Deleting(r) => Deleting(r)'
  <2>1. CASE r = q
    <3>1. Lacks(r, "delete", up'[r]) => Lacks(r, "delete", up[r])
      BY <1>1, <1>2, <2>1, LacksAppend
    <3> QED
      BY <3>1 DEF Deleting
  <2> QED
    BY <1>2, <2>1 DEF Deleting
<1>5. (Answering(r) => Answering(r)') /\ Log' = Log /\ Own(r, queue') = Own(r, queue)
      /\ down'[r] = down[r]
  BY DEF Answering, Running, Log
<1> QED
  BY <1>1, <1>3, <1>4, <1>5, DueKept

\* A concat of q, whose subscribe has been answered.
LEMMA ConcatDue ==
  ASSUME NInv, Orderly, NEW q \in subscribed, NEW n \in BatchSizes, Concat(q, n)
  PROVE  Due(q)'
<1> DEFINE v == [i \in 1 .. n |-> concats + 1]
           m == [kind |-> "concat", from |-> q, items |-> v]
           s == up[q]
           D == down[q]
<1>1. /\ q \in Replicas /\ Due(q) /\ up \in [Replicas -> Seq(Calls)]
      /\ coll \in [Replicas -> Copies] /\ s \in Seq(Calls) /\ queue \in Seq(Calls)
      /\ D \in Seq(Messages) /\ coll[q] \in Copies
  BY TheTypes DEF NInv, CInv, CaughtUp
<1>2. v \in Seq(Items)
  <2>1. concats + 1 \in Items
    BY BoundsAssumption DEF NInv, CInv, TypeOK, Concat, Items
  <2>2. n \in Nat
    BY BoundsAssumption
  <2> QED
    BY <2>1, <2>2, ElementOfSeq
<1>3. /\ up' = [up EXCEPT ![q] = Append(@, m)]
      /\ coll' = [coll EXCEPT ![q] = ConcatTo(@, v)]
      /\ UNCHANGED <<store, subscribed, queue, phase, down>> /\ MayCall(q)
  BY DEF Concat, Send, dbVars
<1>m. m \in Calls /\ Part(q, m) = v /\ m.kind # "delete"
  BY <1>1, <1>2 DEF Calls, Part
<1> HIDE DEF v, m
<1>4. up'[q] = Append(s, m) /\ coll'[q] = ConcatTo(coll[q], v)
  BY <1>1, <1>3
<1>5. Own(q, up'[q]) = Own(q, s) \o v
  BY <1>1, <1>4, <1>m, OwnAppend
<1>6. \A i \in 1 .. Len(D) : D[i].kind # "subscribed"
  <2>1. ~Underway(q, {"subscribe", "unsubscribe"}, {"subscribed", "unsubscribed"})
    BY <1>3 DEF MayCall, Orderly
  <2>2. DOMAIN D = 1 .. Len(D)
    BY <1>1, LenProperties
  <2> QED
    BY <2>1, <2>2 DEF Underway
<1> SUFFICES ASSUME ~Answering(q)', ~Deleting(q)'
             PROVE  Whole(q)'
  BY DEF Due
<1>7. Whole(q)
  <2>1. ~Answering(q)
    BY <1>3 DEF Answering, Running
  <2>2. Lacks(q, "delete", queue) /\ Lacks(q, "delete", Append(s, m))
    BY <1>3, <1>4 DEF Deleting
  <2>3. Lacks(q, "delete", s)
    BY <1>1, <1>m, <2>2, LacksAppend
  <2> QED
    BY <1>1, <2>1, <2>2, <2>3 DEF Due, Deleting
<1>8. Complete(ConcatTo(coll[q], v), D, Log, Own(q, queue), Own(q, s) \o v)
  <2>1. Four(Log, Own(q, queue), Own(q, s), v)
    BY <1>1, <1>2, OwnFour DEF NInv
  <2>2. Complete(coll[q], D, Log, Own(q, queue), Own(q, s))
    BY <1>7 DEF Whole
  <2> HIDE DEF D, s
  <2>3. D \in Seq(Messages) /\ coll[q] \in Copies
    BY <1>1
  <2> QED
    BY <1>6, <2>1, <2>2, <2>3, CompleteSent
<1>9. Log' = Log
  BY <1>3 DEF Log
<1> QED
  BY <1>3, <1>4, <1>5, <1>8, <1>9 DEF Whole

LEMMA CallsDue ==
  ASSUME NInv, Orderly, NEW q \in Replicas,
         \/ Subscribe(q)
         \/ Unsubscribe(q)
         \/ \E n \in BatchSizes : Concat(q, n)
         \/ \E first, last \in 1 .. MaxConcats + 1 : Read(q, first, last)
         \/ Delete(q),
         NEW r \in subscribed'
  PROVE  Due(r)'
<1>t. /\ coll \in [Replicas -> Copies] /\ up \in [Replicas -> Seq(Calls)]
      /\ up[q] \in Seq(Calls) /\ queue \in Seq(Calls) /\ subscribed \subseteq Replicas
  BY TheTypes DEF NInv, CInv
<1>1. CASE Subscribe(q)
  <2> DEFINE m == [kind |-> "subscribe", from |-> q]
  <2>1. m \in Calls /\ m.from = q /\ m.kind # "concat"
    BY DEF Calls
  <2>2. Send(q, m) /\ UNCHANGED <<store, subscribed, queue, phase, down, coll>>
    BY <1>1 DEF Subscribe, dbVars
  <2> HIDE DEF m
  <2> QED
    BY <2>1, <2>2, CallDue
<1>2. CASE Unsubscribe(q)
  <2> DEFINE m == [kind |-> "unsubscribe", from |-> q]
  <2>1. m \in Calls /\ m.from = q /\ m.kind # "concat"
    BY DEF Calls
  <2>2. Send(q, m) /\ UNCHANGED <<store, subscribed, queue, phase, down, coll>>
    BY <1>2 DEF Unsubscribe, dbVars
  <2> HIDE DEF m
  <2> QED
    BY <2>1, <2>2, CallDue
<1>3. ASSUME NEW n \in BatchSizes, Concat(q, n)
      PROVE  Due(r)'
  <2> DEFINE v == [i \in 1 .. n |-> concats + 1]
             m == [kind |-> "concat", from |-> q, items |-> v]
  <2>1. v \in Seq(Items)
    <3>1. concats + 1 \in Items
      BY <1>3, BoundsAssumption DEF NInv, CInv, TypeOK, Concat, Items
    <3>2. n \in Nat
      BY BoundsAssumption
    <3> QED
      BY <3>1, <3>2, ElementOfSeq
  <2>2. /\ Send(q, m) /\ UNCHANGED <<store, subscribed, queue, phase, down>>
        /\ coll' = [coll EXCEPT ![q] = ConcatTo(@, v)]
    BY <1>3 DEF Concat, dbVars
  <2>3. m \in Calls /\ m.from = q
    BY <2>1 DEF Calls
  <2> HIDE DEF m, v
  <2>4. CASE r = q
    BY <1>3, <2>2, <2>4, ConcatDue
  <2>5. CASE r # q
    <3>1. coll'[r] = coll[r]
      BY <1>t, <2>2, <2>5
    <3> QED
      BY <2>2, <2>3, <2>5, <3>1, CallDue
  <2> QED
    BY <2>4, <2>5
<1>4. ASSUME NEW first \in 1 .. MaxConcats + 1, NEW last \in 1 .. MaxConcats + 1,
             Read(q, first, last)
      PROVE  FALSE
  <2>1. reads < MaxReads /\ reads \in Nat
    BY <1>4, BoundsAssumption DEF Read, NInv, CInv, TypeOK
  <2> QED
    BY <2>1 DEF Orderly
<1>5. CASE Delete(q)
  <2> DEFINE m == [kind |-> "delete", from |-> q]
  <2>1. m \in Calls /\ m.from = q /\ m.kind = "delete"
    BY DEF Calls
  <2>2. /\ Send(q, m) /\ UNCHANGED <<store, subscribed, queue, phase, down>>
        /\ coll' = [coll EXCEPT ![q] = None]
    BY <1>5 DEF Delete, dbVars
  <2> HIDE DEF m
  <2>3. CASE r = q
    <3>1. up'[q] = Append(up[q], m)
      BY <1>t, <2>2 DEF Send
    <3>2. ~Lacks(q, "delete", Append(up[q], m))
      BY <1>t, <2>1, LacksAppend
    <3>3. Deleting(q)'
      BY <3>1, <3>2 DEF Deleting
    <3> QED
      BY <2>3, <3>3 DEF Due
  <2>4. CASE r # q
    <3>1. coll'[r] = coll[r]
      BY <1>t, <2>2, <2>4
    <3> QED
      BY <2>1, <2>2, <2>4, <3>1, CallDue
  <2> QED
    BY <2>3, <2>4
<1> QED
  BY <1>1, <1>2, <1>3, <1>4, <1>5

LEMMA CallsInLine ==
  ASSUME NInv, Orderly, NEW q \in Replicas,
         \/ Subscribe(q)
         \/ Unsubscribe(q)
         \/ \E n \in BatchSizes : Concat(q, n)
         \/ \E first, last \in 1 .. MaxConcats + 1 : Read(q, first, last)
         \/ Delete(q)
  PROVE  InLine'
<1>t. /\ up \in [Replicas -> Seq(Calls)] /\ queue \in Seq(Calls)
      /\ \A r \in Replicas : up[r] \in Seq(Calls)
  BY TheTypes DEF NInv, CInv
<1>1. \E m \in Calls :
        /\ Send(q, m) /\ queue' = queue
        /\ m.kind = "concat" => MayCall(q)
  <2>1. CASE Subscribe(q)
    <3> DEFINE m == [kind |-> "subscribe", from |-> q]
    <3>1. m \in Calls /\ Send(q, m) /\ queue' = queue /\ m.kind # "concat"
      BY <2>1 DEF Calls, Subscribe, dbVars
    <3> HIDE DEF m
    <3> QED
      BY <3>1
  <2>2. CASE Unsubscribe(q)
    <3> DEFINE m == [kind |-> "unsubscribe", from |-> q]
    <3>1. m \in Calls /\ Send(q, m) /\ queue' = queue /\ m.kind # "concat"
      BY <2>2 DEF Calls, Unsubscribe, dbVars
    <3> HIDE DEF m
    <3> QED
      BY <3>1
  <2>3. ASSUME NEW n \in BatchSizes, Concat(q, n)
        PROVE  \E m \in Calls : /\ Send(q, m) /\ queue' = queue
                                /\ m.kind = "concat" => MayCall(q)
    <3> DEFINE v == [i \in 1 .. n |-> concats + 1]
               m == [kind |-> "concat", from |-> q, items |-> v]
    <3>1. v \in Seq(Items)
      <4>1. concats + 1 \in Items
        BY <2>3, BoundsAssumption DEF NInv, CInv, TypeOK, Concat, Items
      <4>2. n \in Nat
        BY BoundsAssumption
      <4> QED
        BY <4>1, <4>2, ElementOfSeq
    <3>2. Send(q, m) /\ queue' = queue /\ MayCall(q)
      BY <2>3 DEF Concat, dbVars
    <3>3. m \in Calls
      BY <3>1 DEF Calls
    <3> HIDE DEF m
    <3> QED
      BY <3>2, <3>3
  <2>4. ASSUME NEW first \in 1 .. MaxConcats + 1, NEW last \in 1 .. MaxConcats + 1,
               Read(q, first, last)
        PROVE  FALSE
    <3>1. reads < MaxReads /\ reads \in Nat
      BY <2>4, BoundsAssumption DEF Read, NInv, CInv, TypeOK
    <3> QED
      BY <3>1 DEF Orderly
  <2>5. CASE Delete(q)
    <3> DEFINE m == [kind |-> "delete", from |-> q]
    <3>1. m \in Calls /\ Send(q, m) /\ queue' = queue /\ m.kind # "concat"
      BY <2>5 DEF Calls, Delete, dbVars
    <3> HIDE DEF m
    <3> QED
      BY <3>1
  <2> QED
    BY <2>1, <2>2, <2>3, <2>4, <2>5
<1>2. PICK m \in Calls : /\ Send(q, m) /\ queue' = queue
                         /\ m.kind = "concat" => MayCall(q)
  BY <1>1
<1>3. \A r \in Replicas : up'[r] = IF r = q THEN Append(up[r], m) ELSE up[r]
  BY <1>t, <1>2 DEF Send
<1>4. ASSUME m.kind = "concat"
      PROVE  Lacks(q, "subscribe", queue) /\ Lacks(q, "subscribe", up[q])
  <2>1. ~Underway(q, {"subscribe", "unsubscribe"}, {"subscribed", "unsubscribed"})
    BY <1>2, <1>4 DEF MayCall, Orderly
  <2>2. DOMAIN queue = 1 .. Len(queue) /\ DOMAIN up[q] = 1 .. Len(up[q])
    BY <1>t, LenProperties
  <2>3. Lacks(q, "subscribe", queue)
    BY <2>1, <2>2 DEF Underway, Lacks
  <2>4. Lacks(q, "subscribe", up[q])
    BY <2>1, <2>2 DEF Underway, Lacks
  <2> QED
    BY <2>3, <2>4
<1>5. ASSUME NEW r \in Replicas
      PROVE  InOrder(r, queue', up'[r])
  <2>1. InOrder(r, queue, up[r])
    BY DEF NInv, InLine
  <2>2. CASE r = q
    <3>1. up'[r] = Append(up[r], m) /\ up[r] \in Seq(Calls)
      BY <1>t, <1>3, <2>2
    <3>2. InOrder(r, queue, Append(up[r], m))
      BY <1>t, <1>4, <2>1, <2>2, <3>1, OrderCalled
    <3> QED
      BY <1>2, <3>1, <3>2
  <2>3. CASE r # q
    BY <1>2, <1>3, <2>1, <2>3
  <2> QED
    BY <2>2, <2>3
<1> QED
  BY <1>5 DEF InLine

LEMMA ReceiveDue ==
  ASSUME NInv, NEW q \in Replicas, Receive(q), NEW r \in subscribed'
  PROVE  Due(r)'
<1>1. /\ coll \in [Replicas -> Copies] /\ down \in [Replicas -> Seq(Messages)]
      /\ down[q] # <<>> /\ UNCHANGED <<store, subscribed, queue, phase, up>>
      /\ coll' = [coll EXCEPT ![q] = Deliver(@, Head(down[q]))]
      /\ down' = [down EXCEPT ![q] = Tail(@)]
  BY TheTypes DEF NInv, CInv, Receive, dbVars
<1>2. Due(r) /\ r \in Replicas
  BY <1>1, TheTypes DEF NInv, CInv, CaughtUp
<1>3. CASE r = q
  <2> SUFFICES ASSUME ~Answering(r)', ~Deleting(r)'
               PROVE  Whole(r)'
    BY DEF Due
  <2>1. Whole(r)
    BY <1>1, <1>2 DEF Due, Answering, Running, Deleting
  <2>2. down[r] \in Seq(Messages) /\ down[r] # <<>>
    BY <1>1, <1>3
  <2>3. coll'[r] = Deliver(coll[r], Head(down[r])) /\ down'[r] = Tail(down[r])
    BY <1>1, <1>3
  <2>4. Complete(Deliver(coll[r], Head(down[r])), Tail(down[r]),
                 Log, Own(r, queue), Own(r, up[r]))
    BY <2>1, <2>2, CompleteReceive DEF Whole
  <2>5. Log' = Log
    BY <1>1 DEF Log
  <2> QED
    BY <1>1, <2>3, <2>4, <2>5 DEF Whole
<1>4. CASE r # q
  <2>1. coll'[r] = coll[r] /\ down'[r] = down[r]
    BY <1>1, <1>2, <1>4
  <2>2. Answering(r) => Answering(r)'
    BY <1>1 DEF Answering, Running
  <2>3. Deleting(r) => Deleting(r)'
    BY <1>1 DEF Deleting
  <2>4. Log' = Log
    BY <1>1 DEF Log
  <2>5. Own(r, queue') = Own(r, queue) /\ Own(r, up'[r]) = Own(r, up[r])
    BY <1>1
  <2> QED
    BY <1>2, <2>1, <2>2, <2>3, <2>4, <2>5, DueKept
<1> QED
  BY <1>3, <1>4

LEMMA UnsubscribeDue ==
  ASSUME NInv, NEW q \in Replicas, DbUnsubscribe(q), NEW r \in subscribed'
  PROVE  Due(r)'
<1>1. /\ down \in [Replicas -> Seq(Messages)] /\ subscribed \subseteq Replicas
      /\ UNCHANGED <<store, queue, phase, coll>> /\ r \in subscribed /\ r # q
      /\ down' = [down EXCEPT ![q] = Append(@, [kind |-> "unsubscribed"])]
  BY TheTypes DEF NInv, CInv, DbUnsubscribe
<1>2. Due(r) /\ r \in Replicas
  BY <1>1 DEF NInv, CaughtUp
<1>3. up'[r] = up[r]
  BY <1>1, <1>2, ArrivesTakes DEF NInv, DbUnsubscribe
<1>4. coll'[r] = coll[r] /\ down'[r] = down[r]
  BY <1>1, <1>2
<1>5. Answering(r) => Answering(r)'
  BY <1>1 DEF Answering, Running
<1>6. Deleting(r) => Deleting(r)'
  BY <1>1, <1>3 DEF Deleting
<1>7. Log' = Log
  BY <1>1 DEF Log
<1>8. Own(r, queue') = Own(r, queue) /\ Own(r, up'[r]) = Own(r, up[r])
  BY <1>1, <1>3
<1> QED
  BY <1>2, <1>4, <1>5, <1>6, <1>7, <1>8, DueKept

\* A call comes to the queue.
LEMMA EnqueueDue ==
  ASSUME NInv, NEW q \in Replicas, DbEnqueue(q), NEW r \in subscribed'
  PROVE  Due(r)'
<1> DEFINE m == Head(up[q])
<1>1. /\ UNCHANGED <<store, subscribed, phase, coll, down>>
      /\ queue' = Append(queue, m) /\ r \in subscribed
  BY DEF DbEnqueue
<1>2. Due(r) /\ r \in Replicas /\ queue \in Seq(Calls) /\ up[q] \in Seq(Calls)
      /\ up[r] \in Seq(Calls)
  BY <1>1, TheTypes DEF NInv, CInv, CaughtUp
<1>3. /\ m \in Calls /\ up[q] # <<>> /\ m.from = q
      /\ up'[r] = IF r = q THEN Tail(up[q]) ELSE up[r]
  BY <1>2, ArrivesTakes DEF NInv, DbEnqueue
<1>m. m = Head(up[q])
  OBVIOUS
<1> HIDE DEF m
<1>4. Answering(r) => Answering(r)'
  <2>1. ASSUME queue # <<>>
        PROVE  Head(queue') = Head(queue) /\ queue' # <<>>
    BY <1>1, <1>2, <1>3, <2>1, HeadTailAppend, AppendProperties
  <2> QED
    BY <1>1, <2>1 DEF Answering, Running
<1>5. Log' = Log
  BY <1>1 DEF Log
<1>6. Deleting(r) => Deleting(r)'
  <2> SUFFICES ASSUME Lacks(r, "delete", queue'), Lacks(r, "delete", up'[r])
               PROVE  Lacks(r, "delete", queue) /\ Lacks(r, "delete", up[r])
    BY DEF Deleting
  <2>1. Lacks(r, "delete", queue) /\ ~(m.kind = "delete" /\ m.from = r)
    BY <1>1, <1>2, <1>3, LacksAppend
  <2>2. CASE r = q
    <3>1. Lacks(r, "delete", Tail(up[r])) /\ up[r] # <<>> /\ m = Head(up[r])
      BY <1>3, <1>m, <2>2
    <3>2. Lacks(r, "delete", up[r])
      BY <1>2, <2>1, <3>1, LacksTail
    <3> QED
      BY <2>1, <3>2
  <2>3. CASE r # q
    BY <1>3, <2>1, <2>3
  <2> QED
    BY <2>2, <2>3
<1>7. Own(r, queue') = Own(r, queue) \o Part(r, m)
  BY <1>1, <1>2, <1>3, OwnAppend
<1>8. CASE r # q
  <2>1. Part(r, m) = <<>>
    BY <1>3, <1>8 DEF Part
  <2>2. Own(r, queue) \o <<>> = Own(r, queue)
    BY <1>2, OwnTypes, ConcatEmptySeq
  <2>3. Own(r, queue') = Own(r, queue)
    BY <1>7, <2>1, <2>2
  <2>4. Own(r, up'[r]) = Own(r, up[r]) /\ coll'[r] = coll[r] /\ down'[r] = down[r]
    BY <1>1, <1>3, <1>8
  <2> QED
    BY <1>2, <1>4, <1>5, <1>6, <2>3, <2>4, DueKept
<1>9. CASE r = q
  <2> SUFFICES ASSUME ~Answering(r)', ~Deleting(r)'
               PROVE  Whole(r)'
    BY DEF Due
  <2> DEFINE v == Part(r, m)
             t == Tail(up[r])
  <2>1. Whole(r)
    BY <1>2, <1>4, <1>6 DEF Due
  <2>2. up[r] # <<>> /\ m = Head(up[r]) /\ up'[r] = t
    BY <1>3, <1>9, <1>m
  <2>3. Own(r, up[r]) = v \o Own(r, t)
    BY <1>2, <2>2, OwnTail
  <2>4. v \in Seq(Items)
    BY <1>2, <1>3, PartsTypes
  <2>5. Four(Log, Own(r, queue), Own(r, t), v)
    BY <1>2, <2>2, <2>4, OwnFour DEF NInv
  <2> HIDE DEF v, t
  <2>6. Complete(coll[r], down[r], Log, Own(r, queue), v \o Own(r, t))
    BY <2>1, <2>3 DEF Whole
  <2>7. Complete(coll[r], down[r], Log, Own(r, queue) \o v, Own(r, t))
    BY <2>5, <2>6, CompleteMoves
  <2>8. Own(r, queue') = Own(r, queue) \o v
    BY <1>7 DEF v
  <2> QED
    BY <1>1, <1>5, <2>2, <2>7, <2>8 DEF Whole
<1> QED
  BY <1>8, <1>9

LEMMA GrantDue ==
  ASSUME NInv, DbGrant, NEW r \in subscribed'
  PROVE  Due(r)'
<1>1. /\ UNCHANGED <<store, subscribed, queue, coll, up, down>>
      /\ phase = "waiting" /\ r \in subscribed
  BY DEF DbGrant
<1>2. Due(r) /\ ~Answering(r)
  BY <1>1 DEF NInv, CaughtUp, Answering, Running
<1>3. Deleting(r) => Deleting(r)'
  BY <1>1 DEF Deleting
<1>4. Log' = Log
  BY <1>1 DEF Log
<1>5. /\ Own(r, queue') = Own(r, queue) /\ Own(r, up'[r]) = Own(r, up[r])
      /\ coll'[r] = coll[r] /\ down'[r] = down[r]
  BY <1>1
<1> QED
  BY <1>2, <1>3, <1>4, <1>5, DueKept

\* The steps of the database but for its jobs keep the calls in line.
LEMMA HandleInLine ==
  ASSUME NInv, NEW q \in Replicas, Handle(q) \/ Receive(q) \/ DbGrant
  PROVE  InLine'
<1>1. /\ queue \in Seq(Calls) /\ \A r \in Replicas : up[r] \in Seq(Calls)
      /\ \A r \in Replicas : InOrder(r, queue, up[r])
  BY TheTypes DEF NInv, CInv, InLine
<1>2. CASE DbUnsubscribe(q)
  <2>1. /\ queue' = queue /\ up[q] # <<>>
        /\ \A r \in Replicas : up'[r] = IF r = q THEN Tail(up[q]) ELSE up[r]
    BY <1>2, ArrivesTakes DEF DbUnsubscribe, NInv
  <2>2. ASSUME NEW r \in Replicas
        PROVE  InOrder(r, queue', up'[r])
    <3>1. InOrder(q, queue, Tail(up[q]))
      BY <1>1, <2>1, OrderTaken
    <3> QED
      BY <1>1, <2>1, <3>1
  <2> QED
    BY <2>2 DEF InLine
<1>3. CASE DbEnqueue(q)
  <2> DEFINE m == Head(up[q])
  <2>1. /\ queue' = Append(queue, m) /\ up[q] # <<>> /\ m \in Calls /\ m.from = q
        /\ \A r \in Replicas : up'[r] = IF r = q THEN Tail(up[q]) ELSE up[r]
    BY <1>3, ArrivesTakes DEF DbEnqueue, NInv
  <2>2. m = Head(up[q])
    OBVIOUS
  <2> HIDE DEF m
  <2>3. ASSUME NEW r \in Replicas
        PROVE  InOrder(r, queue', up'[r])
    <3>1. CASE r = q
      <4>1. InOrder(q, Append(queue, m), Tail(up[q]))
        BY <1>1, <2>1, <2>2, OrderQueued
      <4> QED
        BY <2>1, <3>1, <4>1
    <3>2. CASE r # q
      <4>1. InOrder(r, Append(queue, m), up[r])
        BY <1>1, <2>1, <3>2, OrderForeign
      <4> QED
        BY <2>1, <3>2, <4>1
    <3> QED
      BY <3>1, <3>2
  <2> QED
    BY <2>3 DEF InLine
<1>4. CASE Receive(q) \/ DbGrant
  <2>1. queue' = queue /\ up' = up
    BY <1>4 DEF Receive, DbGrant, dbVars
  <2> QED
    BY <1>1, <2>1 DEF InLine
<1> QED
  BY <1>2, <1>3, <1>4 DEF Handle

LEMMA JobInLine ==
  ASSUME NInv, Job
  PROVE  InLine'
<1>1. /\ queue \in Seq(Calls) /\ \A r \in Replicas : up[r] \in Seq(Calls)
      /\ \A r \in Replicas : InOrder(r, queue, up[r])
  BY TheTypes DEF NInv, CInv, InLine
<1>2. CASE DbSubscribeAdds
  <2>1. queue' = queue /\ up' = up
    BY <1>2 DEF DbSubscribeAdds
  <2> QED
    BY <1>1, <2>1 DEF InLine
<1>3. CASE ~DbSubscribeAdds
  <2>1. queue' = Tail(queue) /\ up' = up
    BY <1>3 DEF Job, DbSubscribeAnswers, DbRead, DbConcatNothing, DbConcat,
                DbDeleteFails, DbDelete, Done
  <2>2. queue # <<>>
    <3>1. phase # "waiting"
      BY <1>3 DEF Job, DbSubscribeAnswers, DbRead, DbConcatNothing, DbConcat,
                  DbDeleteFails, DbDelete, Running
    <3> QED
      BY <3>1 DEF NInv, CInv, Control, QueueRuns
  <2>3. \A r \in Replicas : InOrder(r, Tail(queue), up[r])
    BY <1>1, <2>2, OrderTaken
  <2> QED
    BY <2>1, <2>3 DEF InLine
<1> QED
  BY <1>2, <1>3

\* A job of another kind ends.
LEMMA DoneDue ==
  ASSUME NInv, queue # <<>>, Done, NEW r \in subscribed, ~Answering(r),
         Head(queue).kind # "delete" \/ Head(queue).from # r,
         Part(r, Head(queue)) = <<>>,
         UNCHANGED <<store, coll, up>>, down'[r] = down[r]
  PROVE  Due(r)'
<1>1. /\ r \in Replicas /\ Due(r) /\ queue \in Seq(Calls)
      /\ queue' = Tail(queue) /\ Tail(queue) \in Seq(Calls)
  BY TheTypes, HeadTailProperties DEF NInv, CInv, CaughtUp, Done
<1>2. Own(r, queue') = Own(r, queue)
  <2>1. Own(r, queue) = <<>> \o Own(r, Tail(queue))
    BY <1>1, OwnTail
  <2>2. Own(r, Tail(queue)) \in Seq(Items)
    BY <1>1, OwnTypes
  <2>3. <<>> \o Own(r, Tail(queue)) = Own(r, Tail(queue))
    BY <2>2, ConcatEmptySeq
  <2> QED
    BY <1>1, <2>1, <2>3
<1>3. Deleting(r) => Deleting(r)'
  <2>1. Lacks(r, "delete", Tail(queue)) => Lacks(r, "delete", queue)
    BY <1>1, LacksTail
  <2> QED
    BY <1>1, <2>1 DEF Deleting
<1>4. Log' = Log
  BY DEF Log
<1>5. Own(r, up'[r]) = Own(r, up[r]) /\ coll'[r] = coll[r]
  OBVIOUS
<1> QED
  BY <1>1, <1>2, <1>3, <1>4, <1>5, DueKept

\* The pages of the answer hold the log, and no concat of r is in the queue.
LEMMA AnswersDue ==
  ASSUME NInv, DbSubscribeAnswers, NEW r \in subscribed'
  PROVE  Due(r)'
<1> DEFINE q == Head(queue).from
           pages == Snapshot(1, Len(store.pages))
           m == [kind |-> "subscribed", pages |-> pages]
<1>1. /\ queue # <<>> /\ phase = "reading" /\ Exists
      /\ Head(queue).kind = "subscribe" /\ q \in Replicas
      /\ m \in Messages /\ Tells(q, m) /\ Done
      /\ UNCHANGED <<store, subscribed, coll, wants, up, counters>>
  BY AnswersIs DEF NInv
<1>2. /\ r \in subscribed /\ r \in Replicas /\ store \in Stores /\ queue \in Seq(Calls)
      /\ up[r] \in Seq(Calls) /\ down[r] \in Seq(Messages) /\ coll[r] \in Copies
  BY <1>1, TheTypes DEF NInv, CInv
<1>3. /\ pages \in Seq(Pages) /\ pages # <<>> /\ ItemsOf(pages) = Log
      /\ Log \in Seq(Items)
  <2>1. /\ pages \in Seq(Pages) /\ Len(pages) = Len(store.pages)
        /\ ItemsOf(pages) = Log
    BY <1>2, SnapshotAll
  <2>2. Len(store.pages) >= 1 /\ Log \in Seq(Items) /\ Len(store.pages) \in Nat
    BY <1>1, <1>2, LogTypes
  <2> HIDE DEF pages
  <2>3. pages # <<>>
    BY <2>1, <2>2
  <2> QED
    BY <2>1, <2>2, <2>3
<1>m. m.kind = "subscribed" /\ m.pages = pages /\ q = Head(queue).from
  OBVIOUS
<1> HIDE DEF q, pages, m
<1>4. CASE r # q
  <2>1. ~Answering(r) /\ Part(r, Head(queue)) = <<>> /\ Head(queue).kind # "delete"
    BY <1>1, <1>4, <1>m DEF Answering, Part
  <2>2. down'[r] = down[r]
    BY <1>1, <1>2, <1>4 DEF Tells
  <2> QED
    BY <1>1, <1>2, <2>1, <2>2, DoneDue
<1>5. CASE r = q
  <2> DEFINE x == Deliver(Settled(r), m)
  <2>1. down'[r] = Append(down[r], m)
    BY <1>1, <1>2, <1>5 DEF Tells
  <2>2. /\ x \in Copies /\ x.held /\ x.pages = pages /\ Shown(x) = Log
        /\ x.count = Len(Log)
    BY <1>3, <1>m, SubscribedIs
  <2>x. x = Deliver(Course(coll[r], down[r])[Len(down[r])], m)
    BY DEF Settled
  <2> HIDE DEF x
  <2>3. Good(x)
    BY <1>3, <2>2 DEF Good
  <2>4. Complete(coll[r], Append(down[r], m), Log, <<>>, <<>>)
    BY <1>1, <1>2, <1>3, <1>m, <2>2, <2>3, <2>x, CompleteAnswered
  <2>5. InOrder(r, queue, up[r])
    BY <1>2 DEF NInv, InLine
  <2>6. Own(r, Tail(queue)) = <<>>
    <3>1. Lacks(r, "concat", Tail(queue))
      BY <1>1, <1>2, <1>5, <1>m, <2>5, OrderedTail DEF InOrder
    <3>2. Tail(queue) \in Seq(Calls)
      BY <1>1, <1>2, HeadTailProperties
    <3> QED
      BY <3>1, <3>2, OwnNothing
  <2>7. Own(r, up[r]) = <<>>
    <3>1. ~Lacks(r, "subscribe", queue)
      BY <1>1, <1>2, <1>5, <1>m, LacksTail
    <3>2. Lacks(r, "concat", up[r])
      BY <2>5, <3>1 DEF InOrder
    <3> QED
      BY <1>2, <3>2, OwnNothing
  <2>8. Log' = Log /\ coll' = coll /\ up' = up /\ queue' = Tail(queue)
    BY <1>1 DEF Log, Done
  <2>9. Whole(r)'
    BY <2>1, <2>4, <2>6, <2>7, <2>8 DEF Whole
  <2> QED
    BY <2>9 DEF Due
<1> QED
  BY <1>4, <1>5

\* A concat goes from the queue to the log and to the subscribers' copies, its
\* own replica's having it already.
LEMMA AppendedDue ==
  ASSUME NInv, DbConcat, NEW r \in subscribed'
  PROVE  Due(r)'
<1> DEFINE job == Head(queue)
           a == TheConcat(job)
           b == TheUpdate(PagesAfter(job))
           v == job.items
<1>1. /\ phase = "opening" /\ queue # <<>> /\ job \in Calls /\ job.kind = "concat"
      /\ v \in Seq(Items) /\ a \in Messages /\ b \in Messages /\ Log' = Log \o v
      /\ Done /\ UNCHANGED <<subscribed, coll, wants, up, counters>>
      /\ \A q \in Replicas :
           down'[q] = IF q \notin subscribed THEN down[q]
                      ELSE IF q = job.from THEN Append(down[q], b)
                      ELSE Append(Append(down[q], a), b)
  BY ConcatIs DEF NInv
<1>2. /\ r \in subscribed /\ r \in Replicas /\ Due(r) /\ queue \in Seq(Calls)
      /\ Tail(queue) \in Seq(Calls)
      /\ up[r] \in Seq(Calls) /\ down[r] \in Seq(Messages) /\ coll[r] \in Copies
  BY <1>1, TheTypes, HeadTailProperties DEF NInv, CInv, CaughtUp
<1>a. /\ a.kind = "concat" /\ a.items = v /\ a.start = Len(Log) /\ b.kind = "metadata"
      /\ v = job.items /\ job = Head(queue)
  BY DEF TheConcat, TheUpdate
<1> HIDE DEF a, b, v, job
<1> SUFFICES ASSUME ~Deleting(r)'
             PROVE  Whole(r)'
  BY DEF Due
<1>3. queue' = Tail(queue) /\ coll' = coll /\ up' = up
  BY <1>1 DEF Done
<1>4. Whole(r)
  <2>1. ~Answering(r)
    BY <1>1 DEF Answering, Running
  <2>2. Lacks(r, "delete", Tail(queue)) /\ Lacks(r, "delete", up[r])
    BY <1>3 DEF Deleting
  <2>3. Lacks(r, "delete", queue)
    BY <1>1, <1>2, <1>a, <2>2, LacksTail
  <2> QED
    BY <1>2, <2>1, <2>2, <2>3 DEF Due, Deleting
<1>5. Own(r, queue) = Part(r, job) \o Own(r, Tail(queue))
  BY <1>1, <1>2, <1>a, OwnTail
<1>6. Four(Log, Own(r, Tail(queue)), Own(r, up[r]), v)
  BY <1>1, <1>2, OwnFour DEF NInv
<1> DEFINE D == down[r]
           o == Own(r, Tail(queue))
           u == Own(r, up[r])
<1>7. CASE r = job.from
  <2>1. Part(r, job) = v
    BY <1>1, <1>7, <1>a DEF Part
  <2>2. Complete(coll[r], D, Log, v \o o, u)
    BY <1>4, <1>5, <2>1 DEF Whole
  <2>3. down'[r] = Append(D, b) /\ D \in Seq(Messages)
    BY <1>1, <1>2, <1>7
  <2> HIDE DEF D, o, u
  <2>4. Complete(coll[r], D, Log \o v, o, u)
    BY <1>6, <2>2, CompleteMoves DEF o, u
  <2>5. Complete(coll[r], Append(D, b), Log \o v, o, u)
    BY <1>1, <1>a, <2>3, <2>4, CompleteResized
  <2> QED
    BY <1>1, <1>3, <2>3, <2>5 DEF Whole, o, u
<1>8. CASE r # job.from
  <2>1. Part(r, job) = <<>>
    BY <1>8 DEF Part
  <2>2. <<>> \o o = o
    BY <1>2, OwnTypes, ConcatEmptySeq
  <2>3. Complete(coll[r], D, Log, o, u)
    <3>1. Own(r, queue) = o
      BY <1>5, <2>1, <2>2
    <3> QED
      BY <1>4, <3>1 DEF Whole
  <2>4. down'[r] = Append(Append(D, a), b) /\ D \in Seq(Messages)
    BY <1>1, <1>2, <1>8
  <2> HIDE DEF D, o, u
  <2>5. Append(D, a) \in Seq(Messages)
    BY <1>1, <2>4, AppendProperties
  <2>6. Complete(coll[r], Append(D, a), Log \o v, o, u)
    BY <1>1, <1>6, <1>a, <2>3, <2>4, CompleteTold DEF o, u
  <2>7. Complete(coll[r], Append(Append(D, a), b), Log \o v, o, u)
    BY <1>1, <1>a, <2>5, <2>6, CompleteResized
  <2> QED
    BY <1>1, <1>3, <2>4, <2>7 DEF Whole, o, u
<1> QED
  BY <1>7, <1>8

LEMMA JobDue ==
  ASSUME NInv, Orderly, Job, NEW r \in subscribed'
  PROVE  Due(r)'
<1>1. CASE DbSubscribeAdds
  <2>1. /\ store' = Recreated /\ subscribed' = subscribed \cup {Head(queue).from}
        /\ phase = "opening" /\ phase' = "reading" /\ Head(queue).kind = "subscribe"
        /\ UNCHANGED <<queue, coll, up, down>>
    BY <1>1 DEF DbSubscribeAdds, Running
  <2>2. queue # <<>>
    BY <2>1 DEF NInv, CInv, Control, QueueRuns
  <2>3. CASE r = Head(queue).from
    <3>1. Answering(r)'
      BY <2>1, <2>2, <2>3 DEF Answering, Running
    <3> QED
      BY <3>1 DEF Due
  <2>4. CASE r # Head(queue).from
    <3>1. r \in subscribed
      BY <2>1, <2>4
    <3>2. store' = store
      BY <2>1, <3>1, SubscriberFacts, RecreatedTypes DEF NInv
    <3>3. Due(r) /\ ~Answering(r)
      BY <2>4, <3>1 DEF Answering, NInv, CaughtUp
    <3>4. Deleting(r) => Deleting(r)'
      BY <2>1 DEF Deleting
    <3>5. Log' = Log
      BY <3>2 DEF Log
    <3>6. /\ Own(r, queue') = Own(r, queue) /\ Own(r, up'[r]) = Own(r, up[r])
          /\ coll'[r] = coll[r] /\ down'[r] = down[r]
      BY <2>1
    <3> QED
      BY <3>3, <3>4, <3>5, <3>6, DueKept
  <2> QED
    BY <2>3, <2>4
<1>2. CASE DbSubscribeAnswers
  BY <1>2, AnswersDue
<1>3. CASE DbRead
  <2>1. reads # 0 /\ reads \in 0 .. MaxReads
    BY <1>3, ReadIs DEF NInv, CInv, TypeOK
  <2> QED
    BY <2>1 DEF Orderly
<1>4. CASE DbConcatNothing
  <2>1. /\ queue # <<>> /\ Done /\ phase = "opening"
        /\ UNCHANGED <<store, subscribed, coll, up, down>>
    BY <1>4, SilentIs DEF NInv
  <2>2. Head(queue).kind = "concat" /\ Head(queue).items = <<>>
    BY <1>4 DEF DbConcatNothing, Running
  <2>3. ~Answering(r) /\ Part(r, Head(queue)) = <<>> /\ Head(queue).kind # "delete"
    BY <2>1, <2>2 DEF Answering, Running, Part
  <2>4. down'[r] = down[r] /\ r \in subscribed
    BY <2>1
  <2> QED
    BY <2>1, <2>3, <2>4, DoneDue
<1>5. CASE DbConcat
  BY <1>5, AppendedDue
<1>6. CASE DbDeleteFails
  <2>1. /\ subscribed' = subscribed /\ deletes # 0 /\ deletes \in 0 .. MaxDeletes
        /\ ~Exists \/ Referenced
    <3>1. Head(queue).kind = "delete" /\ (~Exists \/ Referenced)
      BY <1>6 DEF DbDeleteFails, Running
    <3>2. UNCHANGED subscribed /\ deletes # 0
      BY <1>6, <3>1, SilentIs DEF NInv
    <3> QED
      BY <3>1, <3>2 DEF NInv, CInv, TypeOK
  <2>2. Exists
    BY <2>1, SubscriberFacts DEF NInv
  <2>3. MaxDeletes # 0
    BY <2>1
  <2> QED
    BY <2>1, <2>2, <2>3 DEF Orderly
<1>7. CASE DbDelete
  BY <1>7 DEF DbDelete
<1> QED
  BY <1>1, <1>2, <1>3, <1>4, <1>5, <1>6, <1>7 DEF Job

LEMMA NextWhole == Orderly /\ NInv /\ [Next]_vars => NInv'
<1> SUFFICES ASSUME Orderly, NInv, [Next]_vars PROVE NInv'
  OBVIOUS
<1>1. CInv'
  BY NextControl DEF NInv
<1>2. CASE \E q \in Replicas :
             \/ Subscribe(q)
             \/ Unsubscribe(q)
             \/ \E n \in BatchSizes : Concat(q, n)
             \/ \E first, last \in 1 .. MaxConcats + 1 : Read(q, first, last)
             \/ Delete(q)
  <2>1. \A r \in subscribed' : Due(r)'
    BY <1>2, CallsDue
  <2>2. InLine'
    BY <1>2, CallsInLine
  <2> QED
    BY <1>1, <2>1, <2>2 DEF NInv, CaughtUp
<1>3. CASE \E q \in Replicas : Handle(q) \/ Receive(q)
  <2>1. \A r \in subscribed' : Due(r)'
    BY <1>3, UnsubscribeDue, EnqueueDue, ReceiveDue DEF Handle
  <2>2. InLine'
    BY <1>3, HandleInLine
  <2> QED
    BY <1>1, <2>1, <2>2 DEF NInv, CaughtUp
<1>4. CASE DbGrant
  <2>1. \A r \in subscribed' : Due(r)'
    BY <1>4, GrantDue
  <2>2. InLine'
    BY <1>4 DEF DbGrant, NInv, InLine
  <2> QED
    BY <1>1, <2>1, <2>2 DEF NInv, CaughtUp
<1>5. CASE Job
  <2>1. \A r \in subscribed' : Due(r)'
    BY <1>5, JobDue
  <2>2. InLine'
    BY <1>5, JobInLine
  <2> QED
    BY <1>1, <2>1, <2>2 DEF NInv, CaughtUp
<1>6. CASE UNCHANGED vars
  <2>1. UNCHANGED <<store, subscribed, queue, phase, coll, up, down>>
    BY <1>6 DEF vars
  <2>2. ASSUME NEW r \in subscribed
        PROVE  Due(r)'
    <3>1. Due(r)
      BY DEF NInv, CaughtUp
    <3>2. Answering(r) => Answering(r)'
      BY <2>1 DEF Answering, Running
    <3>3. Deleting(r) => Deleting(r)'
      BY <2>1 DEF Deleting
    <3>4. Log' = Log
      BY <2>1 DEF Log
    <3>5. /\ Own(r, queue') = Own(r, queue) /\ Own(r, up'[r]) = Own(r, up[r])
          /\ coll'[r] = coll[r] /\ down'[r] = down[r]
      BY <2>1
    <3> QED
      BY <3>1, <3>2, <3>3, <3>4, <3>5, DueKept
  <2>3. InLine'
    BY <2>1 DEF NInv, InLine
  <2> QED
    BY <1>1, <2>1, <2>2, <2>3 DEF NInv, CaughtUp
<1> QED
  BY <1>2, <1>3, <1>4, <1>5, <1>6 DEF Next

LEMMA InitWhole == Init => NInv
<1> SUFFICES ASSUME Init PROVE NInv
  OBVIOUS
<1>1. CInv
  BY InitControl
<1>2. CaughtUp
  BY DEF Init, CaughtUp
<1>3. ASSUME NEW r \in Replicas
      PROVE  InOrder(r, queue, up[r])
  <2> DEFINE none == <<>>
  <2>1. queue = none /\ up[r] = none /\ Len(none) = 0
    BY DEF Init
  <2> HIDE DEF none
  <2>2. Ordered(r, none) /\ Lacks(r, "subscribe", none)
    BY <2>1 DEF Ordered, Lacks
  <2> QED
    BY <2>1, <2>2 DEF InOrder
<1> QED
  BY <1>1, <1>2, <1>3 DEF NInv, InLine

\* With nothing on its way a copy that is whole shows the log's items.
LEMMA WholeQuiet ==
  ASSUME NInv, Quiet, NEW r \in subscribed
  PROVE  /\ ToBag(Shown(coll[r])) = ToBag(Log)
         /\ coll[r].count = Len(Log)
<1> DEFINE none == <<>>
           c == coll[r]
<1>1. /\ r \in Replicas /\ c \in Copies /\ Log \in Seq(Items) /\ Due(r)
  BY TheTypes, LogTypes DEF NInv, CInv, CaughtUp
<1>2. /\ queue = none /\ up[r] = none /\ down[r] = none
      /\ none \in Seq(Calls) /\ none \in Seq(Messages) /\ none \in Seq(Items)
      /\ Len(none) = 0
  BY <1>1 DEF Quiet
<1>3. ~Answering(r)
  BY <1>2 DEF Answering
<1>o. none = <<>>
  OBVIOUS
<1> HIDE DEF none, c
<1>4. Lacks(r, "delete", none) /\ Lacks(r, "concat", none)
  BY <1>2 DEF Lacks
<1>5. Own(r, none) = none
  BY <1>2, <1>4, <1>o, OwnNothing
<1>6. Complete(c, none, Log, none, none)
  BY <1>1, <1>2, <1>3, <1>4, <1>5 DEF Due, Deleting, Whole, c
<1>7. Course(c, none)[0] = c
  BY <1>2, CourseSteps
<1>8. Weigh(c, Log, none, none)
  BY <1>2, <1>6, <1>7 DEF Complete
<1>9. Len(Log) \in Nat /\ \A x \in Items : Times(x, Log) \in Nat
  BY <1>1, Adds
<1>10. \A x \in Items : Times(x, none) = 0
  <2>1. \A x : At(x, none) \subseteq 1 .. 0
    BY <1>2, TimesTypes
  <2>2. 1 .. 0 = {}
    OBVIOUS
  <2>3. \A x : At(x, none) = {}
    BY <2>1, <2>2
  <2> QED
    BY <2>3, FS_EmptySet DEF Times
<1>11. c.count = Len(Log)
  BY <1>2, <1>8, <1>9 DEF Weigh
<1>12. \A x \in Items : Times(x, Shown(c)) = Times(x, Log)
  BY <1>8, <1>9, <1>10 DEF Weigh
<1>13. ToBag(Shown(c)) = ToBag(Log)
  BY <1>1, <1>12, ShownTypes, BagsEqual
<1> QED
  BY <1>11, <1>13 DEF c

\* Once nothing is on its way every subscribed replica, writer or not, shows
\* each item of the database once and has its totalCount: what a concat appends
\* is in the pages of the answer, comes in a broadcast, or is the replica's own.
\* (For clients that wait for the answer to their subscribe, read no pages and
\* whose deletes are not refused.)
THEOREM NoneMissed == Orderly => (Spec => []NothingMissed)
<1>1. Init /\ Orderly => NInv
  BY InitWhole
<1>2. Orderly /\ NInv /\ [Next]_vars => NInv'
  BY NextWhole
<1>3. NInv => NothingMissed
  BY WholeQuiet DEF NothingMissed
<1> SUFFICES ASSUME Orderly PROVE Spec => []NothingMissed
  OBVIOUS
<1>4. Init => NInv
  BY <1>1
<1>5. NInv /\ [Next]_vars => NInv'
  BY <1>2
<1> QED
  BY <1>3, <1>4, <1>5, PTL DEF Spec
===============================================================================
