---------------------------- MODULE KyjuRootProofs ----------------------------
(***************************************************************************)
(* Theorems about KyjuRoot, for any replicas, paths, writers and bounds:   *)
(* types, the order of writes, the agreement on sessions, and what a       *)
(* replica shows once its messages are in: at the paths it does not write, *)
(* then at those it alone writes.                                          *)
(***************************************************************************)
EXTENDS KyjuRoot, FiniteSetTheorems, SequenceTheorems,
        WellFoundedInduction, TLAPS

\* A set that holds 0 and, with a number, the next one holds every number.
LEMMA NatsIn ==
  ASSUME NEW S, 0 \in S, \A n \in Nat : n \in S => n + 1 \in S
  PROVE  Nat \subseteq S
<1> DEFINE R == OpToRel(<, Nat)
           T == Nat \ S
<1> SUFFICES ASSUME T # {} PROVE FALSE
  OBVIOUS
<1>1. IsWellFoundedOn(R, Nat)
  BY NatLessThanWellFounded
<1>2. \A i, j \in Nat : i < j => <<i, j>> \in R
  BY DEF OpToRel
<1> HIDE DEF R
<1>3. PICK m \in T : \A n \in T : ~(<<n, m>> \in R)
  BY <1>1, WFMin
<1>4. m \in Nat \ {0}
  OBVIOUS
<1>5. m - 1 \in Nat /\ m - 1 < m /\ (m - 1) + 1 = m
  BY <1>4
<1>6. m - 1 \notin T
  BY <1>2, <1>3, <1>5
<1> QED
  BY <1>3, <1>5, <1>6

\* Broadcasts are finite.
TInv == TypeOK /\ IsFiniteSet(sessions)

------------------------------------------------------------------------------
(* Messages *)

\* A message's kind tells which record it is.
LEMMA UpKinds ==
  ASSUME NEW m \in UpMessages
  PROVE  /\ m.kind \in {"write", "connect", "disconnect"}
         /\ m.kind = "write" => m \in WriteMessages
         /\ m.kind = "connect" => m.await \in Awaits
         /\ m.kind = "disconnect" => m.await \in Awaits /\ m.sid \in Sids
  BY DEF UpMessages, WriteMessages

\* What a message to a replica carries, by kind.
LEMMA DownKinds ==
  ASSUME NEW m \in DownMessages
  PROVE  /\ m.kind \in {"ack", "connected", "replicated", "reconnect"}
         /\ m.kind = "ack" => m.await \in Awaits /\ m.ok \in BOOLEAN
         /\ m.kind = "connected" =>
              m.await \in Awaits /\ m.sid \in Sids /\ m.root \in Roots
         /\ m.kind = "replicated" => m.key \in Keys /\ m.val \in Values
  BY DEF DownMessages

\* The messages the handlers build are messages of the protocol.
LEMMA Built ==
  /\ \A w \in WriteMessages : w \in UpMessages
  /\ \A a \in Awaits : ConnectMessage(a) \in UpMessages
  /\ \A a \in Awaits, sid \in Sids : DisconnectMessage(sid, a) \in UpMessages
  /\ \A a \in Awaits, ok \in BOOLEAN :
       [kind |-> "ack", await |-> a, ok |-> ok] \in DownMessages
  /\ \A a \in Awaits, sid \in Sids, rt \in Roots :
       [kind |-> "connected", await |-> a, sid |-> sid, root |-> rt]
         \in DownMessages
  /\ \A k \in Keys, v \in Values :
       [kind |-> "replicated", key |-> k, val |-> v] \in DownMessages
  /\ [kind |-> "reconnect"] \in DownMessages
  BY DEF UpMessages, WriteMessages, DownMessages, ConnectMessage,
         DisconnectMessage

\* What a channel holds after a message was sent on it, or taken off it.
LEMMA Sent ==
  ASSUME NEW S, NEW s \in Seq(S), NEW m \in S
  PROVE  /\ Append(s, m) \in Seq(S)
         /\ Len(Append(s, m)) = Len(s) + 1
         /\ \A i \in 1 .. Len(s) : Append(s, m)[i] = s[i]
         /\ Append(s, m)[Len(s) + 1] = m
  OBVIOUS

\* What is left of a queue whose head is taken.
LEMMA Taken ==
  ASSUME NEW S, NEW s \in Seq(S), s # <<>>
  PROVE  /\ Head(s) \in S /\ Head(s) = s[1] /\ Len(s) >= 1
         /\ Tail(s) \in Seq(S)
         /\ Len(Tail(s)) = Len(s) - 1
         /\ \A i \in 1 .. Len(s) - 1 : Tail(s)[i] = s[i + 1]
  BY HeadTailProperties, EmptySeq

\* The one-element channel and the empty one.
LEMMA Single ==
  ASSUME NEW S, NEW m \in S
  PROVE  /\ <<m>> \in Seq(S) /\ <<>> \in Seq(S)
         /\ Len(<<m>>) = 1 /\ <<m>>[1] = m /\ Len(<<>>) = 0
  OBVIOUS

\* The same message several times.
LEMMA Repeated ==
  ASSUME NEW S, NEW m \in S, NEW n \in Nat
  PROVE  /\ [i \in 1 .. n |-> m] \in Seq(S)
         /\ Len([i \in 1 .. n |-> m]) = n
         /\ \A i \in 1 .. n : [j \in 1 .. n |-> m][i] = m
<1>1. [i \in 1 .. n |-> m] \in [1 .. n -> S]
  OBVIOUS
<1>2. [i \in 1 .. n |-> m] \in Seq(S)
  BY <1>1, SeqDef
<1> QED
  BY <1>2, LenProperties

------------------------------------------------------------------------------
(* Types *)

\* Sending keeps the up channels typed, whether or not the transport is open.
LEMMA SendTypes ==
  ASSUME TypeOK, NEW r \in Replicas, NEW m \in UpMessages, Send(r, m)
  PROVE  up' \in [Replicas -> Seq(UpMessages)]
<1>1. Append(up[r], m) \in Seq(UpMessages)
  BY Sent DEF TypeOK
<1> QED
  BY <1>1 DEF Send, TypeOK

\* Posting keeps the down channels typed.
LEMMA PostTypes ==
  ASSUME TypeOK, NEW out \in [Replicas -> Seq(DownMessages)], Post(out)
  PROVE  down' \in [Replicas -> Seq(DownMessages)]
<1>1. \A q \in Replicas : down[q] \o out[q] \in Seq(DownMessages)
  BY ConcatProperties DEF TypeOK
<1> QED
  BY <1>1 DEF Post, TypeOK

\* A message for one replica and none for the others.
LEMMA OnlyTypes ==
  ASSUME NEW r \in Replicas, NEW m \in DownMessages
  PROVE  Only(r, m) \in [Replicas -> Seq(DownMessages)]
  BY DEF Only

\* What a write sends: its ack, then a copy for every other session.
WriteOut(w) ==
  LET replicated == [kind |-> "replicated", key |-> w.key, val |-> w.val]
      others(q) == {s \in sessions : s[1] = q /\ s # w.sid}
  IN  [q \in Replicas |->
        (IF q = w.sid[1] THEN <<WriteAck(w, TRUE)>> ELSE <<>>)
          \o [i \in 1 .. Cardinality(others(q)) |-> replicated]]

\* Neither of which begins or ends a session.
LEMMA WriteOutTypes ==
  ASSUME TInv, NEW w \in WriteMessages
  PROVE  /\ WriteOut(w) \in [Replicas -> Seq(DownMessages)]
         /\ \A q \in Replicas : \A i \in 1 .. Len(WriteOut(w)[q]) :
              \/ WriteOut(w)[q][i].kind = "replicated"
              \/ /\ WriteOut(w)[q][i].kind = "ack"
                 /\ WriteOut(w)[q][i].await.then = "write"
<1> DEFINE accepted == WriteAck(w, TRUE)
           replicated == [kind |-> "replicated", key |-> w.key, val |-> w.val]
           others(q) == {s \in sessions : s[1] = q /\ s # w.sid}
           ack(q) == IF q = w.sid[1] THEN <<accepted>> ELSE <<>>
           copies(q) == [i \in 1 .. Cardinality(others(q)) |-> replicated]
<1>1. /\ replicated \in DownMessages
      /\ replicated.kind = "replicated"
  BY Built DEF WriteMessages
<1>2. /\ accepted \in DownMessages
      /\ accepted.kind = "ack"
      /\ accepted.await.then = "write"
  <2>1. [then |-> "write", req |-> w.val] \in Awaits
    BY BoundsAssumption DEF WriteMessages, Awaits, Values
  <2> QED
    BY <2>1, Built DEF WriteAck
<1> HIDE DEF accepted, replicated
<1>3. ASSUME NEW q \in Replicas
      PROVE  /\ ack(q) \in Seq(DownMessages)
             /\ \A i \in 1 .. Len(ack(q)) : ack(q)[i] = accepted
  <2> HIDE DEF WriteAck
  <2>1. ack(q) = <<accepted>> \/ ack(q) = <<>>
    OBVIOUS
  <2>2. /\ <<accepted>> \in Seq(DownMessages)
        /\ Len(<<accepted>>) = 1
        /\ <<accepted>>[1] = accepted
        /\ <<>> \in Seq(DownMessages)
        /\ Len(<<>>) = 0
    BY <1>2, Single
  <2> QED
    BY <2>1, <2>2
<1>4. ASSUME NEW q \in Replicas
      PROVE  /\ copies(q) \in Seq(DownMessages)
             /\ \A i \in 1 .. Len(copies(q)) : copies(q)[i] = replicated
  <2>1. others(q) \subseteq sessions
    OBVIOUS
  <2>2. Cardinality(others(q)) \in Nat
    BY <2>1, FS_Subset, FS_CardinalityType DEF TInv
  <2> HIDE DEF others
  <2> QED
    BY <1>1, <2>2, Repeated
<1> HIDE DEF ack, copies
<1>5. ASSUME NEW q \in Replicas
      PROVE  /\ ack(q) \o copies(q) \in Seq(DownMessages)
             /\ \A i \in 1 .. Len(ack(q) \o copies(q)) :
                  (ack(q) \o copies(q))[i] \in {accepted, replicated}
  <2> DEFINE s == ack(q)
             t == copies(q)
  <2> HIDE DEF s, t
  <2>1. /\ s \in Seq(DownMessages) /\ \A i \in 1 .. Len(s) : s[i] = accepted
        /\ t \in Seq(DownMessages) /\ \A i \in 1 .. Len(t) : t[i] = replicated
    BY <1>3, <1>4 DEF s, t
  <2>2. /\ s \o t \in Seq(DownMessages) /\ Len(s \o t) = Len(s) + Len(t)
        /\ Len(s) \in Nat /\ Len(t) \in Nat
        /\ \A i \in 1 .. Len(s) + Len(t) :
             (s \o t)[i] = IF i <= Len(s) THEN s[i] ELSE t[i - Len(s)]
    BY <2>1, ConcatProperties, LenProperties
  <2>3. ASSUME NEW i \in 1 .. Len(s \o t)
        PROVE  (s \o t)[i] \in {accepted, replicated}
    <3>1. CASE i <= Len(s)
      BY <2>1, <2>2, <3>1
    <3>2. CASE i > Len(s)
      BY <2>1, <2>2, <3>2
    <3> QED
      BY <2>2, <3>1, <3>2
  <2> QED
    BY <2>2, <2>3 DEF s, t
<1>6. WriteOut(w) = [q \in Replicas |-> ack(q) \o copies(q)]
  BY DEF WriteOut, ack, copies, accepted, replicated
<1>7. \A q \in Replicas : WriteOut(w)[q] = ack(q) \o copies(q)
  BY <1>6
<1>8. WriteOut(w) \in [Replicas -> Seq(DownMessages)]
  BY <1>5, <1>6
<1>9. ASSUME NEW q \in Replicas, NEW i \in 1 .. Len(WriteOut(w)[q])
      PROVE  WriteOut(w)[q][i] \in {accepted, replicated}
  BY <1>5, <1>7
<1> QED
  BY <1>1, <1>2, <1>8, <1>9

\* An applied write keeps the root, the queue and the channels typed.
LEMMA ApplyWriteTypes ==
  ASSUME TInv, NEW w \in WriteMessages, ApplyWrite(w)
  PROVE  /\ root' \in Roots
         /\ down' \in [Replicas -> Seq(DownMessages)]
         /\ Post(WriteOut(w))
<1>1. Post(WriteOut(w))
  BY DEF ApplyWrite, WriteOut
<1>2. down' \in [Replicas -> Seq(DownMessages)]
  BY <1>1, WriteOutTypes, PostTypes DEF TInv
<1>3. root' \in Roots
  BY DEF ApplyWrite, TInv, TypeOK, Roots, WriteMessages
<1> QED
  BY <1>1, <1>2, <1>3

\* Taking a message off a channel keeps the channels' types.
LEMMA PopTypes ==
  ASSUME TypeOK, NEW r \in Replicas, down[r] # <<>>, Pop(r)
  PROVE  down' \in [Replicas -> Seq(DownMessages)] /\ Head(down[r]) \in DownMessages
<1>1. Tail(down[r]) \in Seq(DownMessages) /\ Head(down[r]) \in DownMessages
  BY Taken DEF TypeOK
<1> QED
  BY <1>1 DEF Pop, TypeOK

\* Taking a message off an up channel keeps the channels' types.
LEMMA ArrivesTypes ==
  ASSUME TypeOK, NEW r \in Replicas, NEW kind, Arrives(r, kind)
  PROVE  /\ up' \in [Replicas -> Seq(UpMessages)]
         /\ Head(up[r]) \in UpMessages /\ Head(up[r]).kind = kind
<1>1. Tail(up[r]) \in Seq(UpMessages) /\ Head(up[r]) \in UpMessages
  BY Taken DEF TypeOK, Arrives
<1> QED
  BY <1>1 DEF Arrives, TypeOK

States == {Disconnected} \cup [kind : {"connected"}, sid : Sids, root : Roots]

\* A replica's state stays typed when a message is delivered.
LEMMA DeliverTypes ==
  ASSUME NEW s \in States, NEW m \in DownMessages
  PROVE  Deliver(s, m) \in States
<1> USE DEF States, Disconnected
<1>1. CASE m.kind = "connected"
  BY <1>1, DownKinds DEF Deliver, Connected
<1>2. CASE m.kind = "ack"
  BY <1>2 DEF Deliver
<1>3. CASE m.kind = "replicated" /\ s.kind = "connected"
  <2>1. [s EXCEPT !.root[m.key] = m.val] \in States
    BY <1>3, DownKinds DEF Roots
  <2> QED
    BY <1>3, <2>1 DEF Deliver
<1>4. CASE m.kind = "reconnect" \/ (m.kind = "replicated" /\ s.kind # "connected")
  BY <1>4 DEF Deliver
<1> QED
  BY <1>1, <1>2, <1>3, <1>4, DownKinds

\* The request a replica registers is one it may await.
LEMMA RequestTypes ==
  ASSUME TypeOK, NEW r \in Replicas,
         NEW then \in {"connect", "disconnect", "rcDisconnect"}
  PROVE  /\ [then |-> then, req |-> requests[r] + 1] \in Awaits
         /\ [requests EXCEPT ![r] = @ + 1] \in [Replicas -> Nat]
         /\ [awaiting EXCEPT ![r] =
              @ \cup {[then |-> then, req |-> requests[r] + 1]}]
              \in [Replicas -> SUBSET Awaits]
<1>1. [then |-> then, req |-> requests[r] + 1] \in Awaits
  BY DEF TypeOK, Awaits
<1> QED
  BY <1>1 DEF TypeOK

\* The initial state is typed.
LEMMA InitTInv == Init => TInv
<1> SUFFICES ASSUME Init PROVE TInv
  OBVIOUS
<1>1. root \in Roots /\ writes \in Values /\ reconnects \in 0 .. MaxReconnects
  BY BoundsAssumption DEF Init, Roots, Values
<1>2. sessions \in SUBSET Sids /\ IsFiniteSet(sessions) /\ locked \in BOOLEAN
  BY FS_EmptySet DEF Init
<1>3. /\ queue \in Seq(WriteMessages)
      /\ up \in [Replicas -> Seq(UpMessages)]
      /\ down \in [Replicas -> Seq(DownMessages)]
  BY EmptySeq DEF Init
<1>4. /\ state \in [Replicas -> States]
      /\ awaiting \in [Replicas -> SUBSET Awaits]
      /\ requests \in [Replicas -> Nat]
      /\ open \in SUBSET Replicas
  BY DEF Init, States
<1> QED
  BY <1>1, <1>2, <1>3, <1>4 DEF TInv, TypeOK, States

------------------------------------------------------------------------------
\* Every step keeps the types.
LEMMA StepTInv == TInv /\ [Next]_vars => TInv'
<1> SUFFICES ASSUME TInv, [Next]_vars
             PROVE  TInv'
  OBVIOUS
<1> USE DEF TInv
<1>1. ASSUME NEW r \in Replicas, Connect(r)
      PROVE  TInv'
  <2> DEFINE a == [then |-> "connect", req |-> requests[r] + 1]
  <2>1. /\ requests' = [requests EXCEPT ![r] = @ + 1]
        /\ awaiting' = [awaiting EXCEPT ![r] = @ \cup {a}]
        /\ Send(r, ConnectMessage(a))
        /\ UNCHANGED <<dbVars, state, down, open, writes, reconnects>>
    BY <1>1 DEF Connect, Request
  <2>2. /\ requests' \in [Replicas -> Nat]
        /\ awaiting' \in [Replicas -> SUBSET Awaits] /\ a \in Awaits
    BY <2>1, RequestTypes
  <2>3. up' \in [Replicas -> Seq(UpMessages)]
    BY <2>1, <2>2, Built, SendTypes
  <2> QED
    BY <2>1, <2>2, <2>3 DEF TypeOK, dbVars
<1>2. ASSUME NEW r \in Replicas, Disconnect(r)
      PROVE  TInv'
  <2> DEFINE a == [then |-> "disconnect", req |-> requests[r] + 1]
  <2>1. /\ requests' = [requests EXCEPT ![r] = @ + 1]
        /\ awaiting' = [awaiting EXCEPT ![r] = @ \cup {a}]
        /\ Send(r, DisconnectMessage(state[r].sid, a))
        /\ UNCHANGED <<dbVars, state, down, open, writes, reconnects>>
    BY <1>2 DEF Disconnect, Request
  <2>2. /\ requests' \in [Replicas -> Nat]
        /\ awaiting' \in [Replicas -> SUBSET Awaits] /\ a \in Awaits
    BY <2>1, RequestTypes
  <2>3. state[r].sid \in Sids
    BY <1>2 DEF Disconnect, IsConnected, TypeOK, Disconnected
  <2>4. up' \in [Replicas -> Seq(UpMessages)]
    BY <2>1, <2>2, <2>3, Built, SendTypes
  <2> QED
    BY <2>1, <2>2, <2>4 DEF TypeOK, dbVars
<1>3. ASSUME NEW r \in Replicas, NEW k \in Keys, Write(r, k)
      PROVE  TInv'
  <2>1. writes' \in Values /\ writes' = writes + 1
    BY <1>3, BoundsAssumption DEF Write, TypeOK, Values
  <2>2. state' \in [Replicas -> States]
    <3>1. /\ state[r] \in [kind : {"connected"}, sid : Sids, root : Roots]
          /\ state' = [state EXCEPT ![r].root[k] = writes + 1]
      BY <1>3 DEF Write, IsConnected, TypeOK, Disconnected
    <3>2. [state[r] EXCEPT !.root[k] = writes + 1] \in States
      BY <2>1, <3>1 DEF Roots, States
    <3> QED
      BY <3>1, <3>2 DEF TypeOK, States
  <2>3. awaiting' \in [Replicas -> SUBSET Awaits]
    <3>1. [then |-> "write", req |-> writes + 1] \in Awaits
      BY <2>1, BoundsAssumption DEF Awaits, Values
    <3> QED
      BY <1>3, <3>1 DEF Write, TypeOK
  <2>4. up' \in [Replicas -> Seq(UpMessages)]
    <3> DEFINE w == [kind |-> "write", sid |-> state[r].sid,
                     key |-> k, val |-> writes + 1]
    <3>1. w \in UpMessages
      BY <1>3, <2>1, Built
      DEF Write, IsConnected, TypeOK, Disconnected, WriteMessages
    <3>2. Send(r, w)
      BY <1>3 DEF Write
    <3> QED
      BY <3>1, <3>2, SendTypes
  <2>5. UNCHANGED <<dbVars, requests, down, open, reconnects>>
    BY <1>3 DEF Write
  <2> QED
    BY <2>1, <2>2, <2>3, <2>4, <2>5 DEF TypeOK, dbVars, States
<1>4. ASSUME NEW r \in Replicas, ReceiveAck(r)
      PROVE  TInv'
  <2>1. /\ down' \in [Replicas -> Seq(DownMessages)]
        /\ Head(down[r]) \in DownMessages
    BY <1>4, PopTypes DEF ReceiveAck
  <2>2. Deliver(state[r], Head(down[r])) \in States
    BY <2>1, DeliverTypes DEF TypeOK, States
  <2>3. state' \in [Replicas -> States]
    BY <1>4, <2>2 DEF ReceiveAck, TypeOK, States
  <2>4. awaiting' \in [Replicas -> SUBSET Awaits]
    BY <1>4 DEF ReceiveAck, TypeOK
  <2>5. UNCHANGED <<dbVars, requests, up, open, writes, reconnects>>
    BY <1>4 DEF ReceiveAck
  <2> QED
    BY <2>1, <2>3, <2>4, <2>5 DEF TypeOK, dbVars, States
<1>5. ASSUME NEW r \in Replicas, ReceiveReconnectAck(r)
      PROVE  TInv'
  <2> DEFINE a == [then |-> "connect", req |-> requests[r] + 1]
  <2>1. /\ down' \in [Replicas -> Seq(DownMessages)]
        /\ Head(down[r]) \in DownMessages
    BY <1>5, PopTypes DEF ReceiveReconnectAck
  <2>2. Deliver(state[r], Head(down[r])) \in States
    BY <2>1, DeliverTypes DEF TypeOK, States
  <2>3. state' \in [Replicas -> States]
    BY <1>5, <2>2 DEF ReceiveReconnectAck, TypeOK, States
  <2>4. requests' \in [Replicas -> Nat] /\ a \in Awaits
    BY <1>5, RequestTypes DEF ReceiveReconnectAck
  <2>5. awaiting' \in [Replicas -> SUBSET Awaits]
    BY <1>5, <2>4 DEF ReceiveReconnectAck, TypeOK
  <2>6. up' \in [Replicas -> Seq(UpMessages)]
    BY <1>5, <2>4, Built, SendTypes DEF ReceiveReconnectAck
  <2>7. UNCHANGED <<dbVars, open, writes, reconnects>>
    BY <1>5 DEF ReceiveReconnectAck
  <2> QED
    BY <2>1, <2>3, <2>4, <2>5, <2>6, <2>7 DEF TypeOK, dbVars, States
<1>6. ASSUME NEW r \in Replicas, ReceiveReplicated(r)
      PROVE  TInv'
  <2>1. /\ down' \in [Replicas -> Seq(DownMessages)]
        /\ Head(down[r]) \in DownMessages
    BY <1>6, PopTypes DEF ReceiveReplicated
  <2>2. Deliver(state[r], Head(down[r])) \in States
    BY <2>1, DeliverTypes DEF TypeOK, States
  <2>3. state' \in [Replicas -> States]
    BY <1>6, <2>2 DEF ReceiveReplicated, TypeOK, States
  <2>4. UNCHANGED <<dbVars, awaiting, requests, up, open, writes, reconnects>>
    BY <1>6 DEF ReceiveReplicated
  <2> QED
    BY <2>1, <2>3, <2>4 DEF TypeOK, dbVars, States
<1>7. ASSUME NEW r \in Replicas, ReceiveReconnect(r)
      PROVE  TInv'
  <2> DEFINE a == [then |-> "rcDisconnect", req |-> requests[r] + 1]
  <2>1. down' \in [Replicas -> Seq(DownMessages)]
    BY <1>7, PopTypes DEF ReceiveReconnect
  <2>2. UNCHANGED <<dbVars, state, open, writes, reconnects>>
    BY <1>7 DEF ReceiveReconnect
  <2>3. CASE IsConnected(r)
    <3>1. /\ requests' = [requests EXCEPT ![r] = @ + 1]
          /\ awaiting' = [awaiting EXCEPT ![r] = @ \cup {a}]
          /\ Send(r, DisconnectMessage(state[r].sid, a))
      BY <1>7, <2>3 DEF ReceiveReconnect, Request
    <3>2. /\ requests' \in [Replicas -> Nat]
          /\ awaiting' \in [Replicas -> SUBSET Awaits] /\ a \in Awaits
      BY <3>1, RequestTypes
    <3>3. state[r].sid \in Sids
      BY <2>3 DEF IsConnected, TypeOK, Disconnected
    <3>4. up' \in [Replicas -> Seq(UpMessages)]
      BY <3>1, <3>2, <3>3, Built, SendTypes
    <3> QED
      BY <2>1, <2>2, <3>2, <3>4 DEF TypeOK, dbVars
  <2>4. CASE ~IsConnected(r)
    <3>1. UNCHANGED <<requests, awaiting, up>>
      BY <1>7, <2>4 DEF ReceiveReconnect
    <3> QED
      BY <2>1, <2>2, <3>1 DEF TypeOK, dbVars
  <2> QED
    BY <2>3, <2>4
<1>8. ASSUME NEW r \in Replicas, DbConnect(r)
      PROVE  TInv'
  <2> DEFINE a == Head(up[r]).await
             sid == <<r, a.req>>
             m == [kind |-> "connected", await |-> a, sid |-> sid, root |-> root]
  <2>1. /\ up' \in [Replicas -> Seq(UpMessages)] /\ a \in Awaits
    BY <1>8, ArrivesTypes, UpKinds DEF DbConnect
  <2>2. sid \in Sids
    BY <2>1 DEF Awaits, Sids
  <2>3. sessions' \in SUBSET Sids /\ IsFiniteSet(sessions')
    BY <1>8, <2>2, FS_AddElement DEF DbConnect, TypeOK
  <2>4. m \in DownMessages
    BY <2>1, <2>2, Built DEF TypeOK
  <2>5. Post(Only(r, m))
    BY <1>8 DEF DbConnect
  <2>6. down' \in [Replicas -> Seq(DownMessages)]
    BY <2>4, <2>5, OnlyTypes, PostTypes
  <2>7. UNCHANGED <<root, locked, queue, state, awaiting, requests, open,
                    writes, reconnects>>
    BY <1>8 DEF DbConnect
  <2> QED
    BY <2>1, <2>3, <2>6, <2>7 DEF TypeOK
<1>9. ASSUME NEW r \in Replicas, DbDisconnect(r)
      PROVE  TInv'
  <2> DEFINE m == Head(up[r])
             ok == m.sid \in sessions
             out == [kind |-> "ack", await |-> m.await, ok |-> ok]
  <2>1. /\ up' \in [Replicas -> Seq(UpMessages)] /\ m.await \in Awaits
    BY <1>9, ArrivesTypes, UpKinds DEF DbDisconnect
  <2>2. sessions' \in SUBSET Sids /\ IsFiniteSet(sessions')
    BY <1>9, FS_RemoveElement DEF DbDisconnect, TypeOK
  <2>3. out \in DownMessages
    <3>1. ok \in BOOLEAN
      OBVIOUS
    <3> HIDE DEF ok, m
    <3> QED
      BY <2>1, <3>1, Built
  <2>4. Post(Only(r, out))
    BY <1>9 DEF DbDisconnect
  <2>5. down' \in [Replicas -> Seq(DownMessages)]
    BY <2>3, <2>4, OnlyTypes, PostTypes
  <2>6. UNCHANGED <<root, locked, queue, state, awaiting, requests, open,
                    writes, reconnects>>
    BY <1>9 DEF DbDisconnect
  <2> QED
    BY <2>1, <2>2, <2>5, <2>6 DEF TypeOK
<1>10. ASSUME NEW r \in Replicas, DbWrite(r)
       PROVE  TInv'
  <2> DEFINE w == Head(up[r])
  <2>1. /\ up' \in [Replicas -> Seq(UpMessages)] /\ w \in WriteMessages
    BY <1>10, ArrivesTypes, UpKinds DEF DbWrite
  <2>2. UNCHANGED <<sessions, locked, state, awaiting, requests, open, writes,
                    reconnects>>
    BY <1>10 DEF DbWrite
  <2>3. CASE w.sid \notin sessions
    <3>1. Post(Only(r, WriteAck(w, FALSE))) /\ UNCHANGED <<root, queue>>
      BY <1>10, <2>3 DEF DbWrite
    <3>2. [then |-> "write", req |-> w.val] \in Awaits
      BY <2>1, BoundsAssumption DEF WriteMessages, Awaits, Values
    <3>3. WriteAck(w, FALSE) \in DownMessages
      BY <3>2, Built DEF WriteAck
    <3>4. down' \in [Replicas -> Seq(DownMessages)]
      BY <3>1, <3>3, OnlyTypes, PostTypes
    <3> QED
      BY <2>1, <2>2, <3>1, <3>4 DEF TypeOK
  <2>4. CASE w.sid \in sessions /\ locked
    <3>1. queue' = Append(queue, w) /\ UNCHANGED <<root, down>>
      BY <1>10, <2>4 DEF DbWrite
    <3>2. queue' \in Seq(WriteMessages)
      BY <2>1, <3>1, Sent DEF TypeOK
    <3> QED
      BY <2>1, <2>2, <3>1, <3>2 DEF TypeOK
  <2>5. CASE w.sid \in sessions /\ ~locked
    <3>1. ApplyWrite(w) /\ UNCHANGED queue
      BY <1>10, <2>5 DEF DbWrite
    <3> HIDE DEF w
    <3>2. root' \in Roots /\ down' \in [Replicas -> Seq(DownMessages)]
      BY <2>1, <3>1, ApplyWriteTypes
    <3> QED
      BY <2>1, <2>2, <3>1, <3>2 DEF TypeOK
  <2> QED
    BY <2>3, <2>4, <2>5
<1>11. CASE DbGrant
  <2>1. /\ Head(queue) \in WriteMessages /\ queue' \in Seq(WriteMessages)
    BY <1>11, Taken DEF DbGrant, TypeOK
  <2>2. root' \in Roots /\ down' \in [Replicas -> Seq(DownMessages)]
    BY <1>11, <2>1, ApplyWriteTypes DEF DbGrant
  <2>3. UNCHANGED <<sessions, locked, state, awaiting, requests, up, open,
                    writes, reconnects>>
    BY <1>11 DEF DbGrant
  <2> QED
    BY <2>1, <2>2, <2>3 DEF TypeOK
<1>12. CASE FlushTakes \/ FlushReturns
  BY <1>12 DEF FlushTakes, FlushReturns, TypeOK
<1>13. CASE ReconnectClients
  <2> DEFINE of(q) == {s \in sessions : s[1] = q}
             m == [kind |-> "reconnect"]
             out == [q \in Replicas |-> [i \in 1 .. Cardinality(of(q)) |-> m]]
  <2>1. ASSUME NEW q \in Replicas
        PROVE  [i \in 1 .. Cardinality(of(q)) |-> m] \in Seq(DownMessages)
    <3>1. of(q) \subseteq sessions
      OBVIOUS
    <3>2. Cardinality(of(q)) \in Nat
      BY <3>1, FS_Subset, FS_CardinalityType
    <3>3. m \in DownMessages
      BY Built
    <3> HIDE DEF of, m
    <3> QED
      BY <3>2, <3>3, Repeated
  <2>2. out \in [Replicas -> Seq(DownMessages)]
    BY <2>1
  <2>3. Post(out)
    BY <1>13 DEF ReconnectClients
  <2>4. down' \in [Replicas -> Seq(DownMessages)]
    BY <2>2, <2>3, PostTypes
  <2>5. reconnects' \in 0 .. MaxReconnects
    BY <1>13, BoundsAssumption DEF ReconnectClients, TypeOK
  <2>6. UNCHANGED <<dbVars, state, awaiting, requests, up, open, writes>>
    BY <1>13 DEF ReconnectClients
  <2> QED
    BY <2>4, <2>5, <2>6 DEF TypeOK, dbVars
<1>14. ASSUME NEW r \in Replicas, Close(r)
       PROVE  TInv'
  <2>1. PICK n \in 0 .. Len(up[r]) : up' = [up EXCEPT ![r] = SubSeq(@, 1, n)]
    BY <1>14 DEF Close
  <2>2. SubSeq(up[r], 1, n) \in Seq(UpMessages)
    BY LenProperties, SubSeqProperties DEF TypeOK
  <2>3. up' \in [Replicas -> Seq(UpMessages)]
    BY <2>1, <2>2 DEF TypeOK
  <2>4. down' \in [Replicas -> Seq(DownMessages)]
    BY <1>14 DEF Close, TypeOK
  <2>5. open' \in SUBSET Replicas
    BY <1>14 DEF Close, TypeOK
  <2>6. UNCHANGED <<dbVars, state, awaiting, requests, writes, reconnects>>
    BY <1>14 DEF Close
  <2> QED
    BY <2>3, <2>4, <2>5, <2>6 DEF TypeOK, dbVars
<1>15. CASE UNCHANGED vars
  BY <1>15 DEF vars, dbVars, TypeOK
<1> QED
  BY <1>1, <1>2, <1>3, <1>4, <1>5, <1>6, <1>7, <1>8, <1>9, <1>10, <1>11, <1>12,
     <1>13, <1>14, <1>15
  DEF Next, Receive, DbHandle

\* The types hold in every reachable state.
LEMMA InvariantTInv == Spec => []TInv
  BY InitTInv, StepTInv, PTL DEF Spec

\* Every variable stays in its range: sessions, messages and acknowledgements
\* are only ever of the kinds the handlers know.
THEOREM TypeCorrect == Spec => []TypeOK
  BY InvariantTInv, PTL DEF TInv

------------------------------------------------------------------------------
(***************************************************************************)
(* The database takes the writes of a path that has one writer in the      *)
(* order they were made, for any replicas, paths, writers and bounds of    *)
(* KyjuRoot.                                                               *)
(*                                                                         *)
(* A write is on its way in the writer's channel, then perhaps waiting for *)
(* rootMutex, then in the root.  The invariant is that the writes of the   *)
(* path rise along that way, which holds because a write that arrives      *)
(* while others wait is put behind them, even when the mutex is free.      *)
(***************************************************************************)
Of(m, k) == m.kind = "write" /\ m.key = k

\* The writes of path k in s rise ...
Rising(s, k) ==
  \A i, j \in 1 .. Len(s) :
    i < j /\ Of(s[i], k) /\ Of(s[j], k) => s[i].val < s[j].val

\* ... lie between lo and hi ...
Within(s, k, lo, hi) ==
  \A i \in 1 .. Len(s) : Of(s[i], k) => s[i].val \in (lo + 1) .. hi

\* ... and come before those in t.
Before(s, t, k) ==
  \A i \in 1 .. Len(s), j \in 1 .. Len(t) :
    Of(s[i], k) /\ Of(t[j], k) => s[i].val < t[j].val

Lacks(s, k) == \A i \in 1 .. Len(s) : ~Of(s[i], k)

OrderOf(k, r, rt, qu, chan, n) ==
  /\ rt[k] <= n
  /\ Rising(qu, k) /\ Rising(chan[r], k)
  /\ Before(qu, chan[r], k)
  /\ Within(qu, k, rt[k], n) /\ Within(chan[r], k, rt[k], n)
  /\ \A q \in Replicas \ {r} : Lacks(chan[q], k)

OInv == \A k \in Keys, r \in Replicas :
          WritersOf(k) = {r} => OrderOf(k, r, root, queue, up, writes)

------------------------------------------------------------------------------
(* Sequences of writes *)

\* A number is above v exactly if it is from v + 1 on.
LEMMA Above ==
  ASSUME NEW lo \in Nat, NEW hi \in Nat, NEW v \in (lo + 1) .. hi, NEW x
  PROVE  /\ x \in (v + 1) .. hi => v < x
         /\ x \in (lo + 1) .. hi /\ v < x => x \in (v + 1) .. hi
OBVIOUS

\* t has no write of k that s has not, and those it has in the order of s.
Thinner(t, s, k) ==
  \E d \in Nat : \A i \in 1 .. Len(t) :
    Of(t[i], k) => i + d \in 1 .. Len(s) /\ t[i] = s[i + d]

\* Dropping writes keeps them in order, bounded and behind the others.
LEMMA ThinnerKeeps ==
  ASSUME NEW k, NEW s, NEW t, NEW q, NEW lo, NEW hi,
         Len(t) \in Nat, Thinner(t, s, k)
  PROVE  /\ Rising(s, k) => Rising(t, k)
         /\ Within(s, k, lo, hi) => Within(t, k, lo, hi)
         /\ Before(q, s, k) => Before(q, t, k)
         /\ Lacks(s, k) => Lacks(t, k)
<1> PICK d \in Nat : \A i \in 1 .. Len(t) :
           Of(t[i], k) => i + d \in 1 .. Len(s) /\ t[i] = s[i + d]
  BY DEF Thinner
<1>1. ASSUME Rising(s, k) PROVE Rising(t, k)
  <2>1. ASSUME NEW i \in 1 .. Len(t), NEW j \in 1 .. Len(t), i < j,
               Of(t[i], k), Of(t[j], k)
        PROVE  t[i].val < t[j].val
    <3>1. /\ i + d \in 1 .. Len(s) /\ j + d \in 1 .. Len(s)
          /\ t[i] = s[i + d] /\ t[j] = s[j + d] /\ i + d < j + d
      BY <2>1
    <3> QED
      BY <1>1, <2>1, <3>1 DEF Rising
  <2> QED
    BY <2>1 DEF Rising
<1>2. Within(s, k, lo, hi) => Within(t, k, lo, hi)
  BY DEF Within
<1>3. Before(q, s, k) => Before(q, t, k)
  BY DEF Before
<1>4. Lacks(s, k) => Lacks(t, k)
  BY DEF Lacks
<1> QED
  BY <1>1, <1>2, <1>3, <1>4

\* The ways in which a channel loses writes, or gains none.
LEMMA ThinnerWays ==
  ASSUME NEW k, NEW S, NEW s \in Seq(S)
  PROVE  /\ Thinner(s, s, k)
         /\ s # <<>> => Thinner(Tail(s), s, k)
         /\ \A m \in S : ~Of(m, k) => Thinner(Append(s, m), s, k)
         /\ \A n \in 0 .. Len(s) : Thinner(SubSeq(s, 1, n), s, k)
<1>1. Len(s) \in Nat
  BY LenProperties
<1>2. Thinner(s, s, k)
  <2>1. \A i \in 1 .. Len(s) : i + 0 \in 1 .. Len(s) /\ s[i] = s[i + 0]
    BY <1>1
  <2> QED
    BY <2>1 DEF Thinner
<1>3. ASSUME s # <<>> PROVE Thinner(Tail(s), s, k)
  <2>1. \A i \in 1 .. Len(Tail(s)) : i + 1 \in 1 .. Len(s) /\ Tail(s)[i] = s[i + 1]
    BY <1>1, <1>3, Taken
  <2> QED
    BY <2>1 DEF Thinner
<1>4. ASSUME NEW m \in S, ~Of(m, k) PROVE Thinner(Append(s, m), s, k)
  <2> DEFINE t == Append(s, m)
  <2>1. /\ Len(t) = Len(s) + 1 /\ t[Len(s) + 1] = m
        /\ \A i \in 1 .. Len(s) : t[i] = s[i]
    BY Sent
  <2> HIDE DEF t
  <2>2. \A i \in 1 .. Len(t) :
          Of(t[i], k) => i + 0 \in 1 .. Len(s) /\ t[i] = s[i + 0]
    BY <1>1, <1>4, <2>1
  <2> QED
    BY <2>2 DEF Thinner, t
<1>5. ASSUME NEW n \in 0 .. Len(s) PROVE Thinner(SubSeq(s, 1, n), s, k)
  <2> DEFINE t == SubSeq(s, 1, n)
  <2>1. Len(t) = n /\ \A i \in 1 .. n : t[i] = s[i]
    BY <1>1, SubSeqProperties
  <2> HIDE DEF t
  <2>2. \A i \in 1 .. Len(t) : i + 0 \in 1 .. Len(s) /\ t[i] = s[i + 0]
    BY <1>1, <2>1
  <2> QED
    BY <2>2 DEF Thinner, t
<1> QED
  BY <1>2, <1>3, <1>4, <1>5

\* A write behind all the others of its path.
LEMMA WriteBehindOthers ==
  ASSUME NEW k, NEW S, NEW s \in Seq(S), NEW m \in S, NEW lo, NEW hi,
         Rising(s, k), Within(s, k, lo, hi),
         Of(m, k) => m.val \in (lo + 1) .. hi,
         Of(m, k) => \A i \in 1 .. Len(s) : Of(s[i], k) => s[i].val < m.val
  PROVE  Rising(Append(s, m), k) /\ Within(Append(s, m), k, lo, hi)
<1> DEFINE t == Append(s, m)
<1>1. /\ Len(s) \in Nat /\ Len(t) = Len(s) + 1 /\ t[Len(s) + 1] = m
      /\ \A i \in 1 .. Len(s) : t[i] = s[i]
  BY Sent, LenProperties
<1> HIDE DEF t
<1>2. \A i \in 1 .. Len(t) : (i \in 1 .. Len(s) /\ t[i] = s[i])
                               \/ (i = Len(s) + 1 /\ t[i] = m)
  BY <1>1
<1>3. ASSUME NEW i \in 1 .. Len(t), NEW j \in 1 .. Len(t), i < j,
             Of(t[i], k), Of(t[j], k)
      PROVE  t[i].val < t[j].val
  <2>1. i \in 1 .. Len(s) /\ t[i] = s[i]
    BY <1>1, <1>3
  <2>2. CASE j \in 1 .. Len(s) /\ t[j] = s[j]
    BY <1>3, <2>1, <2>2 DEF Rising
  <2>3. CASE t[j] = m
    BY <1>3, <2>1, <2>3
  <2> QED
    BY <1>2, <2>2, <2>3
<1>4. Within(t, k, lo, hi)
  BY <1>2 DEF Within
<1>5. Rising(t, k)
  BY <1>3 DEF Rising
<1> QED
  BY <1>4, <1>5 DEF t

\* A write that is later than all of s, behind those that are.
LEMMA BehindOthers ==
  ASSUME NEW k, NEW S, NEW t \in Seq(S), NEW m \in S, NEW s,
         Before(s, t, k),
         Of(m, k) => \A i \in 1 .. Len(s) : Of(s[i], k) => s[i].val < m.val
  PROVE  Before(s, Append(t, m), k)
<1> DEFINE e == Append(t, m)
<1>1. /\ Len(t) \in Nat /\ Len(e) = Len(t) + 1 /\ e[Len(t) + 1] = m
      /\ \A i \in 1 .. Len(t) : e[i] = t[i]
  BY Sent, LenProperties
<1> HIDE DEF e
<1>2. \A i \in 1 .. Len(e) : (i \in 1 .. Len(t) /\ e[i] = t[i]) \/ e[i] = m
  BY <1>1
<1>3. Before(s, e, k)
  BY <1>2 DEF Before
<1> QED
  BY <1>3 DEF e

\* Behind a write that is taken come only later ones.
LEMMA FirstTaken ==
  ASSUME NEW k, NEW S, NEW s \in Seq(S), s # <<>>,
         NEW lo \in Nat, NEW hi \in Nat,
         Rising(s, k), Within(s, k, lo, hi), Of(Head(s), k)
  PROVE  /\ Within(Tail(s), k, Head(s).val, hi)
         /\ Head(s).val \in (lo + 1) .. hi
<1>1. /\ Len(s) \in Nat /\ 1 \in 1 .. Len(s) /\ Head(s) = s[1]
      /\ \A i \in 1 .. Len(Tail(s)) :
           i + 1 \in 1 .. Len(s) /\ 1 < i + 1 /\ Tail(s)[i] = s[i + 1]
  BY Taken, LenProperties
<1>2. Head(s).val \in (lo + 1) .. hi
  BY <1>1 DEF Within
<1>3. ASSUME NEW i \in 1 .. Len(Tail(s)), Of(Tail(s)[i], k)
      PROVE  Tail(s)[i].val \in (Head(s).val + 1) .. hi
  <2>1. /\ i + 1 \in 1 .. Len(s) /\ 1 < i + 1 /\ Tail(s)[i] = s[i + 1]
        /\ Of(s[i + 1], k) /\ Of(s[1], k)
    BY <1>1, <1>3
  <2>2. s[1].val < s[i + 1].val
    BY <1>1, <2>1 DEF Rising
  <2>3. s[i + 1].val \in (lo + 1) .. hi
    BY <2>1 DEF Within
  <2> QED
    BY <1>1, <1>2, <2>1, <2>2, <2>3
<1> QED
  BY <1>2, <1>3 DEF Within

\* More writes have been made.
LEMMA WithinMore ==
  ASSUME NEW k, NEW s, NEW lo \in Nat, NEW hi \in Nat, NEW more \in Nat,
         hi <= more, Within(s, k, lo, hi)
  PROVE  Within(s, k, lo, more)
  BY DEF Within

------------------------------------------------------------------------------
(* Steps *)

\* Channels that lose writes, or get some of other paths, stay in order.
LEMMA FewerKept ==
  ASSUME TInv, TInv', NEW k \in Keys, NEW r \in Replicas,
         OrderOf(k, r, root, queue, up, writes),
         root'[k] = root[k], queue' = queue, writes <= writes',
         \A q \in Replicas : Thinner(up'[q], up[q], k)
  PROVE  OrderOf(k, r, root, queue, up, writes)'
<1>1. \A q \in Replicas : Len(up'[q]) \in Nat
  BY LenProperties DEF TInv, TypeOK
<1>2. writes \in Nat /\ writes' \in Nat /\ root[k] \in Nat
  BY BoundsAssumption DEF TInv, TypeOK, Roots, Values
<1>3. \A q \in Replicas \ {r} : Lacks(up'[q], k)
  BY <1>1, ThinnerKeeps DEF OrderOf
<1>4. /\ Rising(up'[r], k) /\ Before(queue, up'[r], k)
      /\ Within(up'[r], k, root[k], writes)
  BY <1>1, ThinnerKeeps DEF OrderOf
<1>5. Within(up'[r], k, root[k], writes') /\ Within(queue, k, root[k], writes')
  BY <1>2, <1>4, WithinMore DEF OrderOf
<1> QED
  BY <1>2, <1>3, <1>4, <1>5 DEF OrderOf

\* One more write waits, and those it comes before are all in t.
LEMMA BeforeMore ==
  ASSUME NEW k, NEW S, NEW s \in Seq(S), NEW m \in S, NEW t,
         Before(s, t, k),
         Of(m, k) => \A i \in 1 .. Len(t) : Of(t[i], k) => m.val < t[i].val
  PROVE  Before(Append(s, m), t, k)
<1> DEFINE e == Append(s, m)
<1>1. /\ Len(s) \in Nat /\ Len(e) = Len(s) + 1 /\ e[Len(s) + 1] = m
      /\ \A i \in 1 .. Len(s) : e[i] = s[i]
  BY Sent, LenProperties
<1> HIDE DEF e
<1>2. \A i \in 1 .. Len(e) : (i \in 1 .. Len(s) /\ e[i] = s[i]) \/ e[i] = m
  BY <1>1
<1>3. Before(e, t, k)
  BY <1>2 DEF Before
<1> QED
  BY <1>3 DEF e

\* A write is made: it is later than all the others of its path.
LEMMA Made ==
  ASSUME TInv, TInv', NEW k \in Keys, NEW r \in Replicas, WritersOf(k) = {r},
         OrderOf(k, r, root, queue, up, writes),
         NEW q \in Replicas, NEW kq \in Keys, Write(q, kq)
  PROVE  OrderOf(k, r, root, queue, up, writes)' /\ root'[k] >= root[k]
<1> DEFINE w == [kind |-> "write", sid |-> state[q].sid, key |-> kq,
                 val |-> writes + 1]
<1>1. /\ up' = IF q \in open THEN [up EXCEPT ![q] = Append(@, w)] ELSE up
      /\ root' = root /\ queue' = queue /\ writes' = writes + 1
      /\ <<q, kq>> \in Writers /\ IsConnected(q)
  BY DEF Write, Send, dbVars
<1>2. /\ up \in [Replicas -> Seq(UpMessages)]
      /\ queue \in Seq(WriteMessages)
      /\ writes \in Nat /\ writes' \in Nat /\ root[k] \in Nat
  BY BoundsAssumption DEF TInv, TypeOK, Roots, Values
<1>3. w \in UpMessages
  <2>1. state[q].sid \in Sids
    BY SMTT(30), <1>1 DEF IsConnected, TInv, TypeOK, Disconnected
  <2>2. writes + 1 \in Values
    BY <1>1 DEF TInv, TypeOK
  <2> QED
    BY <2>1, <2>2, Built DEF WriteMessages
<1>4. w.val = writes + 1 /\ w.key = kq /\ w.kind = "write"
  OBVIOUS
<1> HIDE DEF w
<1>5. root'[k] >= root[k]
  BY <1>1, <1>2
<1>6. CASE kq # k \/ q \notin open
  <2>1. ASSUME NEW p \in Replicas PROVE Thinner(up'[p], up[p], k)
    <3>1. up'[p] = up[p] \/ (up'[p] = Append(up[p], w) /\ kq # k)
      BY <1>1, <1>2, <1>6
    <3>2. ~Of(w, k) \/ up'[p] = up[p]
      BY <1>4, <3>1 DEF Of
    <3> QED
      BY <1>2, <1>3, <3>1, <3>2, ThinnerWays
  <2>2. writes <= writes'
    BY <1>1, <1>2
  <2> QED
    BY <1>1, <1>5, <2>1, <2>2, FewerKept
<1>7. CASE kq = k /\ q \in open
  <2>1. q = r
    BY <1>1, <1>7 DEF WritersOf
  <2>2. /\ up'[r] = Append(up[r], w)
        /\ \A p \in Replicas \ {r} : up'[p] = up[p]
    BY <1>1, <1>2, <1>7, <2>1
  <2>3. w.val \in (root[k] + 1) .. writes'
    BY <1>1, <1>2, <1>4 DEF OrderOf
  <2>4. /\ \A i \in 1 .. Len(up[r]) : Of(up[r][i], k) => up[r][i].val < w.val
        /\ \A i \in 1 .. Len(queue) : Of(queue[i], k) => queue[i].val < w.val
    BY <1>2, <1>4 DEF OrderOf, Within
  <2>5. Within(up[r], k, root[k], writes') /\ Within(queue, k, root[k], writes')
    BY <1>1, <1>2, WithinMore DEF OrderOf
  <2>6. /\ Rising(up'[r], k) /\ Before(queue, up'[r], k)
        /\ Within(up'[r], k, root[k], writes')
    <3> DEFINE u == up[r]
               hi == writes'
               lo == root[k]
    <3>1. /\ u \in Seq(UpMessages) /\ Rising(u, k) /\ Within(u, k, lo, hi)
          /\ Before(queue, u, k)
      BY <1>2, <2>5 DEF OrderOf
    <3>2. w.val \in lo + 1 .. hi
      BY <2>3
    <3> HIDE DEF u, hi, lo
    <3>3. Rising(Append(u, w), k) /\ Within(Append(u, w), k, lo, hi)
      BY <1>3, <2>4, <3>1, <3>2, WriteBehindOthers DEF u
    <3>4. Before(queue, Append(u, w), k)
      BY <1>3, <2>4, <3>1, BehindOthers
    <3> QED
      BY <2>2, <3>3, <3>4 DEF u, hi, lo
  <2> QED
    BY <1>1, <1>2, <1>5, <2>2, <2>5, <2>6 DEF OrderOf
<1> QED
  BY <1>6, <1>7

\* A write arrives and waits behind those that wait already.
LEMMA Queued ==
  ASSUME TInv, TInv', NEW k \in Keys, NEW r \in Replicas, WritersOf(k) = {r},
         OrderOf(k, r, root, queue, up, writes),
         NEW q \in Replicas, up[q] # <<>>, Head(up[q]).kind = "write",
         up' = [up EXCEPT ![q] = Tail(@)],
         queue' = Append(queue, Head(up[q])),
         UNCHANGED <<root, writes>>
  PROVE  OrderOf(k, r, root, queue, up, writes)'
<1> DEFINE w == Head(up[q])
<1>1. /\ up \in [Replicas -> Seq(UpMessages)]
      /\ queue \in Seq(WriteMessages)
      /\ writes \in Nat /\ root[k] \in Nat
  BY BoundsAssumption DEF TInv, TypeOK, Roots, Values
<1>2. w \in UpMessages /\ w \in WriteMessages /\ w = up[q][1] /\ 1 \in 1 .. Len(up[q])
  BY <1>1, Taken, UpKinds, LenProperties
<1>3. \A p \in Replicas : Thinner(up'[p], up[p], k) /\ Len(up'[p]) \in Nat
  BY <1>1, ThinnerWays, LenProperties DEF TInv, TypeOK
<1>4. Of(w, k) => q = r
  BY <1>2 DEF OrderOf, Lacks
<1>5. Of(w, k) => /\ w.val \in (root[k] + 1) .. writes
                  /\ Within(up'[r], k, w.val, writes)
  BY <1>1, <1>4, FirstTaken DEF OrderOf
<1>6. Of(w, k) => \A i \in 1 .. Len(queue) : Of(queue[i], k) => queue[i].val < w.val
  BY <1>2, <1>4 DEF OrderOf, Before
<1>7. /\ Rising(up'[r], k) /\ Before(queue, up'[r], k)
      /\ Within(up'[r], k, root[k], writes)
      /\ \A p \in Replicas \ {r} : Lacks(up'[p], k)
  BY <1>3, ThinnerKeeps DEF OrderOf
<1> HIDE DEF w
<1>8. queue' = Append(queue, w)
  BY DEF w
<1>9. Rising(queue', k) /\ Within(queue', k, root[k], writes)
  <2>1. Rising(queue, k) /\ Within(queue, k, root[k], writes)
    BY DEF OrderOf
  <2>2. Rising(Append(queue, w), k) /\ Within(Append(queue, w), k, root[k], writes)
    BY <1>1, <1>2, <1>5, <1>6, <2>1, WriteBehindOthers
  <2> QED
    BY <1>8, <2>2
<1>10. Of(w, k) => \A i \in 1 .. Len(up'[r]) :
                     Of(up'[r][i], k) => w.val < up'[r][i].val
  <2> SUFFICES ASSUME Of(w, k), NEW i \in 1 .. Len(up'[r]), Of(up'[r][i], k)
               PROVE  w.val < up'[r][i].val
    OBVIOUS
  <2> DEFINE v == w.val
             x == up'[r][i].val
  <2>1. v \in (root[k] + 1) .. writes
    BY <1>5
  <2>2. x \in (v + 1) .. writes
    BY <1>5 DEF Within
  <2>3. v < x
    <3> HIDE DEF v, x
    <3> QED
      BY <1>1, <2>1, <2>2, Above
  <2> QED
    BY <2>3
<1>11. Before(queue', up'[r], k)
  <2> DEFINE t == up'[r]
  <2>1. /\ Before(queue, t, k)
        /\ Of(w, k) => \A i \in 1 .. Len(t) : Of(t[i], k) => w.val < t[i].val
    BY <1>7, <1>10
  <2> HIDE DEF t
  <2>2. Before(Append(queue, w), t, k)
    BY <1>1, <1>2, <2>1, BeforeMore
  <2> QED
    BY <1>8, <2>2 DEF t
<1> QED
  BY <1>7, <1>9, <1>11 DEF OrderOf

\* A write arrives, finds nobody waiting and is applied.
LEMMA Applied ==
  ASSUME TInv, TInv', NEW k \in Keys, NEW r \in Replicas, WritersOf(k) = {r},
         OrderOf(k, r, root, queue, up, writes),
         NEW q \in Replicas, up[q] # <<>>, Head(up[q]).kind = "write",
         up' = [up EXCEPT ![q] = Tail(@)], queue = <<>>,
         root' = [root EXCEPT ![Head(up[q]).key] = Head(up[q]).val],
         UNCHANGED <<queue, writes>>
  PROVE  OrderOf(k, r, root, queue, up, writes)' /\ root'[k] >= root[k]
<1> DEFINE w == Head(up[q])
<1>1. /\ up \in [Replicas -> Seq(UpMessages)]
      /\ root \in [Keys -> Nat] /\ writes \in Nat /\ root[k] \in Nat
  BY SMTT(30), BoundsAssumption DEF TInv, TypeOK, Roots, Values
<1>2. w = up[q][1] /\ 1 \in 1 .. Len(up[q])
  BY <1>1, Taken, LenProperties
<1>3. \A p \in Replicas : Thinner(up'[p], up[p], k) /\ Len(up'[p]) \in Nat
  BY <1>1, ThinnerWays, LenProperties DEF TInv, TypeOK
<1>4. CASE w.key # k
  <2>1. root'[k] = root[k] /\ writes <= writes'
    BY <1>1, <1>4
  <2>2. OrderOf(k, r, root, queue, up, writes)'
    BY <1>3, <2>1, FewerKept
  <2> QED
    BY <1>1, <2>1, <2>2
<1>5. CASE w.key = k
  <2>1. Of(w, k) /\ root'[k] = w.val
    BY <1>1, <1>5 DEF Of
  <2>2. q = r
    BY <1>2, <2>1 DEF OrderOf, Lacks
  <2>3. w.val \in (root[k] + 1) .. writes /\ Within(up'[r], k, w.val, writes)
    BY <1>1, <2>1, <2>2, FirstTaken DEF OrderOf
  <2>4. /\ Rising(up'[r], k)
        /\ \A p \in Replicas \ {r} : Lacks(up'[p], k)
    BY <1>3, ThinnerKeeps DEF OrderOf
  <2> HIDE DEF w
  <2>5. Len(queue') = 0
    OBVIOUS
  <2>6. /\ Rising(queue', k) /\ Within(queue', k, w.val, writes)
        /\ Before(queue', up'[r], k)
    BY <2>5 DEF Rising, Within, Before
  <2> QED
    BY <1>1, <2>1, <2>3, <2>4, <2>6 DEF OrderOf
<1> QED
  BY <1>4, <1>5

\* The write that has waited longest is applied.
LEMMA Granted ==
  ASSUME TInv, TInv', NEW k \in Keys, NEW r \in Replicas, WritersOf(k) = {r},
         OrderOf(k, r, root, queue, up, writes), queue # <<>>,
         queue' = Tail(queue),
         root' = [root EXCEPT ![Head(queue).key] = Head(queue).val],
         UNCHANGED <<up, writes>>
  PROVE  OrderOf(k, r, root, queue, up, writes)' /\ root'[k] >= root[k]
<1> DEFINE w == Head(queue)
<1>1. /\ queue \in Seq(WriteMessages)
      /\ root \in [Keys -> Nat] /\ writes \in Nat /\ root[k] \in Nat
  BY BoundsAssumption DEF TInv, TypeOK, Roots, Values
<1>2. w \in WriteMessages /\ w = queue[1] /\ 1 \in 1 .. Len(queue)
  BY <1>1, Taken, LenProperties
<1>3. Thinner(queue', queue, k) /\ Len(queue') \in Nat
  BY <1>1, ThinnerWays, LenProperties DEF TInv, TypeOK
<1>4. Rising(queue', k) /\ Within(queue', k, root[k], writes)
  BY <1>3, ThinnerKeeps DEF OrderOf
<1>5. Before(queue', up[r], k)
  BY <1>3 DEF OrderOf, Before, Thinner
<1>6. CASE w.key # k
  <2>1. root'[k] = root[k]
    BY <1>1, <1>6
  <2> QED
    BY <1>1, <1>4, <1>5, <2>1 DEF OrderOf
<1>7. CASE w.key = k
  <2>1. Of(w, k) /\ root'[k] = w.val
    BY <1>1, <1>2, <1>7 DEF Of, WriteMessages
  <2>2. w.val \in (root[k] + 1) .. writes /\ Within(queue', k, w.val, writes)
    BY <1>1, <2>1, FirstTaken DEF OrderOf
  <2> HIDE DEF w
  <2>3. \A i \in 1 .. Len(up[r]) : Of(up[r][i], k) => w.val < up[r][i].val
    BY <1>2, <2>1 DEF OrderOf, Before
  <2>4. Within(up[r], k, w.val, writes)
    <3>1. \A i \in 1 .. Len(up[r]) :
            Of(up[r][i], k) => up[r][i].val \in (root[k] + 1) .. writes
      BY DEF OrderOf, Within
    <3>2. ASSUME NEW i \in 1 .. Len(up[r]), Of(up[r][i], k)
          PROVE  up[r][i].val \in (w.val + 1) .. writes
      <4>1. up[r][i].val \in (root[k] + 1) .. writes /\ w.val < up[r][i].val
        BY <2>3, <3>1, <3>2
      <4> QED
        BY <1>1, <2>2, <4>1, Above
    <3> QED
      BY <3>2 DEF Within
  <2> QED
    BY <1>1, <1>4, <1>5, <2>1, <2>2, <2>4 DEF OrderOf
<1> QED
  BY <1>6, <1>7

\* A message that is no write is sent, or the connection swallows it.
LEMMA RequestSent ==
  ASSUME TInv, NEW k, NEW q \in Replicas, NEW m, m.kind # "write", Send(q, m)
  PROVE  \A p \in Replicas : Thinner(up'[p], up[p], k)
<1>1. up \in [Replicas -> Seq(UpMessages)]
  BY DEF TInv, TypeOK
<1>2. up[q] \in Seq(UpMessages \cup {m}) /\ m \in UpMessages \cup {m}
  BY <1>1
<1>3. ~Of(m, k)
  BY DEF Of
<1>4. Thinner(Append(up[q], m), up[q], k)
  BY <1>2, <1>3, ThinnerWays
<1>5. \A p \in Replicas : up'[p] = up[p] \/ (p = q /\ up'[p] = Append(up[q], m))
  BY <1>1 DEF Send
<1> QED
  BY <1>1, <1>4, <1>5, ThinnerWays

\* A message is taken from a channel.
LEMMA ThinnerTaken ==
  ASSUME TInv, NEW k, NEW q \in Replicas, up[q] # <<>>,
         up' = [up EXCEPT ![q] = Tail(@)]
  PROVE  \A p \in Replicas : Thinner(up'[p], up[p], k)
  BY ThinnerWays DEF TInv, TypeOK

\* A step that makes, queues and applies no write of k.
LEMMA Unmoved ==
  ASSUME TInv, TInv', NEW k \in Keys, NEW r \in Replicas,
         OrderOf(k, r, root, queue, up, writes),
         UNCHANGED <<root, queue, writes>>,
         \A q \in Replicas : Thinner(up'[q], up[q], k)
  PROVE  OrderOf(k, r, root, queue, up, writes)' /\ root'[k] >= root[k]
<1>1. writes <= writes' /\ root'[k] = root[k] /\ root[k] \in Nat
  BY BoundsAssumption DEF TInv, TypeOK, Roots, Values
<1>2. OrderOf(k, r, root, queue, up, writes)'
  BY <1>1, FewerKept
<1> QED
  BY <1>1, <1>2

\* Nothing has been written.
LEMMA InitOInv == Init => OInv
<1> SUFFICES ASSUME Init, NEW k \in Keys, NEW r \in Replicas
             PROVE  OrderOf(k, r, root, queue, up, writes)
  BY DEF OInv
<1>1. /\ root[k] = 0 /\ writes = 0 /\ Len(queue) = 0
      /\ \A q \in Replicas : Len(up[q]) = 0
  BY DEF Init
<1>2. Rising(queue, k) /\ Rising(up[r], k) /\ Before(queue, up[r], k)
  BY <1>1 DEF Rising, Before
<1>3. Within(queue, k, root[k], writes) /\ Within(up[r], k, root[k], writes)
  BY <1>1 DEF Within
<1>4. \A q \in Replicas \ {r} : Lacks(up[q], k)
  BY <1>1 DEF Lacks
<1> QED
  BY <1>1, <1>2, <1>3, <1>4 DEF OrderOf

\* Every step keeps the writes of a path with one writer in order.
LEMMA StepOrder ==
  ASSUME TInv, TInv', [Next]_vars, NEW k \in Keys, NEW r \in Replicas,
         WritersOf(k) = {r}, OrderOf(k, r, root, queue, up, writes)
  PROVE  OrderOf(k, r, root, queue, up, writes)' /\ root'[k] >= root[k]
<1> DEFINE Goal == OrderOf(k, r, root, queue, up, writes)' /\ root'[k] >= root[k]
<1> HIDE DEF Goal
<1>u. ASSUME UNCHANGED <<root, queue, writes>>,
             \A q \in Replicas : Thinner(up'[q], up[q], k)
      PROVE  Goal
  BY <1>u, Unmoved DEF Goal
<1>s. ASSUME UNCHANGED up PROVE \A q \in Replicas : Thinner(up'[q], up[q], k)
  BY <1>s, ThinnerWays DEF TInv, TypeOK
<1>1. ASSUME NEW q \in Replicas, Connect(q) PROVE Goal
  <2> DEFINE m == ConnectMessage([then |-> "connect", req |-> requests[q] + 1])
  <2>1. Send(q, m) /\ UNCHANGED <<root, queue, writes>>
    BY <1>1 DEF Connect, Request, dbVars
  <2>2. m.kind # "write"
    BY DEF ConnectMessage
  <2> HIDE DEF m
  <2> QED
    BY <1>u, <2>1, <2>2, RequestSent
<1>2. ASSUME NEW q \in Replicas, NEW then,
             LET m(a) == DisconnectMessage(state[q].sid, a) IN Request(q, then, m),
             UNCHANGED <<root, queue, writes>>
      PROVE  Goal
  <2> DEFINE w == DisconnectMessage(state[q].sid,
                                    [then |-> then, req |-> requests[q] + 1])
  <2>1. Send(q, w)
    BY <1>2 DEF Request
  <2>2. w.kind # "write"
    BY DEF DisconnectMessage
  <2> HIDE DEF w
  <2> QED
    BY <1>u, <1>2, <2>1, <2>2, RequestSent
<1>3. ASSUME NEW q \in Replicas, NEW kq \in Keys, Write(q, kq) PROVE Goal
  BY <1>3, Made DEF Goal
<1>4. ASSUME NEW q \in Replicas, ReceiveAck(q) \/ ReceiveReplicated(q) PROVE Goal
  <2>1. UNCHANGED <<root, queue, writes>> /\ UNCHANGED up
    BY <1>4 DEF ReceiveAck, ReceiveReplicated, dbVars
  <2> QED
    BY <1>u, <1>s, <2>1
<1>5. ASSUME NEW q \in Replicas, ReceiveReconnectAck(q) PROVE Goal
  <2> DEFINE m == ConnectMessage([then |-> "connect", req |-> requests[q] + 1])
  <2>1. Send(q, m) /\ UNCHANGED <<root, queue, writes>>
    BY <1>5 DEF ReceiveReconnectAck, dbVars
  <2>2. m.kind # "write"
    BY DEF ConnectMessage
  <2> HIDE DEF m
  <2> QED
    BY <1>u, <2>1, <2>2, RequestSent
<1>6. ASSUME NEW q \in Replicas, ReceiveReconnect(q) PROVE Goal
  <2>1. UNCHANGED <<root, queue, writes>>
    BY <1>6 DEF ReceiveReconnect, dbVars
  <2>2. CASE IsConnected(q)
    BY <1>2, <1>6, <2>1, <2>2 DEF ReceiveReconnect
  <2>3. CASE ~IsConnected(q)
    <3>1. UNCHANGED up
      BY <1>6, <2>3 DEF ReceiveReconnect
    <3> QED
      BY <1>u, <1>s, <2>1, <3>1
  <2> QED
    BY <2>2, <2>3
<1>7. ASSUME NEW q \in Replicas, DbConnect(q) \/ DbDisconnect(q) PROVE Goal
  <2>1. /\ up[q] # <<>> /\ up' = [up EXCEPT ![q] = Tail(@)]
        /\ UNCHANGED <<root, queue, writes>>
    BY <1>7 DEF DbConnect, DbDisconnect, Arrives
  <2> QED
    BY <1>u, <2>1, ThinnerTaken
<1>8. ASSUME NEW q \in Replicas, DbWrite(q) PROVE Goal
  <2> DEFINE w == Head(up[q])
  <2>1. /\ up[q] # <<>> /\ up' = [up EXCEPT ![q] = Tail(@)] /\ w.kind = "write"
        /\ writes' = writes /\ (locked \/ queue = <<>>)
    BY <1>8 DEF DbWrite, Arrives
  <2>2. \/ UNCHANGED <<root, queue>>
        \/ queue' = Append(queue, w) /\ root' = root
        \/ ~locked /\ ApplyWrite(w) /\ queue' = queue
    BY <1>8 DEF DbWrite
  <2>3. CASE UNCHANGED <<root, queue>>
    BY <1>u, <2>1, <2>3, ThinnerTaken
  <2>4. CASE queue' = Append(queue, w) /\ root' = root
    <3>1. root'[k] >= root[k]
      BY <2>4, BoundsAssumption DEF TInv, TypeOK, Roots, Values
    <3> QED
      BY <2>1, <2>4, <3>1, Queued DEF Goal
  <2>5. CASE ~locked /\ ApplyWrite(w) /\ queue' = queue
    <3>1. root' = [root EXCEPT ![w.key] = w.val] /\ queue = <<>>
      BY <2>1, <2>5 DEF ApplyWrite
    <3> QED
      BY <2>1, <2>5, <3>1, Applied DEF Goal
  <2> QED
    BY <2>2, <2>3, <2>4, <2>5
<1>9. ASSUME DbGrant PROVE Goal
  <2>1. /\ queue # <<>> /\ queue' = Tail(queue) /\ UNCHANGED <<up, writes>>
        /\ root' = [root EXCEPT ![Head(queue).key] = Head(queue).val]
    BY <1>9 DEF DbGrant, ApplyWrite
  <2> QED
    BY <2>1, Granted DEF Goal
<1>10. ASSUME NEW q \in Replicas, Close(q) PROVE Goal
  <2>1. PICK n \in 0 .. Len(up[q]) : up' = [up EXCEPT ![q] = SubSeq(@, 1, n)]
    BY <1>10 DEF Close
  <2>2. UNCHANGED <<root, queue, writes>>
    BY <1>10 DEF Close, dbVars
  <2>3. Thinner(SubSeq(up[q], 1, n), up[q], k)
    BY ThinnerWays DEF TInv, TypeOK
  <2>4. \A p \in Replicas : Thinner(up'[p], up[p], k)
    BY <2>1, <2>3, ThinnerWays DEF TInv, TypeOK
  <2> QED
    BY <1>u, <2>2, <2>4
<1>11. ASSUME FlushTakes \/ FlushReturns \/ ReconnectClients \/ UNCHANGED vars
      PROVE  Goal
  <2>1. UNCHANGED <<root, queue, writes>> /\ UNCHANGED up
    BY <1>11 DEF FlushTakes, FlushReturns, ReconnectClients, vars, dbVars
  <2> QED
    BY <1>u, <1>s, <2>1
<1>12. ASSUME NEW q \in Replicas, Disconnect(q) PROVE Goal
  BY <1>2, <1>12 DEF Disconnect, dbVars
<1>13. Goal
  BY <1>1, <1>3, <1>4, <1>5, <1>6, <1>7, <1>8, <1>9, <1>10, <1>11, <1>12
     DEF Next, Receive, DbHandle
<1> QED
  BY <1>13 DEF Goal

\* Where a path has one writer the database applies its writes in the order
\* they were made, although rootMutex makes some of them wait (write.ts:43).
THEOREM SoleWritesInOrder == Spec => WritesInOrder
<1> DEFINE Ordered ==
      \A k \in Keys : (\E r \in Replicas : WritersOf(k) = {r}) =>
        root'[k] >= root[k]
<1>1. TInv /\ TInv' /\ OInv /\ [Next]_vars => OInv'
  BY StepOrder DEF OInv
<1>2. TInv /\ TInv' /\ OInv /\ [Next]_vars => Ordered
  <2> SUFFICES ASSUME TInv, TInv', OInv, [Next]_vars,
                      NEW k \in Keys, NEW r \in Replicas, WritersOf(k) = {r}
               PROVE  root'[k] >= root[k]
    OBVIOUS
  <2>1. OrderOf(k, r, root, queue, up, writes)
    BY DEF OInv
  <2> QED
    BY <2>1, StepOrder
<1>3. WritesInOrder <=> [][Ordered]_vars
  BY DEF WritesInOrder
<1> HIDE DEF Ordered
<1> QED
  BY <1>1, <1>2, <1>3, InitOInv, InvariantTInv, PTL DEF Spec

------------------------------------------------------------------------------
(***************************************************************************)
(* Both ends of every open connection agree on its session, for any        *)
(* replicas, paths, writers and bounds of KyjuRoot.                        *)
(*                                                                         *)
(* SessionsAgree says what a replica's session will be when its messages   *)
(* are in.  It is not inductive: it holds because of what may be on its    *)
(* way to the database at the same time.  SInv says that, by replica: in a *)
(* session every disconnect on its way is of that session and no connect   *)
(* is; between sessions a connect is awaited and is the last thing sent,   *)
(* so that whatever else arrives finds no session.                         *)
(***************************************************************************)
(* Agreement on the session.  `cur` is the set of the session a replica is  *)
(* in, `u` and `d` its channels, `aw` what it awaits and `ss` the sessions  *)
(* the database knows of it.                                                *)

Current(r) == IF IsConnected(r) THEN {state[r].sid} ELSE {}

Begins(m) == m.kind = "connected"
Ends(m) == m.kind = "ack" /\ m.ok /\ m.await.then \in {"disconnect", "rcDisconnect"}
Neutral(m) == \/ m.kind \in {"replicated", "reconnect"}
              \/ m.kind = "ack" /\ m.await.then = "write"

\* Sessions are the replica's own, and acks answer the request they name.
Own(r, cur, u, d) ==
  /\ \A s \in cur : s[1] = r
  /\ \A i \in 1 .. Len(u) :
       /\ u[i].kind = "disconnect" =>
            u[i].sid[1] = r /\ u[i].await.then \in {"disconnect", "rcDisconnect"}
       /\ u[i].kind = "connect" => u[i].await.then = "connect"
  /\ \A i \in 1 .. Len(d) :
       /\ Begins(d[i]) => d[i].sid[1] = r /\ d[i].await.then = "connect"
       /\ d[i].kind = "ack" => d[i].await.then # "connect"

\* In a session no other begins: all disconnects on their way are of this one,
\* and the database knows it until the first of them is answered.
InSession(cur, u, d, ss) ==
  /\ \A i \in 1 .. Len(u) : /\ u[i].kind # "connect"
                            /\ u[i].kind = "disconnect" => cur = {u[i].sid}
  /\ \A i \in 1 .. Len(d) : ~Begins(d[i])
  /\ \A i, j \in 1 .. Len(d) : Ends(d[i]) /\ Ends(d[j]) => i = j
  /\ (\E i \in 1 .. Len(d) : Ends(d[i])) => ss = {}
  /\ (\A i \in 1 .. Len(d) : ~Ends(d[i])) => ss = cur

\* Between sessions a connect is the last thing sent and is awaited; the
\* database knows no session until it has handled it, and then just that one.
Between(u, d, aw, ss) ==
  /\ \A i \in 1 .. Len(u) :
       u[i].kind = "connect" => i = Len(u) /\ u[i].await \in aw
  /\ \A i \in 1 .. Len(d) : ~Ends(d[i])
  /\ \A i \in 1 .. Len(d) :
       Begins(d[i]) => Len(u) = 0 /\ d[i].await \in aw /\ ss = {d[i].sid}
  /\ \A i, j \in 1 .. Len(d) : Begins(d[i]) /\ Begins(d[j]) => i = j
  /\ (\A i \in 1 .. Len(d) : ~Begins(d[i])) => ss = {}

Agree(cur, u, d, aw, ss) ==
  IF cur = {} THEN Between(u, d, aw, ss) ELSE InSession(cur, u, d, ss)

SInvOf(r) ==
  /\ Own(r, Current(r), up[r], down[r])
  /\ r \in open => Agree(Current(r), up[r], down[r], awaiting[r], SessionsOf(r))

SInv == \A r \in Replicas : SInvOf(r)

\* What is sent, handled or received on a channel, one lemma for each.
LEMMA NeutralSent ==
  ASSUME NEW r, NEW cur, NEW aw, NEW ss,
         NEW u \in Seq(UpMessages), NEW d \in Seq(DownMessages),
         NEW out \in Seq(DownMessages),
         \A i \in 1 .. Len(out) : Neutral(out[i])
  PROVE  /\ Agree(cur, u, d, aw, ss) => Agree(cur, u, d \o out, aw, ss)
         /\ Own(r, cur, u, d) => Own(r, cur, u, d \o out)
<1> DEFINE e == d \o out
<1>1. /\ Len(e) = Len(d) + Len(out) /\ Len(d) \in Nat /\ Len(out) \in Nat
      /\ \A i \in 1 .. Len(d) : e[i] = d[i]
      /\ \A i \in 1 .. Len(e) : i > Len(d) => e[i] = out[i - Len(d)]
  BY ConcatProperties, LenProperties
<1> HIDE DEF e
<1>2. \A i \in 1 .. Len(e) : \/ i \in 1 .. Len(d) /\ e[i] = d[i]
                             \/ Neutral(e[i])
  <2>1. ASSUME NEW i \in 1 .. Len(e), i > Len(d)
        PROVE  Neutral(e[i])
    <3>1. i - Len(d) \in 1 .. Len(out) /\ e[i] = out[i - Len(d)]
      BY <1>1, <2>1
    <3>2. Neutral(out[i - Len(d)])
      BY <3>1
    <3> QED
      BY <3>1, <3>2
  <2> QED
    BY <1>1, <2>1
<1>3. 1 .. Len(d) \subseteq 1 .. Len(e)
  BY <1>1
<1>4. \A m : Neutral(m) => ~Begins(m) /\ ~Ends(m)
                             /\ (m.kind = "ack" => m.await.then # "connect")
  BY DEF Neutral, Begins, Ends
<1>5. Own(r, cur, u, d) => Own(r, cur, u, e)
  BY <1>2, <1>4 DEF Own
<1>6. InSession(cur, u, d, ss) => InSession(cur, u, e, ss)
  BY <1>1, <1>2, <1>3, <1>4 DEF InSession
<1>7. Between(u, d, aw, ss) => Between(u, e, aw, ss)
  BY <1>1, <1>2, <1>3, <1>4 DEF Between
<1> QED
  BY <1>5, <1>6, <1>7 DEF Agree, e

\* A write that leaves the up channel takes no session with it.
LEMMA WriteHandled ==
  ASSUME NEW r, NEW cur, NEW aw, NEW ss,
         NEW u \in Seq(UpMessages), NEW d \in Seq(DownMessages), u # <<>>
  PROVE  /\ Head(u).kind = "write" /\ Agree(cur, u, d, aw, ss)
              => Agree(cur, Tail(u), d, aw, ss)
         /\ Own(r, cur, u, d) => Own(r, cur, Tail(u), d)
<1> DEFINE v == Tail(u)
<1>1. /\ Len(v) = Len(u) - 1 /\ Len(u) \in Nat /\ Len(u) >= 1
      /\ \A i \in 1 .. Len(v) : v[i] = u[i + 1] /\ i + 1 \in 1 .. Len(u)
  BY Taken, LenProperties
<1> HIDE DEF v
<1>2. Own(r, cur, u, d) => Own(r, cur, v, d)
  BY SMTT(30), <1>1 DEF Own
<1>3. InSession(cur, u, d, ss) => InSession(cur, v, d, ss)
  BY SMTT(30), <1>1 DEF InSession
<1>4. Between(u, d, aw, ss) => Between(v, d, aw, ss)
  BY <1>1 DEF Between
<1> QED
  BY <1>2, <1>3, <1>4 DEF Agree, v

\* A write sent within a session leaves the session as it is.
LEMMA WriteSent ==
  ASSUME NEW r, NEW cur, NEW aw, NEW aw2, NEW ss,
         NEW u \in Seq(UpMessages), NEW d \in Seq(DownMessages),
         NEW w \in UpMessages, w.kind = "write"
  PROVE  /\ cur # {} /\ Agree(cur, u, d, aw, ss)
              => Agree(cur, Append(u, w), d, aw2, ss)
         /\ Own(r, cur, u, d) => Own(r, cur, Append(u, w), d)
<1> DEFINE v == Append(u, w)
<1>1. /\ Len(v) = Len(u) + 1 /\ Len(u) \in Nat
      /\ \A i \in 1 .. Len(v) : (i \in 1 .. Len(u) /\ v[i] = u[i]) \/ v[i] = w
  BY Sent, LenProperties
<1> HIDE DEF v
<1>2. Own(r, cur, u, d) => Own(r, cur, v, d)
  BY <1>1 DEF Own
<1>3. InSession(cur, u, d, ss) => InSession(cur, v, d, ss)
  BY <1>1 DEF InSession
<1> QED
  BY <1>2, <1>3 DEF Agree, v

\* A disconnect sent within a session leaves it until the ack comes back.
LEMMA DisconnectSent ==
  ASSUME NEW r, NEW sid, NEW a, NEW aw, NEW aw2, NEW ss,
         NEW u \in Seq(UpMessages), NEW d \in Seq(DownMessages),
         DisconnectMessage(sid, a) \in UpMessages,
         a.then \in {"disconnect", "rcDisconnect"}
  PROVE  /\ Agree({sid}, u, d, aw, ss)
              => Agree({sid}, Append(u, DisconnectMessage(sid, a)), d, aw2, ss)
         /\ Own(r, {sid}, u, d)
              => Own(r, {sid}, Append(u, DisconnectMessage(sid, a)), d)
<1> DEFINE w == DisconnectMessage(sid, a)
           v == Append(u, w)
<1>1. w.kind = "disconnect" /\ w.sid = sid /\ w.await = a
  BY DEF DisconnectMessage
<1> HIDE DEF w
<1>2. /\ Len(v) = Len(u) + 1 /\ Len(u) \in Nat
      /\ \A i \in 1 .. Len(v) : (i \in 1 .. Len(u) /\ v[i] = u[i]) \/ v[i] = w
  BY Sent, LenProperties DEF w
<1> HIDE DEF v
<1>3. Own(r, {sid}, u, d) => Own(r, {sid}, v, d)
  BY <1>1, <1>2 DEF Own
<1>4. InSession({sid}, u, d, ss) => InSession({sid}, v, d, ss)
  BY <1>1, <1>2 DEF InSession
<1>5. {sid} # {}
  OBVIOUS
<1> QED
  BY <1>3, <1>4, <1>5 DEF Agree, v, w

\* A connect may be sent when no session is left and none is being begun.
LEMMA ConnectSent ==
  ASSUME NEW r, NEW a, NEW aw, NEW ss,
         NEW u \in Seq(UpMessages), NEW d \in Seq(DownMessages),
         ConnectMessage(a) \in UpMessages, a \in aw, a.then = "connect"
  PROVE  /\ (/\ \A i \in 1 .. Len(u) : u[i].kind # "connect"
             /\ \A i \in 1 .. Len(d) : ~Begins(d[i]) /\ ~Ends(d[i])
             /\ ss = {})
              => Agree({}, Append(u, ConnectMessage(a)), d, aw, ss)
         /\ Own(r, {}, u, d) => Own(r, {}, Append(u, ConnectMessage(a)), d)
<1> DEFINE w == ConnectMessage(a)
           v == Append(u, w)
<1>1. w.kind = "connect" /\ w.await = a
  BY DEF ConnectMessage
<1> HIDE DEF w
<1>2. /\ Len(v) = Len(u) + 1 /\ Len(u) \in Nat /\ v[Len(v)] = w
      /\ \A i \in 1 .. Len(v) : \/ i \in 1 .. Len(u) /\ v[i] = u[i]
                                \/ i = Len(v) /\ v[i] = w
  BY Sent, LenProperties DEF w
<1> HIDE DEF v
<1>3. Own(r, {}, u, d) => Own(r, {}, v, d)
  BY SMTT(30), <1>1, <1>2 DEF Own
<1>4. (/\ \A i \in 1 .. Len(u) : u[i].kind # "connect"
       /\ \A i \in 1 .. Len(d) : ~Begins(d[i]) /\ ~Ends(d[i])
       /\ ss = {})
        => Agree({}, v, d, aw, ss)
  BY <1>1, <1>2 DEF Agree, Between
<1>5. v = Append(u, ConnectMessage(a))
  BY DEF v, w
<1> QED
  BY <1>3, <1>4, <1>5

\* The handled connect makes the session known to the database and posts the ack
\* that will begin it at the replica.
LEMMA ConnectHandled ==
  ASSUME NEW r, NEW cur, NEW aw, NEW ss, NEW m \in DownMessages,
         NEW u \in Seq(UpMessages), NEW d \in Seq(DownMessages), u # <<>>,
         Head(u).kind = "connect",
         m.kind = "connected", m.await = Head(u).await, m.sid[1] = r
  PROVE  /\ Agree(cur, u, d, aw, ss) =>
              ss = {} /\ Agree(cur, Tail(u), Append(d, m), aw, {m.sid})
         /\ Own(r, cur, u, d) => Own(r, cur, Tail(u), Append(d, m))
<1> DEFINE v == Tail(u)
           e == Append(d, m)
<1>1. /\ Len(v) = Len(u) - 1 /\ Len(u) \in Nat /\ Len(u) >= 1
      /\ 1 \in 1 .. Len(u) /\ u[1].kind = "connect" /\ u[1].await = m.await
      /\ \A i \in 1 .. Len(v) : v[i] = u[i + 1] /\ i + 1 \in 1 .. Len(u)
  BY Taken, LenProperties
<1>2. /\ Len(e) = Len(d) + 1 /\ Len(d) \in Nat /\ e[Len(e)] = m
      /\ \A i \in 1 .. Len(e) : \/ i \in 1 .. Len(d) /\ e[i] = d[i]
                                \/ i = Len(e) /\ e[i] = m
  BY Sent, LenProperties
<1> HIDE DEF v, e
<1>3. ASSUME Own(r, cur, u, d)
      PROVE  Own(r, cur, v, e)
  <2>1. /\ m.await.then = "connect"
        /\ \A i \in 1 .. Len(v) :
             /\ v[i].kind = "disconnect" =>
                  v[i].sid[1] = r /\ v[i].await.then \in {"disconnect", "rcDisconnect"}
             /\ v[i].kind = "connect" => v[i].await.then = "connect"
    BY SMTT(30), <1>1, <1>3 DEF Own
  <2>2. \A i \in 1 .. Len(e) :
          /\ Begins(e[i]) => e[i].sid[1] = r /\ e[i].await.then = "connect"
          /\ e[i].kind = "ack" => e[i].await.then # "connect"
    BY <1>2, <1>3, <2>1 DEF Own
  <2> QED
    BY <1>3, <2>1, <2>2 DEF Own
<1>4. ~InSession(cur, u, d, ss)
  BY <1>1 DEF InSession
<1>5. ASSUME Between(u, d, aw, ss)
      PROVE  ss = {} /\ Between(v, e, aw, {m.sid})
  <2>1. /\ Len(u) = 1 /\ m.await \in aw
        /\ \A i \in 1 .. Len(d) : ~Begins(d[i])
    BY <1>1, <1>5 DEF Between
  <2>2. Begins(m) /\ ~Ends(m)
    BY DEF Begins, Ends
  <2>3. \A i \in 1 .. Len(e) : ~Ends(e[i]) /\ (Begins(e[i]) => i = Len(e))
    BY <1>2, <1>5, <2>1, <2>2 DEF Between
  <2>4. Len(v) = 0 /\ Len(e) \in 1 .. Len(e)
    BY <1>1, <1>2, <2>1
  <2>5. ss = {}
    BY <1>5, <2>1 DEF Between
  <2> QED
    BY <1>2, <2>1, <2>2, <2>3, <2>4, <2>5 DEF Between
<1> QED
  BY <1>3, <1>4, <1>5 DEF Agree, v, e

\* The first disconnect of a session ends it, a later one finds it gone.
LEMMA DisconnectHandled ==
  ASSUME NEW r, NEW cur, NEW aw, NEW ss, NEW m \in DownMessages,
         NEW u \in Seq(UpMessages), NEW d \in Seq(DownMessages), u # <<>>,
         Head(u).kind = "disconnect", \E sid : cur \subseteq {sid},
         m.kind = "ack", m.await = Head(u).await, m.ok <=> Head(u).sid \in ss
  PROVE  Own(r, cur, u, d) =>
           /\ Agree(cur, u, d, aw, ss) =>
                Agree(cur, Tail(u), Append(d, m), aw, ss \ {Head(u).sid})
           /\ Own(r, cur, Tail(u), Append(d, m))
<1> DEFINE v == Tail(u)
           e == Append(d, m)
           sid == Head(u).sid
<1>1. /\ Len(v) = Len(u) - 1 /\ Len(u) \in Nat /\ Len(u) >= 1
      /\ 1 \in 1 .. Len(u) /\ u[1].kind = "disconnect" /\ u[1].await = m.await
      /\ u[1].sid = sid
      /\ \A i \in 1 .. Len(v) : v[i] = u[i + 1] /\ i + 1 \in 1 .. Len(u)
  BY Taken, LenProperties
<1>2. /\ Len(e) = Len(d) + 1 /\ Len(d) \in Nat /\ e[Len(e)] = m
      /\ \A i \in 1 .. Len(d) : i \in 1 .. Len(e) /\ e[i] = d[i]
      /\ \A i \in 1 .. Len(e) : \/ i \in 1 .. Len(d) /\ e[i] = d[i]
                                \/ i = Len(e) /\ e[i] = m
  BY Sent, LenProperties
<1>3. m.ok <=> sid \in ss
  OBVIOUS
<1> HIDE DEF v, e, sid
<1> SUFFICES ASSUME Own(r, cur, u, d)
             PROVE  /\ Agree(cur, u, d, aw, ss) => Agree(cur, v, e, aw, ss \ {sid})
                    /\ Own(r, cur, v, e)
  BY DEF v, e, sid
<1>4. m.await.then \in {"disconnect", "rcDisconnect"}
  BY <1>1 DEF Own
<1>5. ~Begins(m) /\ (Ends(m) <=> sid \in ss)
  BY <1>3, <1>4 DEF Begins, Ends
<1>6. Own(r, cur, v, e)
  <2>1. \A i \in 1 .. Len(v) :
          /\ v[i].kind = "disconnect" =>
               v[i].sid[1] = r /\ v[i].await.then \in {"disconnect", "rcDisconnect"}
          /\ v[i].kind = "connect" => v[i].await.then = "connect"
    BY <1>1 DEF Own
  <2>2. \A i \in 1 .. Len(e) :
          /\ Begins(e[i]) => e[i].sid[1] = r /\ e[i].await.then = "connect"
          /\ e[i].kind = "ack" => e[i].await.then # "connect"
    BY <1>2, <1>4, <1>5 DEF Own
  <2> QED
    BY <2>1, <2>2 DEF Own
<1>7. ASSUME InSession(cur, u, d, ss)
      PROVE  InSession(cur, v, e, ss \ {sid})
  <2>1. cur = {sid}
    BY <1>1, <1>7 DEF InSession
  <2>2. /\ \A i \in 1 .. Len(v) : /\ v[i].kind # "connect"
                                  /\ v[i].kind = "disconnect" => cur = {v[i].sid}
        /\ \A i \in 1 .. Len(e) : ~Begins(e[i])
    BY SMTT(30), <1>1, <1>2, <1>5, <1>7 DEF InSession
  <2>3. CASE \E i \in 1 .. Len(d) : Ends(d[i])
    <3>1. ss = {} /\ ~Ends(m) /\ ss \ {sid} = {}
      BY <1>5, <1>7, <2>3 DEF InSession
    <3>2. /\ \A i, j \in 1 .. Len(e) : Ends(e[i]) /\ Ends(e[j]) => i = j
          /\ \E i \in 1 .. Len(e) : Ends(e[i])
      BY <1>2, <1>7, <2>3, <3>1 DEF InSession
    <3> QED
      BY <2>2, <3>1, <3>2 DEF InSession
  <2>4. CASE \A i \in 1 .. Len(d) : ~Ends(d[i])
    <3>1. ss = {sid} /\ Ends(m)
      BY <1>5, <1>7, <2>1, <2>4 DEF InSession
    <3>2. ss \ {sid} = {} /\ Len(e) \in 1 .. Len(e)
      BY <1>2, <3>1
    <3>3. /\ \A i, j \in 1 .. Len(e) : Ends(e[i]) /\ Ends(e[j]) => i = j
          /\ \E i \in 1 .. Len(e) : Ends(e[i])
      BY <1>2, <2>4, <3>1, <3>2
    <3> QED
      BY <2>2, <3>2, <3>3 DEF InSession
  <2> QED
    BY <2>3, <2>4
<1>8. ASSUME Between(u, d, aw, ss)
      PROVE  Between(v, e, aw, ss \ {sid})
  <2>1. /\ \A i \in 1 .. Len(d) : ~Begins(d[i])
        /\ ss = {}
    BY <1>1, <1>8 DEF Between
  <2>2. ~Ends(m) /\ ss \ {sid} = {}
    BY <1>5, <2>1
  <2>3. \A i \in 1 .. Len(v) :
          v[i].kind = "connect" => i = Len(v) /\ v[i].await \in aw
    BY <1>1, <1>8 DEF Between
  <2>4. \A i \in 1 .. Len(e) : ~Begins(e[i]) /\ ~Ends(e[i])
    BY <1>2, <1>5, <1>8, <2>1, <2>2 DEF Between
  <2> QED
    BY <2>2, <2>3, <2>4 DEF Between
<1> QED
  BY <1>6, <1>7, <1>8 DEF Agree

\* An ack is received; that of a disconnect which was accepted ends the session.
LEMMA AckReceived ==
  ASSUME NEW r, NEW cur, NEW c, NEW aw, NEW ss,
         NEW u \in Seq(UpMessages), NEW d \in Seq(DownMessages), d # <<>>,
         Head(d).kind = "ack",
         (Ends(Head(d)) /\ c = {}) \/ (~Ends(Head(d)) /\ c = cur)
  PROVE  Own(r, cur, u, d) =>
           /\ Agree(cur, u, d, aw, ss) =>
                Agree(c, u, Tail(d), aw \ {Head(d).await}, ss)
           /\ Own(r, c, u, Tail(d))
<1> DEFINE e == Tail(d)
           m == Head(d)
<1>1. /\ Len(e) = Len(d) - 1 /\ Len(d) \in Nat /\ Len(d) >= 1
      /\ 1 \in 1 .. Len(d) /\ d[1] = m
      /\ \A i \in 1 .. Len(e) : e[i] = d[i + 1] /\ i + 1 \in 1 .. Len(d)
      /\ \A i \in 1 .. Len(d) : i = 1 \/ (i - 1 \in 1 .. Len(e) /\ e[i - 1] = d[i])
  BY Taken, LenProperties
<1>2. m.kind = "ack" /\ ~Begins(m)
  BY DEF Begins
<1> HIDE DEF e, m
<1> SUFFICES ASSUME Own(r, cur, u, d)
             PROVE  /\ Agree(cur, u, d, aw, ss) => Agree(c, u, e, aw \ {m.await}, ss)
                    /\ Own(r, c, u, e)
  BY DEF e, m
<1>c. (Ends(m) /\ c = {}) \/ (~Ends(m) /\ c = cur)
  BY DEF m
<1>3. Own(r, c, u, e)
  BY <1>1, <1>c DEF Own
<1>4. ASSUME InSession(cur, u, d, ss), ~Ends(m)
      PROVE  InSession(cur, u, e, ss)
  <2>1. (\E i \in 1 .. Len(d) : Ends(d[i])) => \E i \in 1 .. Len(e) : Ends(e[i])
    BY <1>1, <1>4
  <2>2. (\A i \in 1 .. Len(e) : ~Ends(e[i])) => \A i \in 1 .. Len(d) : ~Ends(d[i])
    BY <2>1
  <2>3. ASSUME NEW i \in 1 .. Len(e), NEW j \in 1 .. Len(e),
               Ends(e[i]), Ends(e[j])
        PROVE  i = j
    <3>1. /\ i + 1 \in 1 .. Len(d) /\ Ends(d[i + 1])
          /\ j + 1 \in 1 .. Len(d) /\ Ends(d[j + 1])
      BY <1>1, <2>3
    <3>2. i + 1 = j + 1
      BY <1>4, <3>1 DEF InSession
    <3> QED
      BY <3>2
  <2> QED
    BY <1>1, <1>4, <2>1, <2>2, <2>3 DEF InSession
<1>5. ASSUME InSession(cur, u, d, ss), Ends(m)
      PROVE  Between(u, e, aw \ {m.await}, ss)
  <2>1. ss = {} /\ \A i \in 1 .. Len(u) : u[i].kind # "connect"
    BY <1>1, <1>5 DEF InSession
  <2>2. \A i \in 1 .. Len(e) : ~Begins(e[i]) /\ ~Ends(e[i])
    BY <1>1, <1>5 DEF InSession
  <2> QED
    BY <2>1, <2>2 DEF Between
<1>6. ASSUME Between(u, d, aw, ss)
      PROVE  ~Ends(m) /\ Between(u, e, aw \ {m.await}, ss)
  <2>1. ~Ends(m) /\ m.await.then # "connect"
    BY <1>1, <1>2, <1>6 DEF Between, Own
  <2>2. \A i \in 1 .. Len(u) : u[i].kind = "connect" =>
          i = Len(u) /\ u[i].await \in aw \ {m.await}
    BY <1>6, <2>1 DEF Between, Own
  <2>3. \A i \in 1 .. Len(e) : ~Ends(e[i])
    BY <1>1, <1>6 DEF Between
  <2>4. \A i \in 1 .. Len(e) : Begins(e[i]) =>
          Len(u) = 0 /\ e[i].await \in aw \ {m.await} /\ ss = {e[i].sid}
    <3>1. \A i \in 1 .. Len(d) : Begins(d[i]) => d[i].await.then = "connect"
      BY DEF Own
    <3> QED
      BY <1>1, <1>6, <2>1, <3>1 DEF Between
  <2>5. ASSUME NEW i \in 1 .. Len(e), NEW j \in 1 .. Len(e),
               Begins(e[i]), Begins(e[j])
        PROVE  i = j
    <3>1. /\ i + 1 \in 1 .. Len(d) /\ Begins(d[i + 1])
          /\ j + 1 \in 1 .. Len(d) /\ Begins(d[j + 1])
      BY <1>1, <2>5
    <3>2. i + 1 = j + 1
      BY <1>6, <3>1 DEF Between
    <3> QED
      BY <3>2
  <2>6. (\A i \in 1 .. Len(e) : ~Begins(e[i])) => ss = {}
    BY <1>1, <1>2, <1>6 DEF Between
  <2> QED
    BY <2>1, <2>2, <2>3, <2>4, <2>5, <2>6 DEF Between
<1>7. CASE cur = {}
  BY <1>c, <1>3, <1>6, <1>7 DEF Agree
<1>8. CASE cur # {}
  BY <1>c, <1>3, <1>4, <1>5, <1>8 DEF Agree
<1> QED
  BY <1>7, <1>8

\* The ack of a connect begins the session the database knows already.
LEMMA ConnectedReceived ==
  ASSUME NEW r, NEW cur, NEW aw, NEW aw2, NEW ss,
         NEW u \in Seq(UpMessages), NEW d \in Seq(DownMessages), d # <<>>,
         Head(d).kind = "connected"
  PROVE  Own(r, cur, u, d) =>
           /\ Agree(cur, u, d, aw, ss) =>
                Agree({Head(d).sid}, u, Tail(d), aw2, ss)
           /\ Own(r, {Head(d).sid}, u, Tail(d))
<1> DEFINE e == Tail(d)
           m == Head(d)
           new == {m.sid}
<1>1. /\ Len(e) = Len(d) - 1 /\ Len(d) \in Nat /\ Len(d) >= 1
      /\ 1 \in 1 .. Len(d) /\ d[1] = m
      /\ \A i \in 1 .. Len(e) : e[i] = d[i + 1] /\ i + 1 \in 1 .. Len(d)
  BY Taken, LenProperties
<1>2. Begins(m) /\ new # {} /\ \A s \in new : s = m.sid
  BY DEF Begins
<1>3. new = {m.sid}
  OBVIOUS
<1> HIDE DEF e, m, new
<1>4. Own(r, cur, u, d) => Own(r, new, u, e)
  BY <1>1, <1>2 DEF Own
<1>5. ~InSession(cur, u, d, ss)
  BY <1>1, <1>2 DEF InSession
<1>6. ASSUME Between(u, d, aw, ss)
      PROVE  InSession(new, u, e, ss)
  <2>1. Len(u) = 0 /\ ss = new
    BY <1>1, <1>2, <1>3, <1>6 DEF Between
  <2>2. ASSUME NEW i \in 1 .. Len(e)
        PROVE  ~Begins(e[i]) /\ ~Ends(e[i])
    <3>1. /\ i + 1 \in 1 .. Len(d) /\ e[i] = d[i + 1] /\ i + 1 # 1
      BY <1>1
    <3>2. Begins(d[1])
      BY <1>1, <1>2
    <3>3. ~Begins(d[i + 1]) /\ ~Ends(d[i + 1])
      BY <1>1, <1>6, <3>1, <3>2 DEF Between
    <3> QED
      BY <3>1, <3>3
  <2> QED
    BY <2>1, <2>2 DEF InSession
<1>7. Agree(cur, u, d, aw, ss) => Agree(new, u, e, aw2, ss)
  BY <1>2, <1>5, <1>6 DEF Agree
<1> QED
  BY <1>4, <1>7 DEF e, m, new

\* A message that neither begins nor ends a session changes nothing when received.
LEMMA NeutralReceived ==
  ASSUME NEW r, NEW cur, NEW aw, NEW ss,
         NEW u \in Seq(UpMessages), NEW d \in Seq(DownMessages), d # <<>>,
         Neutral(Head(d))
  PROVE  /\ Agree(cur, u, d, aw, ss) => Agree(cur, u, Tail(d), aw, ss)
         /\ Own(r, cur, u, d) => Own(r, cur, u, Tail(d))
<1> DEFINE e == Tail(d)
<1>1. /\ Len(e) = Len(d) - 1 /\ Len(d) \in Nat /\ Len(d) >= 1
      /\ ~Begins(d[1]) /\ ~Ends(d[1])
      /\ \A i \in 1 .. Len(e) : e[i] = d[i + 1] /\ i + 1 \in 1 .. Len(d)
      /\ \A i \in 1 .. Len(d) : i = 1 \/ (i - 1 \in 1 .. Len(e) /\ e[i - 1] = d[i])
  BY Taken, LenProperties DEF Neutral, Begins, Ends
<1> HIDE DEF e
<1>2. Own(r, cur, u, d) => Own(r, cur, u, e)
  BY <1>1 DEF Own
<1>3. InSession(cur, u, d, ss) => InSession(cur, u, e, ss)
  <2> SUFFICES ASSUME InSession(cur, u, d, ss) PROVE InSession(cur, u, e, ss)
    OBVIOUS
  <2>1. (\E i \in 1 .. Len(d) : Ends(d[i])) => \E i \in 1 .. Len(e) : Ends(e[i])
    BY <1>1
  <2>2. (\A i \in 1 .. Len(e) : ~Ends(e[i])) => \A i \in 1 .. Len(d) : ~Ends(d[i])
    BY <2>1
  <2>3. ASSUME NEW i \in 1 .. Len(e), NEW j \in 1 .. Len(e),
               Ends(e[i]), Ends(e[j])
        PROVE  i = j
    <3>1. /\ i + 1 \in 1 .. Len(d) /\ Ends(d[i + 1])
          /\ j + 1 \in 1 .. Len(d) /\ Ends(d[j + 1])
      BY <1>1, <2>3
    <3>2. i + 1 = j + 1
      BY <3>1 DEF InSession
    <3> QED
      BY <3>2
  <2> QED
    BY <1>1, <2>1, <2>2, <2>3 DEF InSession
<1>4. Between(u, d, aw, ss) => Between(u, e, aw, ss)
  <2> SUFFICES ASSUME Between(u, d, aw, ss) PROVE Between(u, e, aw, ss)
    OBVIOUS
  <2>1. ASSUME NEW i \in 1 .. Len(e), NEW j \in 1 .. Len(e),
               Begins(e[i]), Begins(e[j])
        PROVE  i = j
    <3>1. /\ i + 1 \in 1 .. Len(d) /\ Begins(d[i + 1])
          /\ j + 1 \in 1 .. Len(d) /\ Begins(d[j + 1])
      BY <1>1, <2>1
    <3>2. i + 1 = j + 1
      BY <3>1 DEF Between
    <3> QED
      BY <3>2
  <2>2. (\A i \in 1 .. Len(e) : ~Begins(e[i])) => ss = {}
    BY <1>1 DEF Between
  <2> QED
    BY <1>1, <2>1, <2>2 DEF Between
<1> QED
  BY <1>2, <1>3, <1>4 DEF Agree, e

------------------------------------------------------------------------------
\* No replica is connected, the channels are empty and the database has no session.
LEMMA InitSInv == Init => SInv
<1> SUFFICES ASSUME Init, NEW r \in Replicas
             PROVE  SInvOf(r)
  BY DEF SInv
<1>1. Current(r) = {} /\ Len(up[r]) = 0 /\ Len(down[r]) = 0 /\ SessionsOf(r) = {}
  BY EmptySeq DEF Init, Current, IsConnected, Disconnected, SessionsOf
<1>2. Own(r, Current(r), up[r], down[r])
  BY <1>1 DEF Own
<1>3. Agree(Current(r), up[r], down[r], awaiting[r], SessionsOf(r))
  BY <1>1 DEF Agree, Between
<1> QED
  BY <1>2, <1>3 DEF SInvOf

\* A replica nothing happens to.
LEMMA Untouched ==
  ASSUME NEW q \in Replicas, SInvOf(q),
         state'[q] = state[q], up'[q] = up[q], down'[q] = down[q],
         awaiting'[q] = awaiting[q], SessionsOf(q)' = SessionsOf(q),
         q \in open' => q \in open
  PROVE  SInvOf(q)'
<1>1. Current(q)' = Current(q)
  BY DEF Current, IsConnected
<1> QED
  BY <1>1 DEF SInvOf

\* A message for one replica arrives behind those of its channel, if that is open.
LEMMA OnlyPosted ==
  ASSUME TInv, NEW r \in Replicas, NEW m \in DownMessages, Post(Only(r, m)),
         NEW q \in Replicas
  PROVE  down'[q] = IF q = r /\ r \in open THEN Append(down[q], m) ELSE down[q]
<1>1. down[q] \in Seq(DownMessages)
  BY DEF TInv, TypeOK
<1>2. down[q] \o <<>> = down[q]
  BY <1>1, ConcatEmptySeq
<1>3. down[q] \o <<m>> = Append(down[q], m)
  BY <1>1, AppendIsConcat
<1>4. Only(r, m)[q] = IF q = r THEN <<m>> ELSE <<>>
  BY DEF Only
<1> QED
  BY <1>2, <1>3, <1>4 DEF Post

\* Broadcasts do not touch the session.
LEMMA Broadcasted ==
  ASSUME TInv, NEW out \in [Replicas -> Seq(DownMessages)], Post(out),
         \A q \in Replicas : \A i \in 1 .. Len(out[q]) : Neutral(out[q][i]),
         NEW q \in Replicas, NEW u \in Seq(UpMessages), NEW cur, NEW aw, NEW ss
  PROVE  /\ Own(q, cur, u, down[q]) => Own(q, cur, u, down'[q])
         /\ Agree(cur, u, down[q], aw, ss) => Agree(cur, u, down'[q], aw, ss)
<1>1. /\ down[q] \in Seq(DownMessages) /\ out[q] \in Seq(DownMessages)
      /\ \A i \in 1 .. Len(out[q]) : Neutral(out[q][i])
  BY DEF TInv, TypeOK
<1>2. /\ Own(q, cur, u, down[q]) => Own(q, cur, u, down[q] \o out[q])
      /\ Agree(cur, u, down[q], aw, ss)
           => Agree(cur, u, down[q] \o out[q], aw, ss)
  BY <1>1, NeutralSent
<1>3. down'[q] = down[q] \o out[q] \/ down'[q] = down[q]
  BY DEF Post
<1> QED
  BY <1>2, <1>3

\* A root.set is applied: with or without a message taken from a channel.
LEMMA WriteApplied ==
  ASSUME TInv, NEW w \in WriteMessages, Post(WriteOut(w)),
         NEW q \in Replicas, NEW u \in Seq(UpMessages), NEW cur, NEW aw, NEW ss
  PROVE  /\ Own(q, cur, u, down[q]) => Own(q, cur, u, down'[q])
         /\ Agree(cur, u, down[q], aw, ss) => Agree(cur, u, down'[q], aw, ss)
<1>1. \A p \in Replicas : \A i \in 1 .. Len(WriteOut(w)[p]) :
        Neutral(WriteOut(w)[p][i])
  BY WriteOutTypes DEF Neutral
<1>2. WriteOut(w) \in [Replicas -> Seq(DownMessages)]
  BY WriteOutTypes
<1> QED
  BY <1>1, <1>2, Broadcasted

\* What the type invariant says of one replica's channels.
LEMMA Typed ==
  ASSUME TInv, NEW q \in Replicas
  PROVE  up[q] \in Seq(UpMessages) /\ down[q] \in Seq(DownMessages)
  BY DEF TInv, TypeOK

\* Sessions of one replica are not another's.
LEMMA OthersSessions ==
  ASSUME NEW r, NEW q, r # q, NEW sid, sid[1] = r,
         sessions' = sessions \cup {sid} \/ sessions' = sessions \ {sid}
  PROVE  SessionsOf(q)' = SessionsOf(q)
  BY DEF SessionsOf

\* Every step keeps the sessions of every replica in agreement.
LEMMA StepSInv == TInv /\ SInv /\ [Next]_vars => SInv'
<1> SUFFICES ASSUME TInv, SInv, [Next]_vars, NEW q \in Replicas
             PROVE  SInvOf(q)'
  BY DEF SInv
<1> DEFINE u == up[q]
           d == down[q]
           cur == Current(q)
           ss == SessionsOf(q)
<1>q. /\ SInvOf(q) /\ Own(q, cur, u, d)
      /\ q \in open => Agree(cur, u, d, awaiting[q], ss)
      /\ u \in Seq(UpMessages) /\ d \in Seq(DownMessages)
  BY Typed DEF SInv, SInvOf
<1>1. ASSUME NEW r \in Replicas, Connect(r)
      PROVE  SInvOf(q)'
  <2> DEFINE a == [then |-> "connect", req |-> requests[r] + 1]
  <2>1. /\ awaiting' = [awaiting EXCEPT ![r] = @ \cup {a}]
        /\ Send(r, ConnectMessage(a))
        /\ UNCHANGED <<sessions, state, down, open>>
        /\ r \in open /\ awaiting[r] = {} /\ ~IsConnected(r)
    BY <1>1 DEF Connect, Request, dbVars
  <2>2. up' = [up EXCEPT ![r] = Append(@, ConnectMessage(a))]
    BY <2>1 DEF Send
  <2>3. CASE q # r
    BY <1>q, <2>1, <2>2, <2>3, Untouched DEF TInv, TypeOK, SessionsOf
  <2>4. CASE q = r
    <3>1. /\ a \in Awaits /\ ConnectMessage(a) \in UpMessages
          /\ a.then = "connect"
      BY RequestTypes, Built DEF TInv
    <3>2. cur = {} /\ Current(q)' = {} /\ SessionsOf(q)' = ss
      BY <2>1, <2>4 DEF Current, IsConnected, SessionsOf
    <3>3. Between(u, d, {}, ss)
      BY <1>q, <2>1, <2>4, <3>2 DEF Agree
    <3>4. /\ \A i \in 1 .. Len(u) : u[i].kind # "connect"
          /\ \A i \in 1 .. Len(d) : ~Begins(d[i]) /\ ~Ends(d[i])
          /\ ss = {}
      BY <3>3 DEF Between
    <3>5. /\ up'[q] = Append(u, ConnectMessage(a)) /\ down'[q] = d
          /\ a \in awaiting'[q] /\ open' = open
      BY <2>1, <2>2, <2>4 DEF TInv, TypeOK
    <3> HIDE DEF a, u, d, cur, ss
    <3>6. /\ Agree({}, Append(u, ConnectMessage(a)), d, awaiting'[q], ss)
          /\ Own(q, {}, Append(u, ConnectMessage(a)), d)
      BY <1>q, <3>1, <3>2, <3>4, <3>5, ConnectSent
    <3> QED
      BY <3>2, <3>5, <3>6 DEF SInvOf
  <2> QED
    BY <2>3, <2>4
<1>2. ASSUME NEW r \in Replicas, NEW then \in {"disconnect", "rcDisconnect"},
             LET m(a) == DisconnectMessage(state[r].sid, a) IN Request(r, then, m),
             IsConnected(r), UNCHANGED <<sessions, state, open>>,
             \/ UNCHANGED down
             \/ down[r] # <<>> /\ Neutral(Head(down[r])) /\ Pop(r)
      PROVE  SInvOf(q)'
  <2> DEFINE a == [then |-> then, req |-> requests[r] + 1]
             w == DisconnectMessage(state[r].sid, a)
  <2>1. /\ awaiting' = [awaiting EXCEPT ![r] = @ \cup {a}]
        /\ up' = IF r \in open THEN [up EXCEPT ![r] = Append(@, w)] ELSE up
    BY <1>2 DEF Request, Send
  <2>2. CASE q # r
    BY <1>q, <1>2, <2>1, <2>2, Untouched DEF TInv, TypeOK, SessionsOf, Pop
  <2>3. CASE q = r
    <3> DEFINE sid == state[q].sid
    <3>1. /\ a \in Awaits /\ a.then \in {"disconnect", "rcDisconnect"}
      BY RequestTypes DEF TInv
    <3>2. DisconnectMessage(sid, a) \in UpMessages
      <4>1. IsConnected(q)
        BY <1>2, <2>3
      <4>2. sid \in Sids
        BY <4>1 DEF IsConnected, TInv, TypeOK, Disconnected
      <4> QED
        BY <3>1, <4>2, Built
    <3>3. cur = {sid} /\ Current(q)' = {sid} /\ SessionsOf(q)' = ss
      BY <1>2, <2>3 DEF Current, IsConnected, SessionsOf
    <3>4. /\ up'[q] = Append(u, DisconnectMessage(sid, a)) \/ up'[q] = u
          /\ q \in open => up'[q] = Append(u, DisconnectMessage(sid, a))
          /\ down'[q] = d \/ (d # <<>> /\ Neutral(Head(d)) /\ down'[q] = Tail(d))
          /\ open' = open
      BY <1>2, <2>1, <2>3 DEF TInv, TypeOK, Pop
    <3> HIDE DEF a, u, d, cur, ss, sid
    <3>5. /\ Own(q, cur, u, down'[q]) /\ down'[q] \in Seq(DownMessages)
          /\ q \in open => Agree(cur, u, down'[q], awaiting[q], ss)
      BY <1>q, <3>4, NeutralReceived, Taken
    <3>6. /\ Own(q, {sid}, Append(u, DisconnectMessage(sid, a)), down'[q])
          /\ q \in open => Agree({sid}, Append(u, DisconnectMessage(sid, a)),
                                 down'[q], awaiting'[q], ss)
      BY <1>q, <3>1, <3>2, <3>3, <3>5, DisconnectSent
    <3> QED
      BY <3>3, <3>4, <3>5, <3>6 DEF SInvOf
  <2> QED
    BY <2>2, <2>3

<1>3. ASSUME NEW r \in Replicas, NEW k \in Keys, Write(r, k)
      PROVE  SInvOf(q)'
  <2> DEFINE w == [kind |-> "write", sid |-> state[r].sid,
                   key |-> k, val |-> writes + 1]
  <2>1. /\ state' = [state EXCEPT ![r].root[k] = writes + 1]
        /\ awaiting' = [awaiting EXCEPT ![r] =
                          @ \cup {[then |-> "write", req |-> writes + 1]}]
        /\ up' = IF r \in open THEN [up EXCEPT ![r] = Append(@, w)] ELSE up
        /\ UNCHANGED <<sessions, down, open>> /\ IsConnected(r)
    BY <1>3 DEF Write, Send, dbVars
  <2>2. CASE q # r
    BY <1>q, <2>1, <2>2, Untouched DEF TInv, TypeOK, SessionsOf
  <2>3. CASE q = r
    <3>1. w \in UpMessages /\ w.kind = "write"
      <4>1. state[r].sid \in Sids
        BY <2>1 DEF IsConnected, TInv, TypeOK, Disconnected
      <4>2. writes + 1 \in Values
        BY <1>3, BoundsAssumption DEF Write, TInv, TypeOK, Values
      <4> QED
        BY <4>1, <4>2, Built DEF WriteMessages
    <3>2. Current(q)' = cur /\ cur # {} /\ SessionsOf(q)' = ss
      BY <2>1, <2>3 DEF Current, IsConnected, SessionsOf, TInv, TypeOK, Disconnected
    <3>3. /\ up'[q] = Append(u, w) \/ up'[q] = u
          /\ q \in open => up'[q] = Append(u, w)
          /\ down'[q] = d /\ open' = open
      BY <2>1, <2>3 DEF TInv, TypeOK
    <3> HIDE DEF w, u, d, cur, ss
    <3>4. /\ Own(q, cur, Append(u, w), d)
          /\ q \in open => Agree(cur, Append(u, w), d, awaiting'[q], ss)
      BY <1>q, <3>1, <3>2, WriteSent
    <3> QED
      BY <1>q, <3>2, <3>3, <3>4 DEF SInvOf
  <2> QED
    BY <2>2, <2>3
<1>4. ASSUME NEW r \in Replicas, ReceiveAck(r)
      PROVE  SInvOf(q)'
  <2> DEFINE m == Head(down[r])
  <2>1. /\ down[r] # <<>> /\ m.kind \in {"ack", "connected"}
        /\ m.await.then = "rcDisconnect" => ~m.ok
        /\ awaiting' = [awaiting EXCEPT ![r] = @ \ {m.await}]
        /\ state' = [state EXCEPT ![r] = Deliver(@, m)]
        /\ down' = [down EXCEPT ![r] = Tail(@)]
        /\ UNCHANGED <<sessions, up, open>>
    BY <1>4 DEF ReceiveAck, Pop, dbVars
  <2>2. CASE q # r
    BY <1>q, <2>1, <2>2, Untouched DEF TInv, TypeOK, SessionsOf
  <2>3. CASE q = r
    <3>1. /\ d # <<>> /\ Head(d) = m /\ SessionsOf(q)' = ss /\ open' = open
          /\ down'[q] = Tail(d) /\ up'[q] = u
          /\ awaiting'[q] = awaiting[q] \ {Head(d).await}
          /\ state'[q] = Deliver(state[q], m)
      BY <2>1, <2>3 DEF TInv, TypeOK, SessionsOf
    <3>2. CASE m.kind = "connected"
      <4>1. Current(q)' = {m.sid}
        BY <3>1, <3>2 DEF Current, IsConnected, Deliver, Connected
      <4> HIDE DEF u, d, cur, ss, m
      <4>2. /\ Own(q, {m.sid}, u, Tail(d))
            /\ q \in open => Agree({m.sid}, u, Tail(d), awaiting'[q], ss)
        BY <1>q, <3>1, <3>2, ConnectedReceived
      <4> QED
        BY <3>1, <4>1, <4>2 DEF SInvOf
    <3>3. CASE m.kind = "ack"
      <4>1. (Ends(m) /\ Current(q)' = {}) \/ (~Ends(m) /\ Current(q)' = cur)
        <5>1. CASE Ends(m)
          <6>1. state'[q] = Disconnected
            BY <3>1, <3>3, <5>1 DEF Deliver, Ends
          <6>2. Current(q)' = {}
            BY <6>1 DEF Current, IsConnected, Disconnected
          <6> QED
            BY <5>1, <6>2, Zenon
        <5>2. CASE ~Ends(m)
          <6>1. state'[q] = state[q]
            BY <3>1, <3>3, <5>2 DEF Deliver, Ends
          <6>2. Current(q)' = cur
            BY <6>1 DEF Current, IsConnected
          <6> QED
            BY <5>2, <6>2, Zenon
        <5> QED
          BY <5>1, <5>2
      <4> DEFINE c == Current(q)'
      <4> HIDE DEF u, d, cur, ss, m, c
      <4>2. /\ Own(q, c, u, Tail(d))
            /\ q \in open => Agree(c, u, Tail(d), awaiting[q] \ {Head(d).await}, ss)
        <5>1. m = Head(d)
          BY <3>1
        <5>2. (Ends(Head(d)) /\ c = {}) \/ (~Ends(Head(d)) /\ c = cur)
          BY <4>1, <5>1, Zenon DEF c
        <5>3. Head(d).kind = "ack"
          BY <3>3, <5>1
        <5> QED
          BY <1>q, <3>1, <5>2, <5>3, AckReceived
      <4> QED
        BY <3>1, <4>2 DEF SInvOf, c
    <3> QED
      BY <2>1, <3>2, <3>3
  <2> QED
    BY <2>2, <2>3
<1>5. ASSUME NEW r \in Replicas, ReceiveReconnectAck(r)
      PROVE  SInvOf(q)'
  <2> DEFINE m == Head(down[r])
             a == [then |-> "connect", req |-> requests[r] + 1]
  <2>1. /\ down[r] # <<>> /\ m.kind = "ack" /\ m.ok
        /\ m.await.then = "rcDisconnect"
        /\ state' = [state EXCEPT ![r] = Deliver(@, m)]
        /\ awaiting' = [awaiting EXCEPT ![r] = (@ \ {m.await}) \cup {a}]
        /\ up' = IF r \in open
                 THEN [up EXCEPT ![r] = Append(@, ConnectMessage(a))] ELSE up
        /\ down' = [down EXCEPT ![r] = Tail(@)]
        /\ UNCHANGED <<sessions, open>>
    BY <1>5 DEF ReceiveReconnectAck, Send, Pop, dbVars
  <2>2. CASE q # r
    BY <1>q, <2>1, <2>2, Untouched DEF TInv, TypeOK, SessionsOf
  <2>3. CASE q = r
    <3>1. /\ d # <<>> /\ Head(d) = m /\ SessionsOf(q)' = ss /\ open' = open
          /\ down'[q] = Tail(d)
          /\ up'[q] = u \/ up'[q] = Append(u, ConnectMessage(a))
          /\ q \in open => up'[q] = Append(u, ConnectMessage(a))
          /\ a \in awaiting'[q]
          /\ state'[q] = Deliver(state[q], m)
      BY <2>1, <2>3 DEF TInv, TypeOK, SessionsOf
    <3>2. Ends(m) /\ Current(q)' = {}
      <4>1. Ends(m)
        BY <2>1 DEF Ends
      <4>2. state'[q] = Disconnected
        BY <2>1, <3>1 DEF Deliver
      <4> QED
        BY <4>1, <4>2 DEF Current, IsConnected, Disconnected
    <3>3. /\ a \in Awaits /\ ConnectMessage(a) \in UpMessages
          /\ a.then = "connect" /\ Tail(d) \in Seq(DownMessages)
      BY <1>q, <3>1, RequestTypes, Built, Taken DEF TInv
    <3> HIDE DEF u, d, cur, ss, m, a
    <3>4. /\ Own(q, {}, u, Tail(d))
          /\ q \in open => Agree({}, u, Tail(d), awaiting[q] \ {Head(d).await}, ss)
      <4>1. Head(d).kind = "ack" /\ Ends(Head(d))
        BY <2>1, <3>1, <3>2
      <4> DEFINE none == {}
      <4>2. none = {}
        OBVIOUS
      <4> HIDE DEF none
      <4>3. /\ Own(q, none, u, Tail(d))
            /\ q \in open =>
                 Agree(none, u, Tail(d), awaiting[q] \ {Head(d).await}, ss)
        BY <1>q, <3>1, <4>1, <4>2, AckReceived
      <4> QED
        BY <4>2, <4>3
    <3>5. Own(q, {}, Append(u, ConnectMessage(a)), Tail(d))
      BY <1>q, <3>1, <3>3, <3>4, ConnectSent
    <3>6. ASSUME q \in open
          PROVE  Agree({}, Append(u, ConnectMessage(a)), Tail(d), awaiting'[q], ss)
      <4>1. InSession(cur, u, d, ss)
        <5>1. 1 \in 1 .. Len(d) /\ d[1] = m
          BY <1>q, <3>1, Taken, LenProperties
        <5>2. ~Between(u, d, awaiting[q], ss)
          BY <3>2, <5>1 DEF Between
        <5> QED
          BY <1>q, <3>6, <5>2 DEF Agree
      <4>2. /\ \A i \in 1 .. Len(u) : u[i].kind # "connect"
            /\ \A i \in 1 .. Len(Tail(d)) : ~Begins(Tail(d)[i])
        <5>1. \A i \in 1 .. Len(Tail(d)) :
                i + 1 \in 1 .. Len(d) /\ Tail(d)[i] = d[i + 1]
          BY <1>q, <3>1, Taken, LenProperties
        <5> QED
          BY <4>1, <5>1 DEF InSession
      <4>3. Between(u, Tail(d), awaiting[q] \ {Head(d).await}, ss)
        BY <3>4, <3>6 DEF Agree
      <4>4. (\A i \in 1 .. Len(Tail(d)) : ~Ends(Tail(d)[i])) /\ ss = {}
        BY <4>2, <4>3 DEF Between
      <4> QED
        BY <1>q, <3>1, <3>3, <4>2, <4>4, ConnectSent
    <3> QED
      BY <3>1, <3>2, <3>4, <3>5, <3>6 DEF SInvOf
  <2> QED
    BY <2>2, <2>3
<1>6. ASSUME NEW r \in Replicas, down[r] # <<>>, Neutral(Head(down[r])), Pop(r),
             UNCHANGED <<sessions, awaiting, up, open>>,
             \A p \in Replicas : Current(p)' = Current(p)
      PROVE  SInvOf(q)'
  <2>1. down'[q] = d \/ (d # <<>> /\ Neutral(Head(d)) /\ down'[q] = Tail(d))
    BY <1>6 DEF Pop, TInv, TypeOK
  <2>2. Current(q)' = cur /\ SessionsOf(q)' = ss
    BY <1>6 DEF SessionsOf
  <2> HIDE DEF u, d, cur, ss
  <2>3. /\ Own(q, cur, u, down'[q])
        /\ q \in open => Agree(cur, u, down'[q], awaiting[q], ss)
    BY <1>q, <2>1, NeutralReceived
  <2> QED
    BY <1>6, <2>2, <2>3 DEF SInvOf, u
<1>7. ASSUME NEW r \in Replicas, DbConnect(r)
      PROVE  SInvOf(q)'
  <2> DEFINE a == Head(up[r]).await
             sid == <<r, a.req>>
             m == [kind |-> "connected", await |-> a, sid |-> sid, root |-> root]
  <2>1. /\ up[r] # <<>> /\ Head(up[r]).kind = "connect"
        /\ up' = [up EXCEPT ![r] = Tail(@)]
        /\ sessions' = sessions \cup {sid} /\ Post(Only(r, m))
        /\ UNCHANGED <<state, awaiting, open>>
    BY <1>7 DEF DbConnect, Arrives
  <2>2. a \in Awaits /\ m \in DownMessages
    <3>1. a \in Awaits
      BY <1>7, ArrivesTypes, UpKinds DEF DbConnect, TInv
    <3>2. sid \in Sids
      BY <3>1 DEF Awaits, Sids
    <3> QED
      BY <3>1, <3>2, Built DEF TInv, TypeOK
  <2>3. down'[q] = IF q = r /\ r \in open THEN Append(d, m) ELSE d
    BY <2>1, <2>2, OnlyPosted
  <2>4. CASE q # r
    <3>1. SessionsOf(q)' = SessionsOf(q)
      BY <2>1, <2>4, OthersSessions
    <3> QED
      BY <1>q, <2>1, <2>3, <2>4, <3>1, Untouched DEF TInv, TypeOK
  <2>5. CASE q = r
    <3>1. /\ u # <<>> /\ Head(u).kind = "connect" /\ up'[q] = Tail(u)
          /\ m.kind = "connected" /\ m.await = Head(u).await /\ m.sid[1] = q
          /\ Current(q)' = cur /\ awaiting'[q] = awaiting[q] /\ open' = open
          /\ q \in open => down'[q] = Append(d, m)
          /\ q \notin open => down'[q] = d
      BY <2>1, <2>3, <2>5 DEF TInv, TypeOK, Current, IsConnected
    <3>2. ss = {} => SessionsOf(q)' = {m.sid}
      BY <2>1, <2>5 DEF SessionsOf
    <3> HIDE DEF u, d, cur, ss, m, a, sid
    <3>3. /\ Own(q, cur, Tail(u), Append(d, m)) /\ Own(q, cur, Tail(u), d)
          /\ q \in open =>
               ss = {} /\ Agree(cur, Tail(u), Append(d, m), awaiting[q], {m.sid})
      <4>1. Own(q, cur, Tail(u), d)
        BY <1>q, <3>1, WriteHandled
      <4> QED
        BY <1>q, <2>2, <3>1, <4>1, ConnectHandled
    <3> QED
      BY <3>1, <3>2, <3>3 DEF SInvOf
  <2> QED
    BY <2>4, <2>5
<1>8. ASSUME NEW r \in Replicas, DbDisconnect(r)
      PROVE  SInvOf(q)'
  <2> DEFINE h == Head(up[r])
             ok == h.sid \in sessions
             m == [kind |-> "ack", await |-> h.await, ok |-> ok]
  <2>1. /\ up[r] # <<>> /\ h.kind = "disconnect"
        /\ up' = [up EXCEPT ![r] = Tail(@)]
        /\ sessions' = sessions \ {h.sid} /\ Post(Only(r, m))
        /\ UNCHANGED <<state, awaiting, open>>
    BY <1>8 DEF DbDisconnect, Arrives
  <2>2. /\ h.await \in Awaits /\ m \in DownMessages
        /\ m.kind = "ack" /\ m.await = h.await /\ (m.ok <=> h.sid \in sessions)
    <3>1. h.await \in Awaits
      BY <1>8, ArrivesTypes, UpKinds DEF DbDisconnect, TInv
    <3>2. ok \in BOOLEAN
      OBVIOUS
    <3>3. m.ok <=> h.sid \in sessions
      OBVIOUS
    <3> HIDE DEF ok, h
    <3> QED
      BY <3>1, <3>2, <3>3, Built
  <2>3. down'[q] = IF q = r /\ r \in open THEN Append(d, m) ELSE d
    BY <2>1, <2>2, OnlyPosted
  <2>4. h.sid[1] = r
    <3>1. /\ up[r] \in Seq(UpMessages)
          /\ Own(r, Current(r), up[r], down[r])
      BY Typed DEF SInv, SInvOf
    <3>2. 1 \in 1 .. Len(up[r]) /\ up[r][1] = h
      BY <2>1, <3>1, Taken, LenProperties
    <3> QED
      BY <2>1, <3>1, <3>2 DEF Own
  <2>5. CASE q # r
    <3>1. SessionsOf(q)' = SessionsOf(q)
      BY <2>1, <2>4, <2>5, OthersSessions
    <3> QED
      BY <1>q, <2>1, <2>3, <2>5, <3>1, Untouched DEF TInv, TypeOK
  <2>6. CASE q = r
    <3>1. /\ u # <<>> /\ Head(u) = h /\ h.kind = "disconnect"
          /\ up'[q] = Tail(u)
          /\ Current(q)' = cur /\ awaiting'[q] = awaiting[q] /\ open' = open
          /\ q \in open => down'[q] = Append(d, m)
          /\ q \notin open => down'[q] = d
      BY <2>1, <2>3, <2>6 DEF TInv, TypeOK, Current, IsConnected
    <3>2. /\ SessionsOf(q)' = ss \ {h.sid}
          /\ m.ok <=> h.sid \in ss
          /\ \E sid : cur \subseteq {sid}
      BY <2>1, <2>2, <2>4, <2>6 DEF SessionsOf, Current
    <3> HIDE DEF u, d, cur, ss, m, h
    <3>3. /\ Own(q, cur, Tail(u), Append(d, m)) /\ Own(q, cur, Tail(u), d)
          /\ q \in open => Agree(cur, Tail(u), Append(d, m), awaiting[q],
                                 ss \ {h.sid})
      BY <1>q, <2>2, <3>1, <3>2, DisconnectHandled, WriteHandled
    <3> QED
      BY <3>1, <3>2, <3>3 DEF SInvOf
  <2> QED
    BY <2>5, <2>6

<1>9. ASSUME NEW r \in Replicas, DbWrite(r)
      PROVE  SInvOf(q)'
  <2> DEFINE w == Head(up[r])
             refused == WriteAck(w, FALSE)
  <2>1. /\ up[r] # <<>> /\ w.kind = "write"
        /\ up' = [up EXCEPT ![r] = Tail(@)]
        /\ UNCHANGED <<sessions, state, awaiting, open>>
        /\ \/ Post(Only(r, refused))
           \/ UNCHANGED down
           \/ ApplyWrite(w)
    BY <1>9 DEF DbWrite, Arrives
  <2>2. w \in WriteMessages
    BY <1>9, ArrivesTypes, UpKinds DEF DbWrite, TInv
  <2>3. refused \in DownMessages /\ Neutral(refused)
    <3>1. [then |-> "write", req |-> w.val] \in Awaits
      BY <2>2, BoundsAssumption DEF WriteMessages, Awaits, Values
    <3> QED
      BY <3>1, Built DEF WriteAck, Neutral
  <2>4. /\ up'[q] = u \/ (u # <<>> /\ Head(u).kind = "write" /\ up'[q] = Tail(u))
        /\ Current(q)' = cur /\ SessionsOf(q)' = ss
        /\ awaiting'[q] = awaiting[q] /\ open' = open
    BY <2>1 DEF TInv, TypeOK, Current, IsConnected, SessionsOf
  <2> DEFINE v == up'[q]
  <2>5. v \in Seq(UpMessages)
    BY <1>q, <2>4, Taken
  <2> HIDE DEF u, d, cur, ss, w, refused, v
  <2>6. /\ Own(q, cur, v, d)
        /\ q \in open => Agree(cur, v, d, awaiting[q], ss)
    BY <1>q, <2>4, WriteHandled DEF v
  <2>7. /\ Own(q, cur, v, down'[q])
        /\ q \in open => Agree(cur, v, down'[q], awaiting[q], ss)
    <3>1. CASE Post(Only(r, refused))
      <4> DEFINE out == Only(r, refused)
      <4>1. /\ out \in [Replicas -> Seq(DownMessages)]
            /\ \A p \in Replicas : \A i \in 1 .. Len(out[p]) : Neutral(out[p][i])
        <5>1. out \in [Replicas -> Seq(DownMessages)]
          BY <2>3, OnlyTypes
        <5>2. \A p \in Replicas : out[p] = <<refused>> \/ out[p] = <<>>
          BY DEF Only
        <5>3. Len(<<refused>>) = 1 /\ <<refused>>[1] = refused /\ Len(<<>>) = 0
          BY <2>3, Single
        <5> HIDE DEF out
        <5>4. ASSUME NEW p \in Replicas, NEW i \in 1 .. Len(out[p])
              PROVE  Neutral(out[p][i])
          BY <2>3, <5>2, <5>3
        <5> QED
          BY <5>1, <5>4
      <4> HIDE DEF out
      <4>2. Post(out)
        BY <3>1 DEF out
      <4> QED
        BY <2>5, <2>6, <4>1, <4>2, Broadcasted DEF d
    <3>2. CASE UNCHANGED down
      BY <2>6, <3>2 DEF d
    <3>3. CASE ApplyWrite(w)
      BY <2>2, <2>5, <2>6, <3>3, ApplyWriteTypes, WriteApplied DEF d
    <3> QED
      BY <2>1, <3>1, <3>2, <3>3
  <2> QED
    BY <2>4, <2>7 DEF SInvOf, v
<1>10. CASE DbGrant
  <2>1. /\ Head(queue) \in WriteMessages /\ ApplyWrite(Head(queue))
        /\ UNCHANGED <<sessions, state, awaiting, up, open>>
    BY <1>10, Taken DEF DbGrant, TInv, TypeOK
  <2>2. Post(WriteOut(Head(queue)))
    BY <2>1, ApplyWriteTypes
  <2>3. Current(q)' = cur /\ SessionsOf(q)' = ss
    BY <2>1 DEF Current, IsConnected, SessionsOf
  <2> HIDE DEF cur, ss
  <2>4. /\ Own(q, cur, u, down'[q])
        /\ q \in open => Agree(cur, u, down'[q], awaiting[q], ss)
    BY <1>q, <2>1, <2>2, WriteApplied
  <2> QED
    BY <2>1, <2>3, <2>4 DEF SInvOf
<1>11. CASE ReconnectClients
  <2> DEFINE of(p) == {s \in sessions : s[1] = p}
             m == [kind |-> "reconnect"]
             out == [p \in Replicas |-> [i \in 1 .. Cardinality(of(p)) |-> m]]
  <2>1. /\ Post(out) /\ UNCHANGED <<sessions, state, awaiting, up, open>>
    BY <1>11 DEF ReconnectClients, dbVars
  <2>2. /\ out \in [Replicas -> Seq(DownMessages)]
        /\ \A p \in Replicas : \A i \in 1 .. Len(out[p]) : Neutral(out[p][i])
    <3>1. m \in DownMessages /\ Neutral(m)
      BY Built DEF Neutral
    <3>2. ASSUME NEW p \in Replicas
          PROVE  Cardinality(of(p)) \in Nat
      <4>1. of(p) \subseteq sessions
        OBVIOUS
      <4> QED
        BY <4>1, FS_Subset, FS_CardinalityType DEF TInv
    <3> HIDE DEF of, m
    <3>3. ASSUME NEW p \in Replicas
          PROVE  /\ out[p] \in Seq(DownMessages)
                 /\ \A i \in 1 .. Len(out[p]) : out[p][i] = m
      BY <3>1, <3>2, Repeated
    <3>4. out \in [Replicas -> Seq(DownMessages)]
      BY <3>3
    <3> HIDE DEF out
    <3> QED
      BY <3>1, <3>3, <3>4
  <2>3. Current(q)' = cur /\ SessionsOf(q)' = ss
    BY <2>1 DEF Current, IsConnected, SessionsOf
  <2> HIDE DEF out, cur, ss
  <2>4. /\ Own(q, cur, u, down'[q])
        /\ q \in open => Agree(cur, u, down'[q], awaiting[q], ss)
    BY <1>q, <2>1, <2>2, Broadcasted
  <2> QED
    BY <2>1, <2>3, <2>4 DEF SInvOf
<1>12. ASSUME NEW r \in Replicas, Close(r)
       PROVE  SInvOf(q)'
  <2>1. PICK n \in 0 .. Len(up[r]) : up' = [up EXCEPT ![r] = SubSeq(@, 1, n)]
    BY <1>12 DEF Close
  <2>2. /\ open' = open \ {r} /\ down' = [down EXCEPT ![r] = <<>>]
        /\ UNCHANGED <<sessions, state, awaiting>>
    BY <1>12 DEF Close, dbVars
  <2>3. CASE q # r
    BY <1>q, <2>1, <2>2, <2>3, Untouched DEF TInv, TypeOK, SessionsOf
  <2>4. CASE q = r
    <3> DEFINE v == SubSeq(u, 1, n)
    <3>1. /\ up'[q] = v /\ Len(down'[q]) = 0 /\ q \notin open'
          /\ Current(q)' = cur
      BY <2>1, <2>2, <2>4, EmptySeq DEF TInv, TypeOK, Current, IsConnected
    <3>2. \A i \in 1 .. Len(v) : i \in 1 .. Len(u) /\ v[i] = u[i]
      <4>1. n \in Int /\ 1 \in Int /\ n <= Len(u) /\ Len(u) \in Nat
        BY <1>q, <2>4, LenProperties
      <4>2. \A i \in 1 .. n : u[i] \in UpMessages
        BY <1>q, <4>1, ElementOfSeq
      <4>3. /\ Len(v) = IF 1 <= n THEN n - 1 + 1 ELSE 0
            /\ \A i \in 1 .. n - 1 + 1 : v[i] = u[1 + i - 1]
        BY <4>1, <4>2, SubSeqProperties
      <4> HIDE DEF v
      <4> QED
        BY <4>1, <4>3
    <3> HIDE DEF v, u, d, cur
    <3>3. Own(q, cur, v, down'[q])
      BY <1>q, <3>1, <3>2 DEF Own
    <3> QED
      BY <3>1, <3>3 DEF SInvOf
  <2> QED
    BY <2>3, <2>4
<1>13. CASE FlushTakes \/ FlushReturns \/ UNCHANGED vars
  BY <1>q, <1>13, Untouched DEF FlushTakes, FlushReturns, vars, SessionsOf
<1>14. ASSUME NEW r \in Replicas, Disconnect(r)
       PROVE  SInvOf(q)'
  BY <1>2, <1>14 DEF Disconnect, dbVars
<1>15. ASSUME NEW r \in Replicas, ReceiveReplicated(r)
       PROVE  SInvOf(q)'
  <2>1. Neutral(Head(down[r]))
    BY <1>15 DEF ReceiveReplicated, Neutral
  <2>2. ASSUME NEW p \in Replicas
        PROVE  Current(p)' = Current(p)
    <3>1. /\ Deliver(state[r], Head(down[r])).kind = state[r].kind
          /\ IsConnected(r) =>
               Deliver(state[r], Head(down[r])).sid = state[r].sid
      BY <1>15 DEF ReceiveReplicated, Deliver, IsConnected, TInv, TypeOK, Disconnected
    <3> QED
      BY <1>15, <3>1 DEF ReceiveReplicated, Current, IsConnected, TInv, TypeOK
  <2> QED
    BY <1>6, <1>15, <2>1, <2>2 DEF ReceiveReplicated, dbVars
<1>16. ASSUME NEW r \in Replicas, ReceiveReconnect(r)
       PROVE  SInvOf(q)'
  <2>1. /\ down[r] # <<>> /\ Neutral(Head(down[r])) /\ Pop(r)
        /\ UNCHANGED <<sessions, state, open>>
    BY <1>16 DEF ReceiveReconnect, Neutral, dbVars
  <2>2. CASE IsConnected(r)
    BY <1>2, <1>16, <2>1, <2>2 DEF ReceiveReconnect
  <2>3. CASE ~IsConnected(r)
    <3>1. UNCHANGED <<awaiting, up>> /\ \A p \in Replicas : Current(p)' = Current(p)
      BY <1>16, <2>1, <2>3 DEF ReceiveReconnect, Current, IsConnected
    <3> QED
      BY <1>6, <2>1, <3>1
  <2> QED
    BY <2>2, <2>3
<1> QED
  BY <1>1, <1>3, <1>4, <1>5, <1>7, <1>8, <1>9, <1>10, <1>11, <1>12, <1>13,
     <1>14, <1>15, <1>16
  DEF Next, Receive, DbHandle

\* The two invariants hold together in every reachable state.
LEMMA InvariantSInv == Spec => []SInv
<1>1. Init /\ [][Next]_vars => []TInv
  BY InvariantTInv DEF Spec
<1> QED
  BY <1>1, InitSInv, StepSInv, PTL DEF Spec

\* Both ends agree on the session of every open replica, whatever disconnects,
\* reconnects and writes cross each other (replica.ts:603, connect.ts:38).
THEOREM SessionsStayAgreed == Spec => []SessionsAgree
<1>1. TInv /\ SInv => SessionsAgree
  <2> SUFFICES ASSUME TInv, SInv, NEW r \in open
               PROVE  SessionsOf(r) = SessionAhead(r)
    BY DEF SessionsAgree
  <2> DEFINE d == down[r]
             ss == SessionsOf(r)
  <2>1. /\ r \in Replicas /\ Agree(Current(r), up[r], d, awaiting[r], ss)
        /\ DOMAIN d = 1 .. Len(d)
    BY Typed, LenProperties DEF SInv, SInvOf, TInv, TypeOK
  <2>2. \A i \in DOMAIN d : Turns(d[i]) <=> Begins(d[i]) \/ Ends(d[i])
    BY DEF Turns, Begins, Ends
  <2>3. Turning(r) = {i \in DOMAIN d : Begins(d[i]) \/ Ends(d[i])}
    BY <2>2 DEF Turning
  <2>4. \A i \in DOMAIN d : Begins(d[i]) <=> d[i].kind = "connected"
    BY DEF Begins
  <2>5. CASE Turning(r) = {}
    <3>1. ss = Current(r)
      <4>1. \A i \in 1 .. Len(d) : ~Begins(d[i]) /\ ~Ends(d[i])
        BY <2>1, <2>3, <2>5
      <4> QED
        BY <2>1, <4>1 DEF Agree, Between, InSession
    <3> QED
      BY <2>5, <3>1 DEF SessionAhead, Current
  <2>6. CASE Turning(r) # {}
    <3> DEFINE last == {i \in Turning(r) : /\ d[i].kind = "connected"
                                           /\ \A j \in Turning(r) : j <= i}
    <3>1. SessionAhead(r) = {d[i].sid : i \in last}
      BY <2>6 DEF SessionAhead
    <3>2. CASE Current(r) # {}
      <4>1. InSession(Current(r), up[r], d, ss)
        BY <2>1, <3>2 DEF Agree
      <4>2. last = {} /\ ss = {}
        BY <2>1, <2>3, <2>4, <2>6, <4>1 DEF InSession
      <4> QED
        BY <3>1, <4>2
    <3>3. CASE Current(r) = {}
      <4>1. Between(up[r], d, awaiting[r], ss)
        BY <2>1, <3>3 DEF Agree
      <4>2. PICK i \in 1 .. Len(d) : Begins(d[i])
        BY <2>1, <2>3, <2>6, <4>1 DEF Between
      <4>3. \A j \in Turning(r) : j = i
        BY <2>1, <2>3, <4>1, <4>2 DEF Between
      <4>4. last = {i}
        BY <2>1, <2>3, <2>4, <4>2, <4>3
      <4>5. ss = {d[i].sid}
        BY <4>1, <4>2 DEF Between
      <4> HIDE DEF last
      <4> QED
        BY <3>1, <4>4, <4>5
    <3> QED
      BY <3>2, <3>3
  <2> QED
    BY <2>5, <2>6
<1> QED
  BY <1>1, InvariantTInv, InvariantSInv, PTL


------------------------------------------------------------------------------
(* Deliveries *)

\* The states a ClientState goes through while d is delivered.
Course(g, s, d) ==
  g = [n \in 0 .. Len(d) |-> IF n = 0 THEN s ELSE Deliver(g[n - 1], d[n])]

LEMMA CourseSteps ==
  ASSUME NEW g, NEW s, NEW S, NEW d \in Seq(S), Course(g, s, d)
  PROVE  /\ g[0] = s
         /\ \A n \in 0 .. Len(d) - 1 : g[n + 1] = Deliver(g[n], d[n + 1])
<1>0. Len(d) \in Nat
  BY LenProperties
<1>1. \A n \in 0 .. Len(d) :
        g[n] = IF n = 0 THEN s ELSE Deliver(g[n - 1], d[n])
  BY DEF Course
<1>2. ASSUME NEW n \in 0 .. Len(d) - 1
      PROVE  g[n + 1] = Deliver(g[n], d[n + 1])
  <2>1. n + 1 \in 0 .. Len(d) /\ n + 1 # 0 /\ (n + 1) - 1 = n
    BY <1>0
  <2> QED
    BY <1>1, <2>1
<1> QED
  BY <1>0, <1>1, <1>2

\* There is such a course ...
LEMMA CourseExists ==
  ASSUME NEW s, NEW S, NEW d \in Seq(S)
  PROVE  \E g : Course(g, s, d)
<1> DEFINE Good(g, n) ==
             g = [i \in 0 .. n |-> IF i = 0 THEN s ELSE Deliver(g[i - 1], d[i])]
           I == {n \in Nat : \E g : Good(g, n)}
<1>1. 0 \in I
  <2> DEFINE g == [i \in 0 .. 0 |-> s]
  <2>1. Good(g, 0)
    OBVIOUS
  <2> QED
    BY <2>1
<1>2. ASSUME NEW n \in Nat, n \in I
      PROVE  n + 1 \in I
  <2> PICK g : Good(g, n)
    BY <1>2
  <2> DEFINE h == [i \in 0 .. n + 1 |->
                     IF i = n + 1 THEN Deliver(g[n], d[n + 1]) ELSE g[i]]
  <2>1. ASSUME NEW i \in 0 .. n + 1
        PROVE  h[i] = IF i = 0 THEN s ELSE Deliver(h[i - 1], d[i])
    <3>1. CASE i = n + 1
      <4>1. i # 0 /\ i - 1 \in 0 .. n + 1 /\ i - 1 # n + 1 /\ i - 1 = n
        BY <3>1
      <4> QED
        BY <3>1, <4>1
    <3>2. CASE i # n + 1
      <4>1. i \in 0 .. n
        BY <3>2
      <4>2. g[i] = IF i = 0 THEN s ELSE Deliver(g[i - 1], d[i])
        BY <4>1
      <4>3. i # 0 => i - 1 \in 0 .. n + 1 /\ i - 1 # n + 1
        BY <4>1
      <4> QED
        BY <3>2, <4>1, <4>2, <4>3
    <3> QED
      BY <3>1, <3>2
  <2>2. h = [i \in 0 .. n + 1 |-> h[i]]
    OBVIOUS
  <2> HIDE DEF h
  <2>3. Good(h, n + 1)
    BY <2>1, <2>2
  <2> QED
    BY <2>3
<1> HIDE DEF I
<1>3. Nat \subseteq I
  BY <1>1, <1>2, NatsIn
<1>4. Len(d) \in I
  BY <1>3, LenProperties
<1> QED
  BY <1>4 DEF I, Course

\* ... and what is delivered is its end.
LEMMA CourseEnds ==
  ASSUME NEW s, NEW S, NEW d \in Seq(S)
  PROVE  \E g : Course(g, s, d) /\ Delivered(s, d) = g[Len(d)]
<1> DEFINE after == CHOOSE g : Course(g, s, d)
<1>1. Course(after, s, d)
  BY CourseExists
<1>2. Delivered(s, d) = after[Len(d)]
  BY DEF Delivered, Course
<1> QED
  BY <1>1, <1>2

\* Whatever goes through these states ends where the delivery does.
LEMMA DeliveredIs ==
  ASSUME NEW s, NEW S, NEW d \in Seq(S), NEW g, g[0] = s,
         \A n \in 0 .. Len(d) - 1 : g[n + 1] = Deliver(g[n], d[n + 1])
  PROVE  Delivered(s, d) = g[Len(d)]
<1>0. Len(d) \in Nat
  BY LenProperties
<1>1. PICK h : Course(h, s, d) /\ Delivered(s, d) = h[Len(d)]
  BY CourseEnds
<1>2. /\ h[0] = s
      /\ \A n \in 0 .. Len(d) - 1 : h[n + 1] = Deliver(h[n], d[n + 1])
  BY <1>1, CourseSteps
<1> DEFINE I == {n \in Nat : n <= Len(d) => g[n] = h[n]}
<1>3. 0 \in I
  BY <1>2
<1>4. ASSUME NEW n \in Nat, n \in I
      PROVE  n + 1 \in I
  <2>1. CASE n + 1 <= Len(d)
    <3>1. n \in 0 .. Len(d) - 1 /\ g[n] = h[n]
      BY <1>0, <1>4, <2>1
    <3>2. g[n + 1] = h[n + 1]
      BY <1>2, <3>1
    <3> QED
      BY <3>2
  <2>2. CASE ~(n + 1 <= Len(d))
    BY <2>2
  <2> QED
    BY <2>1, <2>2
<1> HIDE DEF I
<1>5. Nat \subseteq I
  BY <1>3, <1>4, NatsIn
<1>6. g[Len(d)] = h[Len(d)]
  BY <1>0, <1>5 DEF I
<1> QED
  BY <1>1, <1>6

\* Deliveries one after the other.
LEMMA DeliveredConcat ==
  ASSUME NEW s, NEW S, NEW d \in Seq(S), NEW e \in Seq(S)
  PROVE  Delivered(s, d \o e) = Delivered(Delivered(s, d), e)
<1> DEFINE de == d \o e
<1>1. /\ de \in Seq(S) /\ Len(de) = Len(d) + Len(e)
      /\ Len(d) \in Nat /\ Len(e) \in Nat
      /\ \A i \in 1 .. Len(d) + Len(e) :
           de[i] = IF i <= Len(d) THEN d[i] ELSE e[i - Len(d)]
  BY ConcatProperties, LenProperties
<1> HIDE DEF de
<1>2. PICK g : Course(g, s, de) /\ Delivered(s, de) = g[Len(de)]
  BY <1>1, CourseEnds
<1>3. /\ g[0] = s
      /\ \A n \in 0 .. Len(de) - 1 : g[n + 1] = Deliver(g[n], de[n + 1])
  BY <1>1, <1>2, CourseSteps
<1>4. Delivered(s, d) = g[Len(d)]
  <2>1. ASSUME NEW n \in 0 .. Len(d) - 1
        PROVE  g[n + 1] = Deliver(g[n], d[n + 1])
    <3>1. n \in 0 .. Len(de) - 1 /\ n + 1 \in 1 .. Len(d) + Len(e)
          /\ n + 1 <= Len(d)
      BY <1>1
    <3>2. de[n + 1] = d[n + 1]
      BY <1>1, <3>1
    <3> QED
      BY <1>3, <3>1, <3>2
  <2> QED
    BY <1>3, <2>1, DeliveredIs
<1> DEFINE h == [n \in 0 .. Len(e) |-> g[n + Len(d)]]
<1>5. Delivered(g[Len(d)], e) = h[Len(e)]
  <2>1. h[0] = g[Len(d)]
    BY <1>1
  <2>2. ASSUME NEW n \in 0 .. Len(e) - 1
        PROVE  h[n + 1] = Deliver(h[n], e[n + 1])
    <3>1. /\ n + Len(d) \in 0 .. Len(de) - 1
          /\ (n + Len(d)) + 1 \in 1 .. Len(d) + Len(e)
          /\ ~((n + Len(d)) + 1 <= Len(d))
          /\ ((n + Len(d)) + 1) - Len(d) = n + 1
          /\ n \in 0 .. Len(e) /\ n + 1 \in 0 .. Len(e)
          /\ (n + 1) + Len(d) = (n + Len(d)) + 1
      BY <1>1
    <3>2. de[(n + Len(d)) + 1] = e[n + 1]
      BY SMTT(30), <1>1, <3>1
    <3>3. g[(n + Len(d)) + 1] = Deliver(g[n + Len(d)], de[(n + Len(d)) + 1])
      BY <1>3, <3>1
    <3> QED
      BY <3>1, <3>2, <3>3
  <2> HIDE DEF h
  <2> QED
    BY <2>1, <2>2, DeliveredIs
<1>6. h[Len(e)] = g[Len(de)]
  <2>1. Len(e) \in 0 .. Len(e) /\ Len(e) + Len(d) = Len(de)
    BY <1>1
  <2> QED
    BY <2>1
<1> QED
  BY <1>2, <1>4, <1>5, <1>6 DEF de

\* None, and one.
LEMMA DeliveredFew ==
  ASSUME NEW s, NEW S, NEW m \in S
  PROVE  Delivered(s, <<>>) = s /\ Delivered(s, <<m>>) = Deliver(s, m)
<1>1. /\ <<m>> \in Seq(S) /\ <<>> \in Seq(S)
      /\ Len(<<m>>) = 1 /\ <<m>>[1] = m /\ Len(<<>>) = 0
  BY Single
<1>2. Delivered(s, <<>>) = s
  <2> DEFINE none == <<>>
             g == [n \in 0 .. 0 |-> s]
  <2>1. g[0] = s
    OBVIOUS
  <2>2. none \in Seq(S) /\ Len(none) = 0
    BY <1>1
  <2> HIDE DEF g, none
  <2>3. \A n \in 0 .. Len(none) - 1 : g[n + 1] = Deliver(g[n], none[n + 1])
    BY <2>2
  <2>4. Delivered(s, none) = g[Len(none)]
    BY <2>1, <2>2, <2>3, DeliveredIs
  <2> QED
    BY <2>1, <2>2, <2>4 DEF none
<1>3. Delivered(s, <<m>>) = Deliver(s, m)
  <2> DEFINE one == <<m>>
             g == [n \in 0 .. 1 |-> IF n = 0 THEN s ELSE Deliver(s, m)]
  <2>1. g[0] = s /\ g[1] = Deliver(s, m)
    OBVIOUS
  <2>2. one \in Seq(S) /\ Len(one) = 1 /\ one[1] = m
    BY <1>1
  <2> HIDE DEF g, one
  <2>3. ASSUME NEW n \in 0 .. Len(one) - 1
        PROVE  g[n + 1] = Deliver(g[n], one[n + 1])
    <3>1. n = 0 /\ n + 1 = 1
      BY <2>2
    <3>2. g[n + 1] = g[1] /\ g[n] = g[0] /\ one[n + 1] = one[1]
      BY <3>1
    <3> QED
      BY <2>1, <2>2, <3>2
  <2>4. Delivered(s, one) = g[Len(one)]
    BY <2>1, <2>2, <2>3, DeliveredIs
  <2> QED
    BY <2>1, <2>2, <2>4 DEF one
<1> QED
  BY <1>2, <1>3

\* The first message delivered, the rest is still to come.
LEMMA DeliveredTail ==
  ASSUME NEW s, NEW S, NEW d \in Seq(S), d # <<>>
  PROVE  Delivered(Deliver(s, Head(d)), Tail(d)) = Delivered(s, d)
<1> DEFINE one == <<Head(d)>>
           t == Tail(d)
<1>1. /\ Head(d) \in S /\ Head(d) = d[1] /\ t \in Seq(S)
      /\ Len(d) \in Nat /\ Len(d) >= 1 /\ Len(t) = Len(d) - 1
      /\ \A i \in 1 .. Len(d) - 1 : t[i] = d[i + 1]
  BY Taken, LenProperties
<1>2. one \in Seq(S) /\ Len(one) = 1 /\ one[1] = Head(d)
  BY <1>1, Single
<1>3. Delivered(s, one) = Deliver(s, Head(d))
  BY <1>1, DeliveredFew
<1> HIDE DEF one, t
<1>4. one \o t = d
  <2>0. /\ one \o t \in Seq(S) /\ Len(one \o t) = Len(one) + Len(t)
        /\ \A i \in 1 .. Len(one) + Len(t) :
             (one \o t)[i] = IF i <= Len(one) THEN one[i] ELSE t[i - Len(one)]
    <3>1. one \in Seq(S) /\ t \in Seq(S)
      BY <1>1, <1>2
    <3> QED
      BY <3>1, ConcatProperties
  <2>1. /\ one \o t \in Seq(S) /\ Len(one \o t) = 1 + Len(t)
        /\ \A i \in 1 .. 1 + Len(t) :
             (one \o t)[i] = IF i <= 1 THEN one[i] ELSE t[i - 1]
    BY <1>2, <2>0
  <2>2. ASSUME NEW i \in 1 .. Len(d)
        PROVE  (one \o t)[i] = d[i]
    <3>1. CASE i = 1
      BY <1>1, <1>2, <2>1, <3>1
    <3>2. CASE i # 1
      <4>1. i - 1 \in 1 .. Len(d) - 1 /\ (i - 1) + 1 = i /\ ~(i <= 1)
        BY <1>1, <3>2
      <4> QED
        BY <1>1, <2>1, <4>1
    <3> QED
      BY <3>1, <3>2
  <2> DEFINE ot == one \o t
  <2>3. ot \in Seq(S) /\ Len(ot) = Len(d) /\ \A i \in 1 .. Len(ot) : ot[i] = d[i]
    BY <1>1, <2>1, <2>2
  <2> HIDE DEF ot
  <2>4. ot = d
    BY <2>3, SeqEqual
  <2> QED
    BY <2>4 DEF ot
<1>5. Delivered(s, one \o t) = Delivered(Delivered(s, one), t)
  BY <1>1, <1>2, DeliveredConcat
<1> QED
  BY <1>3, <1>4, <1>5 DEF t

\* What every delivery keeps, they all keep together.
LEMMA DeliveredKeeps ==
  ASSUME NEW S, NEW d \in Seq(S), NEW T, NEW s \in T,
         \A x \in T : \A i \in 1 .. Len(d) : Deliver(x, d[i]) \in T
  PROVE  Delivered(s, d) \in T
<1>0. Len(d) \in Nat
  BY LenProperties
<1>1. PICK g : Course(g, s, d) /\ Delivered(s, d) = g[Len(d)]
  BY CourseEnds
<1>2. /\ g[0] = s
      /\ \A n \in 0 .. Len(d) - 1 : g[n + 1] = Deliver(g[n], d[n + 1])
  BY <1>1, CourseSteps
<1> DEFINE I == {n \in Nat : n <= Len(d) => g[n] \in T}
<1>3. 0 \in I
  BY <1>2
<1>4. ASSUME NEW n \in Nat, n \in I
      PROVE  n + 1 \in I
  <2>1. CASE n + 1 <= Len(d)
    <3>1. n \in 0 .. Len(d) - 1 /\ n + 1 \in 1 .. Len(d) /\ g[n] \in T
      BY <1>0, <1>4, <2>1
    <3>2. g[n + 1] \in T
      BY <1>2, <3>1
    <3> QED
      BY <3>2
  <2>2. CASE ~(n + 1 <= Len(d))
    BY <2>2
  <2> QED
    BY <2>1, <2>2
<1> HIDE DEF I
<1>5. Nat \subseteq I
  BY <1>3, <1>4, NatsIn
<1> QED
  BY <1>0, <1>1, <1>5 DEF I

\* What every delivery keeps of two states, they all keep together.
LEMMA DeliveredAlike ==
  ASSUME NEW S, NEW d \in Seq(S), NEW R, NEW s, NEW t, <<s, t>> \in R,
         \A x, y : <<x, y>> \in R =>
           \A i \in 1 .. Len(d) : <<Deliver(x, d[i]), Deliver(y, d[i])>> \in R
  PROVE  <<Delivered(s, d), Delivered(t, d)>> \in R
<1>0. Len(d) \in Nat
  BY LenProperties
<1>1. PICK g : Course(g, s, d) /\ Delivered(s, d) = g[Len(d)]
  BY CourseEnds
<1>2. PICK h : Course(h, t, d) /\ Delivered(t, d) = h[Len(d)]
  BY CourseEnds
<1>3. /\ g[0] = s
      /\ \A n \in 0 .. Len(d) - 1 : g[n + 1] = Deliver(g[n], d[n + 1])
  BY <1>1, CourseSteps
<1>4. /\ h[0] = t
      /\ \A n \in 0 .. Len(d) - 1 : h[n + 1] = Deliver(h[n], d[n + 1])
  BY <1>2, CourseSteps
<1> DEFINE I == {n \in Nat : n <= Len(d) => <<g[n], h[n]>> \in R}
<1>5. 0 \in I
  BY <1>3, <1>4
<1>6. ASSUME NEW n \in Nat, n \in I
      PROVE  n + 1 \in I
  <2>1. CASE n + 1 <= Len(d)
    <3>1. n \in 0 .. Len(d) - 1 /\ n + 1 \in 1 .. Len(d) /\ <<g[n], h[n]>> \in R
      BY <1>0, <1>6, <2>1
    <3>2. <<Deliver(g[n], d[n + 1]), Deliver(h[n], d[n + 1])>> \in R
      BY <3>1
    <3>3. <<g[n + 1], h[n + 1]>> \in R
      BY <1>3, <1>4, <3>1, <3>2
    <3> QED
      BY <3>3
  <2>2. CASE ~(n + 1 <= Len(d))
    BY <2>2
  <2> QED
    BY <2>1, <2>2
<1> HIDE DEF I
<1>7. Nat \subseteq I
  BY <1>5, <1>6, NatsIn
<1> QED
  BY <1>0, <1>1, <1>2, <1>7 DEF I

------------------------------------------------------------------------------
(* What becomes of what a replica will show *)

LEMMA SettledTyped ==
  ASSUME TypeOK, NEW q \in Replicas
  PROVE  Settled(q) \in States
<1>1. down[q] \in Seq(DownMessages) /\ state[q] \in States
  BY DEF TypeOK, States
<1>2. \A x \in States : \A i \in 1 .. Len(down[q]) :
        Deliver(x, down[q][i]) \in States
  BY <1>1, ElementOfSeq, DeliverTypes
<1> QED
  BY <1>1, <1>2, DeliveredKeeps DEF Settled

\* To receive is only to get nearer to it.
LEMMA ReceivedSettles ==
  ASSUME TypeOK, NEW r \in Replicas, down[r] # <<>>, Pop(r),
         state' = [state EXCEPT ![r] = Deliver(@, Head(down[r]))],
         NEW q \in Replicas
  PROVE  Settled(q)' = Settled(q)
<1>1. CASE q = r
  <2>1. /\ state'[q] = Deliver(state[q], Head(down[q]))
        /\ down'[q] = Tail(down[q])
        /\ down[q] \in Seq(DownMessages) /\ down[q] # <<>>
    BY <1>1 DEF TypeOK, Pop
  <2>2. Delivered(Deliver(state[q], Head(down[q])), Tail(down[q]))
          = Delivered(state[q], down[q])
    BY <2>1, DeliveredTail
  <2> QED
    BY <2>1, <2>2 DEF Settled
<1>2. CASE q # r
  <2>1. state'[q] = state[q] /\ down'[q] = down[q]
    BY <1>2 DEF TypeOK, Pop
  <2> QED
    BY <2>1 DEF Settled
<1> QED
  BY <1>1, <1>2

LEMMA PostedSettles ==
  ASSUME TypeOK, NEW out \in [Replicas -> Seq(DownMessages)], Post(out),
         state' = state, NEW q \in Replicas, q \in open
  PROVE  Settled(q)' = Delivered(Settled(q), out[q])
<1>1. /\ down[q] \in Seq(DownMessages) /\ out[q] \in Seq(DownMessages)
      /\ down'[q] = down[q] \o out[q]
  BY DEF TypeOK, Post
<1>2. Delivered(state[q], down[q] \o out[q])
        = Delivered(Delivered(state[q], down[q]), out[q])
  BY <1>1, DeliveredConcat
<1> QED
  BY <1>1, <1>2 DEF Settled

LEMMA OnlySettles ==
  ASSUME TypeOK, NEW r \in Replicas, NEW m \in DownMessages, Post(Only(r, m)),
         state' = state, NEW q \in Replicas, q \in open
  PROVE  Settled(q)' = IF q = r THEN Deliver(Settled(q), m) ELSE Settled(q)
<1>1. Settled(q)' = Delivered(Settled(q), Only(r, m)[q])
  BY OnlyTypes, PostedSettles
<1>2. Only(r, m)[q] = IF q = r THEN <<m>> ELSE <<>>
  BY DEF Only
<1>3. /\ Delivered(Settled(q), <<m>>) = Deliver(Settled(q), m)
      /\ Delivered(Settled(q), <<>>) = Settled(q)
  BY DeliveredFew
<1> QED
  BY <1>1, <1>2, <1>3

\* The same message several times: as if it had come once, or not at all.
LEMMA RepeatedSettles ==
  ASSUME NEW s, NEW m \in DownMessages, NEW n \in Nat,
         Deliver(Deliver(s, m), m) = Deliver(s, m)
  PROVE  Delivered(s, [i \in 1 .. n |-> m]) = IF n = 0 THEN s ELSE Deliver(s, m)
<1> DEFINE d == [i \in 1 .. n |-> m]
<1>1. /\ d \in Seq(DownMessages) /\ Len(d) = n /\ \A i \in 1 .. n : d[i] = m
  BY Repeated
<1> HIDE DEF d
<1>2. CASE n = 0
  <2>1. d = <<>>
    BY <1>1, <1>2, EmptySeq
  <2>2. Delivered(s, <<>>) = s
    BY DeliveredFew
  <2> QED
    BY <1>2, <2>1, <2>2 DEF d
<1>3. CASE n # 0
  <2> DEFINE T == {Deliver(s, m)}
             t == Tail(d)
  <2>1. d # <<>>
    BY <1>1, <1>3, EmptySeq
  <2>2. /\ t \in Seq(DownMessages) /\ Len(t) = n - 1 /\ Head(d) = m
        /\ \A i \in 1 .. Len(t) : t[i] = m
    BY <1>1, <1>3, <2>1, Taken
  <2>3. Delivered(s, d) = Delivered(Deliver(s, m), t)
    BY <1>1, <2>1, <2>2, DeliveredTail
  <2> HIDE DEF t
  <2>4. Delivered(Deliver(s, m), t) \in T
    BY <2>2, DeliveredKeeps
  <2> QED
    BY <1>3, <2>3, <2>4 DEF d
<1> QED
  BY <1>2, <1>3

Replicated(w) == [kind |-> "replicated", key |-> w.key, val |-> w.val]

\* What a write of another replica, or another session, does to a replica.
LEMMA ReplicatedDelivered ==
  ASSUME NEW s \in States, NEW w \in WriteMessages
  PROVE  /\ Deliver(s, Replicated(w)) \in States
         /\ Deliver(s, Replicated(w)).kind = s.kind
         /\ s.kind = "connected" =>
              /\ Deliver(s, Replicated(w)).sid = s.sid
              /\ \A k \in Keys : Deliver(s, Replicated(w)).root[k] =
                                   IF k = w.key THEN w.val ELSE s.root[k]
         /\ Deliver(Deliver(s, Replicated(w)), Replicated(w))
              = Deliver(s, Replicated(w))
<1> DEFINE m == Replicated(w)
           t == Deliver(s, m)
<1>1. /\ m.kind = "replicated" /\ m.key = w.key /\ m.val = w.val
      /\ w.key \in Keys /\ w.val \in Values
  BY DEF Replicated, WriteMessages
<1>2. m \in DownMessages
  BY <1>1, Built DEF Replicated
<1>3. t \in States
  BY <1>2, DeliverTypes
<1> HIDE DEF m
<1>4. CASE s.kind = "connected"
  <2>1. t = [s EXCEPT !.root[m.key] = m.val]
    BY <1>1, <1>4 DEF Deliver
  <2>2. s \in [kind : {"connected"}, sid : Sids, root : Roots]
    BY <1>4 DEF States, Disconnected
  <2>3. t = [kind |-> s.kind, sid |-> s.sid,
             root |-> [s.root EXCEPT ![m.key] = m.val]]
    BY <2>1, <2>2
  <2>4. /\ t.kind = "connected" /\ t.sid = s.sid
        /\ t.root = [s.root EXCEPT ![m.key] = m.val]
    BY <1>4, <2>3
  <2>5. s.root \in [Keys -> Values]
    BY <2>2 DEF Roots
  <2>6. \A k \in Keys : t.root[k] = IF k = w.key THEN w.val ELSE s.root[k]
    BY <1>1, <2>4, <2>5
  <2>7. Deliver(t, m) = t
    <3>1. Deliver(t, m) = [t EXCEPT !.root[m.key] = m.val]
      BY <1>1, <2>4 DEF Deliver
    <3>2. t.root \in [Keys -> Values] /\ t.root[m.key] = m.val
      BY <1>1, <2>4, <2>5
    <3>3. [t.root EXCEPT ![m.key] = m.val] = t.root
      BY <1>1, <3>2
    <3>4. t \in [kind : {"connected"}, sid : Sids, root : Roots]
      BY <1>3, <2>4 DEF States, Disconnected
    <3> HIDE DEF t
    <3>5. [t EXCEPT !.root[m.key] = m.val] =
            [kind |-> t.kind, sid |-> t.sid,
             root |-> [t.root EXCEPT ![m.key] = m.val]]
      BY <3>4
    <3> QED
      BY <3>1, <3>3, <3>4, <3>5
  <2> QED
    BY <1>3, <1>4, <2>4, <2>6, <2>7 DEF m
<1>5. CASE s.kind # "connected"
  <2>1. t = s
    BY <1>1, <1>5 DEF Deliver
  <2> QED
    BY <1>3, <1>5, <2>1 DEF m
<1> QED
  BY <1>4, <1>5

\* An applied write reaches the replicas that have another session than its own.
LEMMA WriteSettles ==
  ASSUME TInv, NEW w \in WriteMessages, Post(WriteOut(w)), state' = state,
         NEW q \in Replicas, q \in open
  PROVE  Settled(q)' = IF \A x \in sessions : x[1] = q => x = w.sid
                       THEN Settled(q) ELSE Deliver(Settled(q), Replicated(w))
<1> DEFINE s == Settled(q)
           accepted == WriteAck(w, TRUE)
           others == {x \in sessions : x[1] = q /\ x # w.sid}
           ack == IF q = w.sid[1] THEN <<accepted>> ELSE <<>>
           copies == [i \in 1 .. Cardinality(others) |-> Replicated(w)]
<1>1. s \in States
  BY SettledTyped DEF TInv
<1>2. Settled(q)' = Delivered(s, WriteOut(w)[q])
  BY WriteOutTypes, PostedSettles DEF TInv
<1>3. WriteOut(w)[q] = ack \o copies
  BY DEF WriteOut, Replicated
<1>4. /\ accepted \in DownMessages
      /\ accepted.kind = "ack" /\ accepted.await.then = "write"
  <2>1. [then |-> "write", req |-> w.val] \in Awaits
    BY BoundsAssumption DEF WriteMessages, Awaits, Values
  <2> QED
    BY <2>1, Built DEF WriteAck
<1>5. Replicated(w) \in DownMessages
  BY Built DEF Replicated, WriteMessages
<1>6. Cardinality(others) \in Nat /\ (Cardinality(others) = 0 <=> others = {})
  <2>1. others \subseteq sessions
    OBVIOUS
  <2> HIDE DEF others
  <2> QED
    BY <2>1, FS_Subset, FS_CardinalityType, FS_EmptySet DEF TInv
<1>7. others = {} <=> \A x \in sessions : x[1] = q => x = w.sid
  OBVIOUS
<1> HIDE DEF s, accepted, others
<1>8. ack \in Seq(DownMessages) /\ copies \in Seq(DownMessages)
  BY <1>4, <1>5, <1>6, Single, Repeated
<1>9. Delivered(s, ack) = s
  <2>1. Delivered(s, <<accepted>>) = Deliver(s, accepted)
    BY <1>4, DeliveredFew
  <2>2. Deliver(s, accepted) = s
    BY <1>4 DEF Deliver
  <2>3. Delivered(s, <<>>) = s
    BY <1>4, DeliveredFew
  <2> QED
    BY <2>1, <2>2, <2>3
<1>10. Delivered(s, copies) =
         IF Cardinality(others) = 0 THEN s ELSE Deliver(s, Replicated(w))
  BY <1>1, <1>5, <1>6, ReplicatedDelivered, RepeatedSettles
<1> HIDE DEF ack, copies
<1>11. Delivered(s, ack \o copies) = Delivered(s, copies)
  BY <1>8, <1>9, DeliveredConcat
<1> QED
  BY <1>2, <1>3, <1>6, <1>7, <1>10, <1>11 DEF s

\* Two states that differ, if at all, at path k alone.
Alike(k, s, t) ==
  /\ t.kind = s.kind
  /\ s.kind = "connected" =>
       t.sid = s.sid /\ \A j \in Keys \ {k} : t.root[j] = s.root[j]

LEMMA AlikeDelivered ==
  ASSUME NEW k, NEW s \in States, NEW t \in States, Alike(k, s, t),
         NEW m \in DownMessages
  PROVE  Alike(k, Deliver(s, m), Deliver(t, m))
<1>1. CASE m.kind = "connected"
  BY <1>1 DEF Deliver, Alike
<1>2. CASE m.kind = "ack"
  BY <1>2 DEF Deliver, Alike
<1>3. CASE m.kind = "replicated"
  BY <1>3 DEF Deliver, Alike, States, Disconnected, Roots
<1>4. CASE m.kind = "reconnect"
  BY <1>4 DEF Deliver, Alike
<1> QED
  BY <1>1, <1>2, <1>3, <1>4, DownKinds

\* A replica's own write, made at once, changes what it will show at that path,
\* if at all, and nothing else.
LEMMA WrittenSettles ==
  ASSUME TypeOK, NEW r \in Replicas, NEW k \in Keys, Write(r, k),
         NEW q \in Replicas
  PROVE  /\ q # r => Settled(q)' = Settled(q)
         /\ Settled(q)'.kind = Settled(q).kind
         /\ Settled(q).kind = "connected" =>
              /\ Settled(q)'.sid = Settled(q).sid
              /\ \A j \in Keys \ {k} : Settled(q)'.root[j] = Settled(q).root[j]
<1>1. /\ state' = [state EXCEPT ![r].root[k] = writes + 1] /\ down' = down
      /\ IsConnected(r)
  BY DEF Write
<1>2. CASE q # r
  <2>1. state'[q] = state[q]
    BY <1>1, <1>2 DEF TypeOK
  <2> QED
    BY <1>1, <2>1 DEF Settled
<1>3. CASE q = r
  <2>1. state[q] \in [kind : {"connected"}, sid : Sids, root : Roots]
    BY <1>1, <1>3 DEF TypeOK, IsConnected, Disconnected
  <2>2. state'[q] = [kind |-> "connected", sid |-> state[q].sid,
                     root |-> [state[q].root EXCEPT ![k] = writes + 1]]
    BY <1>1, <1>3, <2>1 DEF TypeOK
  <2>3. writes + 1 \in Values
    BY SMTT(30), BoundsAssumption DEF TypeOK, Values, Write
  <2>4. state[q] \in States /\ state'[q] \in States
    BY <2>1, <2>2, <2>3 DEF States, Roots
  <2>5. Alike(k, state[q], state'[q])
    BY <2>1, <2>2 DEF Alike, Roots
  <2> DEFINE R == {p \in States \X States : Alike(k, p[1], p[2])}
  <2>6. <<state[q], state'[q]>> \in R
    BY <2>4, <2>5
  <2>7. ASSUME NEW x, NEW y, <<x, y>> \in R, NEW i \in 1 .. Len(down[q])
        PROVE  <<Deliver(x, down[q][i]), Deliver(y, down[q][i])>> \in R
    <3>1. down[q][i] \in DownMessages
      BY ElementOfSeq DEF TypeOK
    <3>2. x \in States /\ y \in States /\ Alike(k, x, y)
      BY <2>7
    <3>3. /\ Deliver(x, down[q][i]) \in States /\ Deliver(y, down[q][i]) \in States
          /\ Alike(k, Deliver(x, down[q][i]), Deliver(y, down[q][i]))
      BY <3>1, <3>2, DeliverTypes, AlikeDelivered
    <3> QED
      BY <3>3
  <2>8. down[q] \in Seq(DownMessages) /\ down'[q] = down[q]
    BY <1>1 DEF TypeOK
  <2> HIDE DEF R
  <2>9. <<Delivered(state[q], down[q]), Delivered(state'[q], down[q])>> \in R
    BY <2>6, <2>7, <2>8, DeliveredAlike
  <2>10. Alike(k, Settled(q), Settled(q)')
    BY <2>8, <2>9 DEF R, Settled
  <2> QED
    BY <1>3, <2>10 DEF Alike
<1> QED
  BY <1>2, <1>3

------------------------------------------------------------------------------
(* The invariant for readers *)

\* A write comes from a replica that may make it, under a session of its own.
Mine ==
  /\ \A r \in Replicas : \A i \in 1 .. Len(up[r]) :
       up[r][i].kind = "write" =>
         up[r][i].sid[1] = r /\ <<r, up[r][i].key>> \in Writers
  /\ \A i \in 1 .. Len(queue) : <<queue[i].sid[1], queue[i].key>> \in Writers

\* A replica that will be connected will be so in a session the database knows,
\* with the database's value at every path it does not write.
Level(q, s, rt, ss) ==
  s.kind = "connected" =>
    /\ s.sid \in ss /\ s.sid[1] = q
    /\ \A k \in Keys : q \notin WritersOf(k) => s.root[k] = rt[k]

FInv ==
  /\ TInv /\ SInv /\ Mine
  /\ \A q \in open : Level(q, Settled(q), root, sessions)

LEMMA InitFInv == Init => FInv
<1> SUFFICES ASSUME Init PROVE FInv
  OBVIOUS
<1>1. TInv /\ SInv
  BY InitTInv, InitSInv
<1>2. Mine
  <2>1. \A r \in Replicas : Len(up[r]) = 0 /\ Len(queue) = 0
    BY EmptySeq DEF Init
  <2> QED
    BY <2>1 DEF Mine, Init
<1>3. ASSUME NEW q \in open
      PROVE  Level(q, Settled(q), root, sessions)
  <2>1. state[q] = Disconnected /\ down[q] = <<>>
    BY <1>3 DEF Init
  <2>2. Delivered(Disconnected, <<>>) = Disconnected
    BY DeliveredFew, Built
  <2> QED
    BY <2>1, <2>2 DEF Settled, Level, Disconnected
<1> QED
  BY <1>1, <1>2, <1>3 DEF FInv

\* A replica's channel grows by messages that are no writes, or loses some.
LEMMA MineSent ==
  ASSUME TInv, Mine, NEW r \in Replicas, NEW m \in UpMessages, Send(r, m),
         m.kind = "write" => m.sid[1] = r /\ <<r, m.key>> \in Writers,
         queue' = queue
  PROVE  Mine'
<1>1. ASSUME NEW q \in Replicas, NEW i \in 1 .. Len(up'[q]),
             up'[q][i].kind = "write"
      PROVE  up'[q][i].sid[1] = q /\ <<q, up'[q][i].key>> \in Writers
  <2>1. CASE up'[q] = up[q]
    BY <1>1, <2>1 DEF Mine
  <2>2. CASE q = r /\ up'[q] = Append(up[q], m)
    <3>1. /\ up[q] \in Seq(UpMessages) /\ Len(up[q]) \in Nat
      BY Typed, LenProperties
    <3>2. \/ i \in 1 .. Len(up[q]) /\ up'[q][i] = up[q][i]
          \/ up'[q][i] = m
      BY <2>2, <3>1, Sent
    <3> QED
      BY <1>1, <2>2, <3>2 DEF Mine
  <2> QED
    BY <2>1, <2>2 DEF Send, TInv, TypeOK
<1> QED
  BY <1>1 DEF Mine

LEMMA MineKept ==
  ASSUME TInv, Mine, NEW r \in Replicas, queue' = queue,
         \A q \in Replicas : q # r => up'[q] = up[q],
         \E d \in Nat : \A i \in 1 .. Len(up'[r]) :
           i + d \in 1 .. Len(up[r]) /\ up'[r][i] = up[r][i + d]
  PROVE  Mine'
<1>1. ASSUME NEW q \in Replicas, NEW i \in 1 .. Len(up'[q]),
             up'[q][i].kind = "write"
      PROVE  up'[q][i].sid[1] = q /\ <<q, up'[q][i].key>> \in Writers
  <2>1. CASE q # r
    <3>1. up'[q] = up[q]
      BY <2>1
    <3> QED
      BY <1>1, <3>1 DEF Mine
  <2>2. CASE q = r
    <3>1. PICK d \in Nat : \A n \in 1 .. Len(up'[r]) :
            n + d \in 1 .. Len(up[r]) /\ up'[r][n] = up[r][n + d]
      OBVIOUS
    <3>2. i + d \in 1 .. Len(up[r]) /\ up'[r][i] = up[r][i + d]
      BY <1>1, <2>2, <3>1
    <3> QED
      BY <1>1, <2>2, <3>2 DEF Mine
  <2> QED
    BY <2>1, <2>2
<1>2. \A i \in 1 .. Len(queue') :
        <<queue'[i].sid[1], queue'[i].key>> \in Writers
  BY DEF Mine
<1> QED
  BY <1>1, <1>2 DEF Mine

\* The head of a channel, and what is left of it.
LEMMA ArrivedWrite ==
  ASSUME TInv, Mine, NEW r \in Replicas, Arrives(r, "write")
  PROVE  /\ Head(up[r]) \in WriteMessages
         /\ Head(up[r]).sid[1] = r /\ <<r, Head(up[r]).key>> \in Writers
<1>1. /\ up[r] \in Seq(UpMessages) /\ up[r] # <<>>
      /\ Head(up[r]) \in WriteMessages /\ Head(up[r]).kind = "write"
  BY Typed, ArrivesTypes, UpKinds DEF Arrives, TInv
<1>2. 1 \in 1 .. Len(up[r]) /\ Head(up[r]) = up[r][1]
  BY <1>1, Taken, LenProperties
<1> QED
  BY <1>1, <1>2 DEF Mine

LEMMA MineArrived ==
  ASSUME TInv, Mine, NEW r \in Replicas, NEW kind, Arrives(r, kind),
         queue' = queue
  PROVE  Mine'
<1>1. up[r] \in Seq(UpMessages) /\ up[r] # <<>> /\ up'[r] = Tail(up[r])
  BY Typed DEF Arrives, TInv, TypeOK
<1>2. \A i \in 1 .. Len(up'[r]) : i + 1 \in 1 .. Len(up[r]) /\ up'[r][i] = up[r][i + 1]
  BY <1>1, Taken, LenProperties
<1>3. \A q \in Replicas : q # r => up'[q] = up[q]
  BY DEF Arrives, TInv, TypeOK
<1>4. \E d \in Nat : \A i \in 1 .. Len(up'[r]) :
        i + d \in 1 .. Len(up[r]) /\ up'[r][i] = up[r][i + d]
  <2>1. 1 \in Nat
    OBVIOUS
  <2> QED
    BY <1>2, <2>1
<1> QED
  BY <1>3, <1>4, MineKept

\* A session is its replica's own, and a write of it is typed.
LEMMA OwnSession ==
  ASSUME TInv, SInv, NEW r \in Replicas, IsConnected(r)
  PROVE  /\ state[r].sid \in Sids /\ state[r].sid[1] = r
         /\ \A k \in Keys, v \in Values :
              [kind |-> "write", sid |-> state[r].sid, key |-> k, val |-> v]
                \in UpMessages
<1>1. state[r].sid \in Sids
  BY DEF IsConnected, TInv, TypeOK, Disconnected
<1>2. Own(r, Current(r), up[r], down[r]) /\ Current(r) = {state[r].sid}
  BY DEF SInv, SInvOf, Current
<1>3. state[r].sid[1] = r
  BY <1>2 DEF Own
<1> QED
  BY <1>1, <1>3, Built DEF WriteMessages

LEMMA StepMine == TInv /\ SInv /\ Mine /\ [Next]_vars => Mine'
<1> SUFFICES ASSUME TInv, SInv, Mine, [Next]_vars
             PROVE  Mine'
  OBVIOUS
<1>1. ASSUME NEW r \in Replicas, NEW k \in Keys, Write(r, k)
      PROVE  Mine'
  <2> DEFINE w == [kind |-> "write", sid |-> state[r].sid,
                   key |-> k, val |-> writes + 1]
  <2>1. Send(r, w) /\ queue' = queue /\ <<r, k>> \in Writers /\ IsConnected(r)
    BY <1>1 DEF Write, dbVars
  <2>2. writes + 1 \in Values
    BY <1>1, BoundsAssumption DEF Write, TInv, TypeOK, Values
  <2>3. w \in UpMessages /\ w.sid[1] = r /\ w.key = k
    BY <2>1, <2>2, OwnSession
  <2> HIDE DEF w
  <2> QED
    BY <2>1, <2>3, MineSent
<1>2. ASSUME NEW r \in Replicas, NEW m \in UpMessages, Send(r, m),
             m.kind # "write", queue' = queue
      PROVE  Mine'
  BY <1>2, MineSent
<1>3. ASSUME UNCHANGED <<up, queue>>
      PROVE  Mine'
  BY <1>3 DEF Mine
<1>4. ASSUME NEW r \in Replicas,
             Connect(r) \/ Disconnect(r) \/ ReceiveReconnectAck(r)
                        \/ ReceiveReconnect(r)
      PROVE  Mine'
  <2> DEFINE c == [then |-> "connect", req |-> requests[r] + 1]
             d == [then |-> "disconnect", req |-> requests[r] + 1]
             e == [then |-> "rcDisconnect", req |-> requests[r] + 1]
  <2>1. /\ ConnectMessage(c) \in UpMessages
        /\ ConnectMessage(c).kind # "write"
    BY RequestTypes, Built DEF TInv, ConnectMessage
  <2>2. ASSUME IsConnected(r)
        PROVE  /\ DisconnectMessage(state[r].sid, d) \in UpMessages
               /\ DisconnectMessage(state[r].sid, e) \in UpMessages
               /\ DisconnectMessage(state[r].sid, d).kind # "write"
               /\ DisconnectMessage(state[r].sid, e).kind # "write"
    <3>1. d \in Awaits /\ e \in Awaits
      BY RequestTypes DEF TInv
    <3>2. state[r].sid \in Sids
      BY <2>2, OwnSession
    <3>3. /\ DisconnectMessage(state[r].sid, d) \in UpMessages
          /\ DisconnectMessage(state[r].sid, e) \in UpMessages
      BY <3>1, <3>2, Built
    <3> QED
      BY <3>3 DEF DisconnectMessage
  <2>3. CASE Connect(r)
    <3>1. Send(r, ConnectMessage(c)) /\ queue' = queue
      BY <2>3 DEF Connect, Request, dbVars
    <3> QED
      BY <1>2, <2>1, <3>1
  <2>4. CASE Disconnect(r)
    <3>1. /\ Send(r, DisconnectMessage(state[r].sid, d)) /\ queue' = queue
          /\ IsConnected(r)
      BY <2>4 DEF Disconnect, Request, dbVars
    <3> QED
      BY <1>2, <2>2, <3>1
  <2>5. CASE ReceiveReconnectAck(r)
    <3>1. Send(r, ConnectMessage(c)) /\ queue' = queue
      BY <2>5 DEF ReceiveReconnectAck, dbVars
    <3> QED
      BY <1>2, <2>1, <3>1
  <2>6. CASE ReceiveReconnect(r)
    <3>1. /\ queue' = queue
          /\ \/ IsConnected(r) /\ Send(r, DisconnectMessage(state[r].sid, e))
             \/ up' = up
      BY <2>6 DEF ReceiveReconnect, Request, dbVars
    <3> QED
      BY <1>2, <1>3, <2>2, <3>1
  <2> QED
    BY <1>4, <2>3, <2>4, <2>5, <2>6
<1>5. ASSUME NEW r \in Replicas, DbConnect(r) \/ DbDisconnect(r)
      PROVE  Mine'
  BY <1>5, MineArrived DEF DbConnect, DbDisconnect
<1>6. ASSUME NEW r \in Replicas, DbWrite(r)
      PROVE  Mine'
  <2> DEFINE w == Head(up[r])
  <2>1. /\ Arrives(r, "write")
        /\ queue' = queue \/ queue' = Append(queue, w)
    BY <1>6 DEF DbWrite
  <2>2. CASE queue' = queue
    BY <2>1, <2>2, MineArrived
  <2>3. CASE queue' = Append(queue, w)
    <3>1. w \in WriteMessages /\ <<w.sid[1], w.key>> \in Writers
      BY <2>1, ArrivedWrite
    <3> HIDE DEF w
    <3>2. queue \in Seq(WriteMessages) /\ Len(queue) \in Nat
      BY LenProperties DEF TInv, TypeOK
    <3>3. ASSUME NEW i \in 1 .. Len(queue')
          PROVE  <<queue'[i].sid[1], queue'[i].key>> \in Writers
      <4>1. \/ i \in 1 .. Len(queue) /\ queue'[i] = queue[i]
            \/ queue'[i] = w
        BY <2>3, <3>1, <3>2, Sent
      <4> QED
        BY <3>1, <4>1 DEF Mine
    <3>4. ASSUME NEW q \in Replicas, NEW i \in 1 .. Len(up'[q]),
                 up'[q][i].kind = "write"
          PROVE  up'[q][i].sid[1] = q /\ <<q, up'[q][i].key>> \in Writers
      <4>1. CASE q # r
        BY <2>1, <3>4, <4>1 DEF Arrives, Mine, TInv, TypeOK
      <4>2. CASE q = r
        <5>1. up[q] \in Seq(UpMessages) /\ up[q] # <<>> /\ up'[q] = Tail(up[q])
          BY <2>1, <4>2, Typed DEF Arrives, TInv, TypeOK
        <5>2. i + 1 \in 1 .. Len(up[q]) /\ up'[q][i] = up[q][i + 1]
          BY <3>4, <5>1, Taken, LenProperties
        <5> QED
          BY <3>4, <5>2 DEF Mine
      <4> QED
        BY <4>1, <4>2
    <3> QED
      BY <3>3, <3>4 DEF Mine
  <2> QED
    BY <2>1, <2>2, <2>3
<1>7. CASE DbGrant
  <2>1. queue \in Seq(WriteMessages) /\ queue # <<>> /\ queue' = Tail(queue)
        /\ up' = up
    BY <1>7 DEF DbGrant, TInv, TypeOK
  <2>2. \A i \in 1 .. Len(queue') : i + 1 \in 1 .. Len(queue) /\ queue'[i] = queue[i + 1]
    BY <2>1, Taken, LenProperties
  <2> QED
    BY <2>1, <2>2 DEF Mine
<1>8. ASSUME NEW r \in Replicas, Close(r)
      PROVE  Mine'
  <2> PICK n \in 0 .. Len(up[r]) : up' = [up EXCEPT ![r] = SubSeq(@, 1, n)]
    BY <1>8 DEF Close
  <2>1. queue' = queue /\ up'[r] = SubSeq(up[r], 1, n)
        /\ \A q \in Replicas : q # r => up'[q] = up[q]
    BY <1>8 DEF Close, dbVars, TInv, TypeOK
  <2>2. \A i \in 1 .. Len(up'[r]) :
          i + 0 \in 1 .. Len(up[r]) /\ up'[r][i] = up[r][i + 0]
    <3>1. up[r] \in Seq(UpMessages) /\ Len(up[r]) \in Nat
      BY Typed, LenProperties
    <3>2. n \in Int /\ 1 \in Int /\ \A i \in 1 .. n : up[r][i] \in UpMessages
      BY <3>1, ElementOfSeq
    <3>3. /\ Len(up'[r]) = IF 1 <= n THEN n - 1 + 1 ELSE 0
          /\ \A i \in 1 .. n - 1 + 1 : up'[r][i] = up[r][1 + i - 1]
      BY <2>1, <3>2, SubSeqProperties
    <3> QED
      BY <3>1, <3>3
  <2>3. 0 \in Nat
    OBVIOUS
  <2> QED
    BY <2>1, <2>2, <2>3, MineKept
<1>9. ASSUME NEW r \in Replicas, ReceiveAck(r) \/ ReceiveReplicated(r)
      PROVE  Mine'
  BY <1>3, <1>9 DEF ReceiveAck, ReceiveReplicated, dbVars
<1>10. CASE FlushTakes \/ FlushReturns \/ ReconnectClients \/ UNCHANGED vars
  BY <1>3, <1>10 DEF FlushTakes, FlushReturns, ReconnectClients, vars, dbVars
<1> QED
  BY <1>1, <1>4, <1>5, <1>6, <1>7, <1>8, <1>9, <1>10
  DEF Next, Receive, DbHandle

\* A write is applied: those in a session other than its own get its value, and
\* only they can be the readers of its path.
LEMMA ApplyLevel ==
  ASSUME TInv, NEW w \in WriteMessages, <<w.sid[1], w.key>> \in Writers,
         ApplyWrite(w), state' = state, sessions' = sessions, open' = open,
         NEW q \in open, Level(q, Settled(q), root, sessions)
  PROVE  Level(q, Settled(q), root, sessions)'
<1> DEFINE s == Settled(q)
           t == Settled(q)'
<1>1. q \in Replicas /\ s \in States
  BY SettledTyped DEF TInv, TypeOK
<1>2. t = IF \A x \in sessions : x[1] = q => x = w.sid
          THEN s ELSE Deliver(s, Replicated(w))
  BY <1>1, ApplyWriteTypes, WriteSettles
<1>3. /\ Deliver(s, Replicated(w)).kind = s.kind
      /\ s.kind = "connected" =>
           /\ Deliver(s, Replicated(w)).sid = s.sid
           /\ \A k \in Keys : Deliver(s, Replicated(w)).root[k] =
                                IF k = w.key THEN w.val ELSE s.root[k]
  BY <1>1, ReplicatedDelivered
<1>4. \A k \in Keys : root'[k] = IF k = w.key THEN w.val ELSE root[k]
  BY DEF ApplyWrite, TInv, TypeOK, Roots
<1> HIDE DEF s, t
<1>5. ASSUME t.kind = "connected"
      PROVE  /\ t.sid \in sessions /\ t.sid[1] = q
             /\ \A k \in Keys : q \notin WritersOf(k) => t.root[k] = root'[k]
  <2>1. /\ s.kind = "connected" /\ t.sid = s.sid
        /\ s.sid \in sessions /\ s.sid[1] = q
        /\ \A k \in Keys : q \notin WritersOf(k) => s.root[k] = root[k]
    BY <1>2, <1>3, <1>5 DEF Level, s
  <2>2. ASSUME NEW k \in Keys, q \notin WritersOf(k)
        PROVE  t.root[k] = root'[k]
    <3>1. CASE \A x \in sessions : x[1] = q => x = w.sid
      <4>1. s.sid = w.sid /\ <<q, w.key>> \in Writers
        BY <2>1, <3>1
      <4>2. k # w.key
        BY <1>1, <2>2, <4>1 DEF WritersOf
      <4> QED
        BY <1>2, <1>4, <2>1, <2>2, <3>1, <4>2
    <3>2. CASE ~(\A x \in sessions : x[1] = q => x = w.sid)
      BY <1>2, <1>3, <1>4, <2>1, <2>2, <3>2
    <3> QED
      BY <3>1, <3>2
  <2> QED
    BY <2>1, <2>2
<1> QED
  BY <1>5 DEF Level, t

\* Every step keeps the readers level with the database.
LEMMA StepLevel ==
  ASSUME FInv, [Next]_vars, NEW q \in open'
  PROVE  Level(q, Settled(q), root, sessions)'
<1> USE DEF FInv
<1>q. /\ open' \subseteq open /\ open \subseteq Replicas
      /\ q \in Replicas /\ q \in open
      /\ Level(q, Settled(q), root, sessions)
  <2>1. open' = open \/ \E r \in Replicas : open' = open \ {r}
    BY DEF Next, Connect, Disconnect, Write, Receive, ReceiveAck,
           ReceiveReconnectAck, ReceiveReplicated, ReceiveReconnect, DbHandle,
           DbConnect, DbDisconnect, DbWrite, Close, DbGrant, FlushTakes,
           FlushReturns, ReconnectClients, vars
  <2> QED
    BY <2>1 DEF TInv, TypeOK
<1>t. TypeOK /\ TInv /\ Settled(q) \in States
  BY <1>q, SettledTyped DEF TInv
<1>1. ASSUME Settled(q)' = Settled(q), UNCHANGED <<root, sessions>>
      PROVE  Level(q, Settled(q), root, sessions)'
  BY <1>1, <1>q DEF Level
<1>2. ASSUME state'[q] = state[q], down'[q] = down[q], UNCHANGED <<root, sessions>>
      PROVE  Level(q, Settled(q), root, sessions)'
  BY <1>1, <1>2 DEF Settled
<1>3. ASSUME NEW r \in Replicas, down[r] # <<>>, Pop(r),
             state' = [state EXCEPT ![r] = Deliver(@, Head(down[r]))],
             UNCHANGED <<root, sessions>>
      PROVE  Level(q, Settled(q), root, sessions)'
  BY <1>1, <1>3, <1>q, <1>t, ReceivedSettles
<1>4. ASSUME NEW r \in Replicas, Receive(r)
      PROVE  Level(q, Settled(q), root, sessions)'
  <2>1. ASSUME ReceiveAck(r) \/ ReceiveReconnectAck(r) \/ ReceiveReplicated(r)
        PROVE  Level(q, Settled(q), root, sessions)'
    BY <1>3, <2>1 DEF ReceiveAck, ReceiveReconnectAck, ReceiveReplicated, dbVars
  <2>2. ASSUME ReceiveReconnect(r)
        PROVE  Level(q, Settled(q), root, sessions)'
    <3>1. /\ down[r] # <<>> /\ Head(down[r]).kind = "reconnect" /\ Pop(r)
          /\ UNCHANGED <<root, sessions, state>>
      BY <2>2 DEF ReceiveReconnect, dbVars
    <3>2. Deliver(state[r], Head(down[r])) = state[r]
      BY <3>1 DEF Deliver
    <3>3. state' = [state EXCEPT ![r] = Deliver(@, Head(down[r]))]
      BY <1>t, <3>1, <3>2 DEF TypeOK
    <3> QED
      BY <1>3, <3>1, <3>3
  <2> QED
    BY <1>4, <2>1, <2>2 DEF Receive
<1>5. ASSUME NEW r \in Replicas, NEW k \in Keys, Write(r, k)
      PROVE  Level(q, Settled(q), root, sessions)'
  <2>1. UNCHANGED <<root, sessions>> /\ <<r, k>> \in Writers
    BY <1>5 DEF Write, dbVars
  <2>2. /\ q # r => Settled(q)' = Settled(q)
        /\ Settled(q)'.kind = Settled(q).kind
        /\ Settled(q).kind = "connected" =>
              /\ Settled(q)'.sid = Settled(q).sid
              /\ \A j \in Keys \ {k} : Settled(q)'.root[j] = Settled(q).root[j]
    BY <1>5, <1>q, <1>t, WrittenSettles
  <2>3. CASE q # r
    BY <1>1, <2>1, <2>2, <2>3
  <2>4. CASE q = r
    <3>1. \A j \in Keys : q \notin WritersOf(j) => j # k
      BY <1>q, <2>1, <2>4 DEF WritersOf
    <3> QED
      BY <1>q, <2>1, <2>2, <3>1 DEF Level
  <2> QED
    BY <2>3, <2>4
<1>6. ASSUME NEW r \in Replicas, DbConnect(r)
      PROVE  Level(q, Settled(q), root, sessions)'
  <2> DEFINE a == Head(up[r]).await
             sid == <<r, a.req>>
             m == [kind |-> "connected", await |-> a, sid |-> sid, root |-> root]
  <2>1. /\ sessions' = sessions \cup {sid} /\ Post(Only(r, m))
        /\ UNCHANGED <<root, state, open>>
    BY <1>6 DEF DbConnect, Arrives
  <2>2. m \in DownMessages
    <3>1. a \in Awaits
      BY <1>6, <1>t, ArrivesTypes, UpKinds DEF DbConnect
    <3>2. sid \in Sids
      BY <3>1 DEF Awaits, Sids
    <3> QED
      BY <1>t, <3>1, <3>2, Built DEF TypeOK
  <2>3. Settled(q)' = IF q = r THEN Deliver(Settled(q), m) ELSE Settled(q)
    BY <1>q, <1>t, <2>1, <2>2, OnlySettles
  <2>4. CASE q = r
    <3>1. Settled(q)' = Connected(sid, root)
      BY <2>3, <2>4 DEF Deliver
    <3> QED
      BY <2>1, <2>4, <3>1 DEF Level, Connected
  <2>5. CASE q # r
    BY <1>q, <2>1, <2>3, <2>5 DEF Level
  <2> QED
    BY <2>4, <2>5
<1>7. ASSUME NEW r \in Replicas, DbDisconnect(r)
      PROVE  Level(q, Settled(q), root, sessions)'
  <2> DEFINE h == Head(up[r])
             m == [kind |-> "ack", await |-> h.await, ok |-> h.sid \in sessions]
  <2>1. /\ up[r] # <<>> /\ h.kind = "disconnect"
        /\ sessions' = sessions \ {h.sid} /\ Post(Only(r, m))
        /\ UNCHANGED <<root, state, open>>
    BY <1>7 DEF DbDisconnect, Arrives
  <2>2. m \in DownMessages
    <3>1. h.await \in Awaits
      BY <1>7, <1>t, ArrivesTypes, UpKinds DEF DbDisconnect
    <3> DEFINE ok == h.sid \in sessions
    <3>2. ok \in BOOLEAN
      OBVIOUS
    <3> HIDE DEF ok, h
    <3> QED
      BY <3>1, <3>2, Built DEF ok
  <2>3. Settled(q)' = IF q = r THEN Deliver(Settled(q), m) ELSE Settled(q)
    BY <1>q, <1>t, <2>1, <2>2, OnlySettles
  <2>4. h.sid[1] = r /\ h.await.then \in {"disconnect", "rcDisconnect"}
    <3>1. up[r] \in Seq(UpMessages) /\ Own(r, Current(r), up[r], down[r])
      BY <1>t, Typed DEF SInv, SInvOf
    <3>2. 1 \in 1 .. Len(up[r]) /\ up[r][1] = h
      BY <2>1, <3>1, Taken, LenProperties
    <3> QED
      BY <2>1, <3>1, <3>2 DEF Own
  <2>5. CASE q = r /\ h.sid \in sessions
    <3>1. Settled(q)' = Disconnected
      BY <2>3, <2>4, <2>5 DEF Deliver
    <3> QED
      BY <3>1 DEF Level, Disconnected
  <2>6. CASE q = r /\ h.sid \notin sessions
    <3>1. Settled(q)' = Settled(q)
      BY <2>3, <2>6 DEF Deliver
    <3>2. sessions' = sessions
      BY <2>1, <2>6
    <3> QED
      BY <1>1, <2>1, <3>1, <3>2
  <2>7. CASE q # r
    BY <1>q, <2>1, <2>3, <2>4, <2>7 DEF Level
  <2> QED
    BY <2>5, <2>6, <2>7
<1>8. ASSUME NEW r \in Replicas, DbWrite(r)
      PROVE  Level(q, Settled(q), root, sessions)'
  <2> DEFINE w == Head(up[r])
             refused == WriteAck(w, FALSE)
  <2>1. /\ Arrives(r, "write") /\ UNCHANGED <<sessions, state, open>>
        /\ \/ Post(Only(r, refused)) /\ root' = root
           \/ UNCHANGED <<root, down>>
           \/ ApplyWrite(w)
    BY <1>8 DEF DbWrite
  <2>2. w \in WriteMessages /\ <<w.sid[1], w.key>> \in Writers
    BY <1>t, <2>1, ArrivedWrite
  <2>3. CASE Post(Only(r, refused)) /\ root' = root
    <3>1. refused \in DownMessages
      <4>1. [then |-> "write", req |-> w.val] \in Awaits
        BY <2>2, BoundsAssumption DEF WriteMessages, Awaits, Values
      <4> QED
        BY <4>1, Built DEF WriteAck
    <3>2. Deliver(Settled(q), refused) = Settled(q)
      BY DEF Deliver, WriteAck
    <3> HIDE DEF refused
    <3>3. Settled(q)' = Settled(q)
      BY <1>q, <1>t, <2>1, <2>3, <3>1, <3>2, OnlySettles
    <3> QED
      BY <1>1, <2>1, <2>3, <3>3
  <2>4. CASE UNCHANGED <<root, down>>
    BY <1>2, <2>1, <2>4
  <2>5. CASE ApplyWrite(w)
    BY <1>q, <1>t, <2>1, <2>2, <2>5, ApplyLevel
  <2> QED
    BY <2>1, <2>3, <2>4, <2>5
<1>9. CASE DbGrant
  <2>1. /\ queue \in Seq(WriteMessages) /\ queue # <<>>
        /\ ApplyWrite(Head(queue)) /\ UNCHANGED <<sessions, state, open>>
    BY <1>9, <1>t DEF DbGrant, TypeOK
  <2>2. /\ Head(queue) \in WriteMessages /\ Head(queue) = queue[1]
        /\ 1 \in 1 .. Len(queue)
    BY <2>1, Taken, LenProperties
  <2>3. <<Head(queue).sid[1], Head(queue).key>> \in Writers
    BY <2>2 DEF Mine
  <2> QED
    BY <1>q, <1>t, <2>1, <2>2, <2>3, ApplyLevel
<1>10. CASE ReconnectClients
  <2> DEFINE of(p) == {x \in sessions : x[1] = p}
             m == [kind |-> "reconnect"]
             out == [p \in Replicas |-> [i \in 1 .. Cardinality(of(p)) |-> m]]
  <2>1. /\ Post(out) /\ UNCHANGED <<root, sessions, state, open>>
    BY <1>10 DEF ReconnectClients, dbVars
  <2>2. /\ m \in DownMessages /\ Deliver(Settled(q), m) = Settled(q)
    BY Built DEF Deliver
  <2>3. ASSUME NEW p \in Replicas
        PROVE  Cardinality(of(p)) \in Nat
    <3>1. of(p) \subseteq sessions
      OBVIOUS
    <3> QED
      BY <1>t, <3>1, FS_Subset, FS_CardinalityType DEF TInv
  <2> HIDE DEF of, m
  <2>4. out \in [Replicas -> Seq(DownMessages)]
    BY <2>2, <2>3, Repeated
  <2>5. Delivered(Settled(q), out[q]) = Settled(q)
    <3>1. out[q] = [i \in 1 .. Cardinality(of(q)) |-> m]
      BY <1>q
    <3> QED
      BY <1>q, <2>2, <2>3, <3>1, RepeatedSettles
  <2> HIDE DEF out
  <2>6. Settled(q)' = Settled(q)
    BY <1>q, <1>t, <2>1, <2>4, <2>5, PostedSettles
  <2> QED
    BY <1>1, <2>1, <2>6
<1>11. ASSUME NEW r \in Replicas, Close(r)
       PROVE  Level(q, Settled(q), root, sessions)'
  <2>1. q # r /\ UNCHANGED <<root, sessions, state>> /\ down'[q] = down[q]
    BY <1>11, <1>q, <1>t DEF Close, dbVars, TypeOK
  <2> QED
    BY <1>2, <2>1
<1>12. ASSUME NEW r \in Replicas, Connect(r) \/ Disconnect(r)
       PROVE  Level(q, Settled(q), root, sessions)'
  BY <1>2, <1>12 DEF Connect, Disconnect, dbVars
<1>13. CASE FlushTakes \/ FlushReturns \/ UNCHANGED vars
  BY <1>2, <1>13 DEF FlushTakes, FlushReturns, vars
<1> QED
  BY <1>4, <1>5, <1>6, <1>7, <1>8, <1>9, <1>10, <1>11, <1>12, <1>13
  DEF Next, DbHandle

LEMMA SpecFInv == Spec => []FInv
<1>1. FInv /\ [Next]_vars => FInv'
  BY StepTInv, StepSInv, StepMine, StepLevel DEF FInv
<1> QED
  BY <1>1, InitFInv, PTL DEF Spec

\* Where a replica does not write the path nothing of its own is on the way.
LEMMA NoneOutstanding ==
  ASSUME TInv, Mine, NEW r \in Replicas, NEW k \in Keys, NEW sid, sid[1] = r,
         r \notin WritersOf(k)
  PROVE  Outstanding(r, sid, k) = {}
<1>1. /\ queue \in Seq(WriteMessages) /\ queue \in Seq(UpMessages)
      /\ up[r] \in Seq(UpMessages)
  BY Built, SeqMonotonic DEF TInv, TypeOK
<1>2. /\ OnWay(r) \in Seq(UpMessages) /\ Len(OnWay(r)) = Len(queue) + Len(up[r])
      /\ DOMAIN OnWay(r) = 1 .. Len(OnWay(r))
      /\ Len(queue) \in Nat /\ Len(up[r]) \in Nat
      /\ \A i \in 1 .. Len(queue) + Len(up[r]) : OnWay(r)[i] =
           IF i <= Len(queue) THEN queue[i] ELSE up[r][i - Len(queue)]
  BY <1>1, ConcatProperties, LenProperties DEF OnWay
<1>3. ASSUME NEW i \in DOMAIN OnWay(r), OnWay(r)[i].kind = "write",
             OnWay(r)[i].sid = sid, OnWay(r)[i].key = k
      PROVE  FALSE
  <2>1. <<r, k>> \notin Writers
    BY DEF WritersOf
  <2>2. CASE i <= Len(queue)
    BY <1>2, <1>3, <2>1, <2>2 DEF Mine
  <2>3. CASE ~(i <= Len(queue))
    <3>1. i - Len(queue) \in 1 .. Len(up[r]) /\ OnWay(r)[i] = up[r][i - Len(queue)]
      BY <1>2, <2>3
    <3> QED
      BY <1>3, <2>1, <3>1 DEF Mine
  <2> QED
    BY <2>2, <2>3
<1> QED
  BY <1>3 DEF Outstanding

\* A replica that does not itself write a path shows what the database holds
\* there, once its messages are in (replica.ts:603, write.ts:74).
THEOREM ReadersNeverLeftBehind == Spec => []ReadersFollow
<1>1. FInv => ReadersFollow
  <2> SUFFICES ASSUME FInv, NEW r \in open, NEW k \in Keys,
                      r \notin WritersOf(k), Settled(r).kind = "connected"
               PROVE  LET own == Outstanding(r, Settled(r).sid, k)
                      IN  Settled(r).root[k] =
                            IF own = {} THEN root[k] ELSE OnWay(r)[Max(own)].val
    BY DEF ReadersFollow, Follows
  <2>1. r \in Replicas /\ TInv /\ Mine
    BY DEF FInv, TInv, TypeOK
  <2>2. Settled(r).sid[1] = r /\ Settled(r).root[k] = root[k]
    BY DEF FInv, Level
  <2>3. Outstanding(r, Settled(r).sid, k) = {}
    BY <2>1, <2>2, NoneOutstanding
  <2> QED
    BY <2>2, <2>3
<1> QED
  BY <1>1, SpecFInv, PTL

------------------------------------------------------------------------------
(***************************************************************************)
(* The only writer of a path keeps its optimistic value, where clients are *)
(* never told to reconnect.                                                *)
(***************************************************************************)
------------------------------------------------------------------------------
(* A replica's writes on their way: `qu` is what waits for rootMutex, `u` and *)
(* `d` the replica's channels, `aw` what it awaits, `cur` its session.        *)

Written(r, m) == m.kind = "write" /\ m.sid[1] = r
WriteAwait(m) == [then |-> "write", req |-> m.val]
Acks(m, v) == m.kind = "ack" /\ m.await = [then |-> "write", req |-> v]

\* Writes are told apart by their numbers ...
Apart(r, s) ==
  \A i, j \in 1 .. Len(s) :
    Written(r, s[i]) /\ Written(r, s[j]) /\ s[i].val = s[j].val => i = j

Clear(r, s, t) ==
  \A i \in 1 .. Len(s), j \in 1 .. Len(t) :
    Written(r, s[i]) /\ Written(r, t[j]) => s[i].val # t[j].val

\* ... and are awaited, no answer to one being on its way while it is itself.
Pending(r, s, d, aw) ==
  \A i \in 1 .. Len(s) : Written(r, s[i]) =>
    /\ WriteAwait(s[i]) \in aw
    /\ \A j \in 1 .. Len(d) : ~Acks(d[j], s[i].val)

\* They are of the session the replica is in ...
OfSession(r, cur, s) ==
  \A i \in 1 .. Len(s) : Written(r, s[i]) /\ cur # {} => cur = {s[i].sid}

NoneOf(r, s) == \A i \in 1 .. Len(s) : ~Written(r, s[i])

\* ... for while there are any no session begins.
NoneBegins(u, d) ==
  /\ \A i \in 1 .. Len(u) : u[i].kind # "connect"
  /\ \A i \in 1 .. Len(d) : ~Begins(d[i])

OnTheirWay(r, cur, qu, u, d, aw) ==
  /\ Apart(r, qu) /\ Apart(r, u) /\ Clear(r, qu, u)
  /\ Pending(r, qu, d, aw) /\ Pending(r, u, d, aw)
  /\ OfSession(r, cur, qu) /\ OfSession(r, cur, u)
  /\ \/ NoneOf(r, qu) /\ NoneOf(r, u)
     \/ NoneBegins(u, d)

\* Nobody is told to reconnect, and no write has a number not given yet.
PlainUp(m, n) ==
  /\ m.kind = "write" => m.val <= n
  /\ m.kind = "disconnect" => m.await.then # "rcDisconnect"

PlainDown(m, n) ==
  /\ m.kind # "reconnect"
  /\ m.kind = "ack" => m.await.then # "rcDisconnect"
  /\ m.kind = "ack" /\ m.await.then = "write" => m.await.req <= n

Plain ==
  /\ \A i \in 1 .. Len(queue) : PlainUp(queue[i], writes)
  /\ \A r \in Replicas : \A i \in 1 .. Len(up[r]) : PlainUp(up[r][i], writes)
  /\ \A r \in Replicas : \A i \in 1 .. Len(down[r]) :
       PlainDown(down[r][i], writes)

\* The replica's own writes do not come back to it.
NoEcho(r, d) ==
  \A i \in 1 .. Len(d) :
    d[i].kind = "replicated" => WritersOf(d[i].key) # {r}

\* The values of k that the database has or will be given.
Vals(s, k) == {s[i].val : i \in {j \in 1 .. Len(s) : Of(s[j], k)}}
ToCome(rt, qu, u, k) == {rt[k]} \cup Vals(qu, k) \cup Vals(u, k)

\* The writer shows the last of them.
Shows(s, k, vs) ==
  s.kind = "connected" => s.root[k] \in vs /\ \A v \in vs : v <= s.root[k]

Path(r) == OnTheirWay(r, Current(r), queue, up[r], down[r], awaiting[r])
Shown(r, k) == Shows(Settled(r), k, ToCome(root, queue, up[r], k))

WInv ==
  /\ FInv /\ OInv /\ Plain
  /\ \A r \in open :
       /\ Path(r) /\ NoEcho(r, down[r])
       /\ \A k \in Keys : WritersOf(k) = {r} => Shown(r, k)

------------------------------------------------------------------------------
(* Sequences *)

\* t is a part of s without gaps.
Part(t, s) ==
  \E d \in Nat : \A i \in 1 .. Len(t) : i + d \in 1 .. Len(s) /\ t[i] = s[i + d]

LEMMA Parts ==
  ASSUME NEW S, NEW s \in Seq(S)
  PROVE  /\ Part(s, s)
         /\ s # <<>> => Part(Tail(s), s)
         /\ \A n \in 0 .. Len(s) : Part(SubSeq(s, 1, n), s)
<1>1. Len(s) \in Nat /\ 0 \in Nat /\ 1 \in Nat
  BY LenProperties
<1>2. Part(s, s)
  <2>1. \A i \in 1 .. Len(s) : i + 0 \in 1 .. Len(s) /\ s[i] = s[i + 0]
    BY <1>1
  <2> QED
    BY <1>1, <2>1 DEF Part
<1>3. ASSUME s # <<>> PROVE Part(Tail(s), s)
  <2>1. \A i \in 1 .. Len(Tail(s)) : i + 1 \in 1 .. Len(s) /\ Tail(s)[i] = s[i + 1]
    BY <1>1, <1>3, Taken
  <2> QED
    BY <1>1, <2>1 DEF Part
<1>4. ASSUME NEW n \in 0 .. Len(s) PROVE Part(SubSeq(s, 1, n), s)
  <2> DEFINE t == SubSeq(s, 1, n)
  <2>1. n \in Int /\ 1 \in Int /\ \A i \in 1 .. n : s[i] \in S
    BY <1>1, ElementOfSeq
  <2>2. /\ Len(t) = IF 1 <= n THEN n - 1 + 1 ELSE 0
        /\ \A i \in 1 .. n - 1 + 1 : t[i] = s[1 + i - 1]
    BY <2>1, SubSeqProperties
  <2> HIDE DEF t
  <2>3. \A i \in 1 .. Len(t) : i + 0 \in 1 .. Len(s) /\ t[i] = s[i + 0]
    BY <1>1, <2>2
  <2> QED
    BY <1>1, <2>3 DEF Part, t
<1> QED
  BY <1>2, <1>3, <1>4

\* Parts of the channels, with nothing less awaited.
LEMMA PartsKeep ==
  ASSUME NEW r, NEW cur, NEW qu, NEW u, NEW d, NEW aw, NEW qv, NEW v, NEW e,
         NEW aw2, Part(qv, qu), Part(v, u), Part(e, d), aw \subseteq aw2,
         OnTheirWay(r, cur, qu, u, d, aw)
  PROVE  OnTheirWay(r, cur, qv, v, e, aw2)
<1> PICK a \in Nat : \A i \in 1 .. Len(qv) : i + a \in 1 .. Len(qu) /\ qv[i] = qu[i + a]
  BY DEF Part
<1> PICK b \in Nat : \A i \in 1 .. Len(v) : i + b \in 1 .. Len(u) /\ v[i] = u[i + b]
  BY DEF Part
<1>1. \A i \in 1 .. Len(e) : \E j \in 1 .. Len(d) : e[i] = d[j]
  BY DEF Part
<1>2. Apart(r, qv)
  <2>1. ASSUME NEW i \in 1 .. Len(qv), NEW j \in 1 .. Len(qv), Written(r, qv[i]),
               Written(r, qv[j]), qv[i].val = qv[j].val
        PROVE  i = j
    <3>1. /\ i + a \in 1 .. Len(qu) /\ qv[i] = qu[i + a]
          /\ j + a \in 1 .. Len(qu) /\ qv[j] = qu[j + a]
      OBVIOUS
    <3>2. Apart(r, qu)
      BY DEF OnTheirWay
    <3>3. i + a = j + a
      BY <2>1, <3>1, <3>2 DEF Apart
    <3> QED
      BY <3>3
  <2> QED
    BY <2>1 DEF Apart
<1>3. Apart(r, v)
  <2>1. ASSUME NEW i \in 1 .. Len(v), NEW j \in 1 .. Len(v), Written(r, v[i]),
               Written(r, v[j]), v[i].val = v[j].val
        PROVE  i = j
    <3>1. /\ i + b \in 1 .. Len(u) /\ v[i] = u[i + b]
          /\ j + b \in 1 .. Len(u) /\ v[j] = u[j + b]
      OBVIOUS
    <3>2. Apart(r, u)
      BY DEF OnTheirWay
    <3>3. i + b = j + b
      BY <2>1, <3>1, <3>2 DEF Apart
    <3> QED
      BY <3>3
  <2> QED
    BY <2>1 DEF Apart
<1>4. Clear(r, qv, v)
  BY DEF OnTheirWay, Clear
<1>5. Pending(r, qv, e, aw2) /\ Pending(r, v, e, aw2)
  <2>1. ASSUME NEW i \in 1 .. Len(qv), Written(r, qv[i])
        PROVE  /\ WriteAwait(qv[i]) \in aw2
               /\ \A j \in 1 .. Len(e) : ~Acks(e[j], qv[i].val)
    BY <1>1, <2>1 DEF OnTheirWay, Pending
  <2>2. ASSUME NEW i \in 1 .. Len(v), Written(r, v[i])
        PROVE  /\ WriteAwait(v[i]) \in aw2
               /\ \A j \in 1 .. Len(e) : ~Acks(e[j], v[i].val)
    BY <1>1, <2>2 DEF OnTheirWay, Pending
  <2> QED
    BY <2>1, <2>2 DEF Pending
<1>6. OfSession(r, cur, qv) /\ OfSession(r, cur, v)
  <2>1. OfSession(r, cur, qu) /\ OfSession(r, cur, u)
    BY DEF OnTheirWay
  <2>2. ASSUME NEW i \in 1 .. Len(qv), Written(r, qv[i]), cur # {}
        PROVE  cur = {qv[i].sid}
    <3>1. i + a \in 1 .. Len(qu) /\ qv[i] = qu[i + a]
      OBVIOUS
    <3> QED
      BY <2>1, <2>2, <3>1 DEF OfSession
  <2>3. ASSUME NEW i \in 1 .. Len(v), Written(r, v[i]), cur # {}
        PROVE  cur = {v[i].sid}
    <3>1. i + b \in 1 .. Len(u) /\ v[i] = u[i + b]
      OBVIOUS
    <3> QED
      BY <2>1, <2>3, <3>1 DEF OfSession
  <2> QED
    BY <2>2, <2>3 DEF OfSession
<1>7. NoneOf(r, qu) /\ NoneOf(r, u) => NoneOf(r, qv) /\ NoneOf(r, v)
  BY DEF NoneOf
<1>8. NoneBegins(u, d) => NoneBegins(v, e)
  BY <1>1 DEF NoneBegins
<1> QED
  BY <1>2, <1>3, <1>4, <1>5, <1>6, <1>7, <1>8 DEF OnTheirWay

\* What arrives at the replica begins nothing and answers none of its writes.
LEMMA PostsKeep ==
  ASSUME NEW r, NEW cur, NEW qu, NEW u, NEW aw, NEW d \in Seq(DownMessages),
         NEW out \in Seq(DownMessages), OnTheirWay(r, cur, qu, u, d, aw),
         \A i \in 1 .. Len(out) :
           /\ ~Begins(out[i])
           /\ \A j \in 1 .. Len(qu) : Written(r, qu[j]) => ~Acks(out[i], qu[j].val)
           /\ \A j \in 1 .. Len(u) : Written(r, u[j]) => ~Acks(out[i], u[j].val)
  PROVE  OnTheirWay(r, cur, qu, u, d \o out, aw)
<1> DEFINE e == d \o out
<1>1. /\ Len(e) = Len(d) + Len(out) /\ Len(d) \in Nat /\ Len(out) \in Nat
      /\ \A i \in 1 .. Len(d) + Len(out) :
           e[i] = IF i <= Len(d) THEN d[i] ELSE out[i - Len(d)]
  BY ConcatProperties, LenProperties
<1> HIDE DEF e
<1>2. ASSUME NEW i \in 1 .. Len(e)
      PROVE  \/ \E j \in 1 .. Len(d) : e[i] = d[j]
             \/ \E j \in 1 .. Len(out) : e[i] = out[j]
  <2>1. CASE i <= Len(d)
    BY <1>1, <2>1
  <2>2. CASE ~(i <= Len(d))
    <3>1. i - Len(d) \in 1 .. Len(out) /\ e[i] = out[i - Len(d)]
      BY <1>1, <2>2
    <3> QED
      BY <3>1
  <2> QED
    BY <2>1, <2>2
<1>3. Pending(r, qu, e, aw) /\ Pending(r, u, e, aw)
  BY <1>2 DEF OnTheirWay, Pending
<1>4. NoneBegins(u, d) => NoneBegins(u, e)
  BY <1>2 DEF NoneBegins
<1> QED
  BY <1>3, <1>4 DEF OnTheirWay, e

\* A write that queues goes behind those that wait.
LEMMA QueuedKeeps ==
  ASSUME NEW r, NEW cur, NEW aw, NEW d, NEW qu \in Seq(UpMessages),
         NEW u \in Seq(UpMessages), u # <<>>, Written(r, Head(u)),
         OnTheirWay(r, cur, qu, u, d, aw)
  PROVE  OnTheirWay(r, cur, Append(qu, Head(u)), Tail(u), d, aw)
<1> DEFINE w == Head(u)
           qv == Append(qu, w)
           v == Tail(u)
<1>1. /\ w \in UpMessages /\ Written(r, w) /\ w = u[1] /\ 1 \in 1 .. Len(u)
      /\ Len(u) \in Nat /\ Len(qu) \in Nat
      /\ Len(qv) = Len(qu) + 1 /\ qv[Len(qu) + 1] = w
      /\ \A i \in 1 .. Len(qu) : qv[i] = qu[i]
      /\ Len(v) = Len(u) - 1
      /\ \A i \in 1 .. Len(v) : i + 1 \in 1 .. Len(u) /\ i + 1 # 1 /\ v[i] = u[i + 1]
  BY Taken, Sent, LenProperties
<1> HIDE DEF w, qv, v
<1>2. \A i \in 1 .. Len(qv) :
        (i \in 1 .. Len(qu) /\ qv[i] = qu[i]) \/ (i = Len(qu) + 1 /\ qv[i] = u[1])
  BY <1>1
<1>3. Apart(r, qv)
  <2>1. ASSUME NEW i \in 1 .. Len(qv), NEW j \in 1 .. Len(qv), Written(r, qv[i]),
               Written(r, qv[j]), qv[i].val = qv[j].val
        PROVE  i = j
    BY SMTT(30), <1>1, <1>2, <2>1 DEF OnTheirWay, Apart, Clear
  <2> QED
    BY <2>1 DEF Apart
<1>4. Apart(r, v)
  <2>1. ASSUME NEW i \in 1 .. Len(v), NEW j \in 1 .. Len(v), Written(r, v[i]),
               Written(r, v[j]), v[i].val = v[j].val
        PROVE  i = j
    <3>1. /\ i + 1 \in 1 .. Len(u) /\ v[i] = u[i + 1]
          /\ j + 1 \in 1 .. Len(u) /\ v[j] = u[j + 1]
      BY <1>1
    <3>2. Apart(r, u)
      BY DEF OnTheirWay
    <3>3. i + 1 = j + 1
      BY <2>1, <3>1, <3>2 DEF Apart
    <3> QED
      BY <3>3
  <2> QED
    BY <2>1 DEF Apart
<1>5. Clear(r, qv, v)
  <2>1. ASSUME NEW i \in 1 .. Len(qv), NEW j \in 1 .. Len(v), Written(r, qv[i]),
               Written(r, v[j])
        PROVE  qv[i].val # v[j].val
    <3>1. v[j] = u[j + 1] /\ j + 1 \in 1 .. Len(u) /\ j + 1 # 1
      BY <1>1
    <3> QED
      BY SMTT(30), <1>1, <1>2, <2>1, <3>1 DEF OnTheirWay, Apart, Clear
  <2> QED
    BY <2>1 DEF Clear
<1>6. Pending(r, qv, d, aw) /\ Pending(r, v, d, aw)
  BY <1>1, <1>2 DEF OnTheirWay, Pending
<1>7. OfSession(r, cur, qv) /\ OfSession(r, cur, v)
  <2>1. OfSession(r, cur, qu) /\ OfSession(r, cur, u)
    BY DEF OnTheirWay
  <2>2. ASSUME NEW i \in 1 .. Len(qv), Written(r, qv[i]), cur # {}
        PROVE  cur = {qv[i].sid}
    <3>1. \/ i \in 1 .. Len(qu) /\ qv[i] = qu[i]
          \/ 1 \in 1 .. Len(u) /\ qv[i] = u[1]
      BY <1>1, <1>2
    <3> QED
      BY <2>1, <2>2, <3>1 DEF OfSession
  <2>3. ASSUME NEW i \in 1 .. Len(v), Written(r, v[i]), cur # {}
        PROVE  cur = {v[i].sid}
    <3>1. i + 1 \in 1 .. Len(u) /\ v[i] = u[i + 1]
      BY <1>1
    <3> QED
      BY <2>1, <2>3, <3>1 DEF OfSession
  <2> QED
    BY <2>2, <2>3 DEF OfSession
<1>8. NoneBegins(v, d)
  BY <1>1 DEF OnTheirWay, NoneOf, NoneBegins
<1> QED
  BY <1>3, <1>4, <1>5, <1>6, <1>7, <1>8 DEF OnTheirWay, qv, v, w

\* Another's write in the queue is none of the replica's.
LEMMA OthersKeep ==
  ASSUME NEW r, NEW cur, NEW aw, NEW d, NEW u, NEW qu \in Seq(UpMessages),
         NEW w \in UpMessages, ~Written(r, w),
         OnTheirWay(r, cur, qu, u, d, aw)
  PROVE  OnTheirWay(r, cur, Append(qu, w), u, d, aw)
<1> DEFINE qv == Append(qu, w)
<1>1. \A i \in 1 .. Len(qv) :
        Written(r, qv[i]) => i \in 1 .. Len(qu) /\ qv[i] = qu[i]
  BY Sent, LenProperties
<1> HIDE DEF qv
<1> QED
  BY <1>1 DEF OnTheirWay, Apart, Clear, Pending, OfSession, NoneOf, qv

\* A message that is no write is sent; a connect only when nothing is awaited.
LEMMA SendKeeps ==
  ASSUME NEW r, NEW cur, NEW aw, NEW aw2, NEW d, NEW qu,
         NEW u \in Seq(UpMessages), NEW m \in UpMessages, m.kind # "write",
         m.kind = "connect" => aw = {}, aw \subseteq aw2,
         OnTheirWay(r, cur, qu, u, d, aw)
  PROVE  OnTheirWay(r, cur, qu, Append(u, m), d, aw2)
<1> DEFINE v == Append(u, m)
<1>1. \A i \in 1 .. Len(v) :
        (i \in 1 .. Len(u) /\ v[i] = u[i]) \/ v[i] = m
  BY Sent, LenProperties
<1>2. \A i \in 1 .. Len(v) :
        Written(r, v[i]) => i \in 1 .. Len(u) /\ v[i] = u[i]
  BY <1>1 DEF Written
<1> HIDE DEF v
<1>3. NoneOf(r, qu) /\ NoneOf(r, u) => NoneOf(r, v)
  BY <1>2 DEF NoneOf
<1>4. CASE m.kind = "connect"
  <2>1. NoneOf(r, qu) /\ NoneOf(r, u)
    BY <1>4 DEF OnTheirWay, Pending, NoneOf
  <2> QED
    BY <1>3, <2>1 DEF OnTheirWay, Apart, Clear, Pending, OfSession, NoneOf, v
<1>5. CASE m.kind # "connect"
  <2>1. NoneBegins(u, d) => NoneBegins(v, d)
    BY <1>1, <1>5 DEF NoneBegins
  <2>2. Apart(r, v) /\ Clear(r, qu, v)
    BY <1>2 DEF OnTheirWay, Apart, Clear
  <2>3. Pending(r, qu, d, aw2) /\ Pending(r, v, d, aw2)
    BY <1>2 DEF OnTheirWay, Pending
  <2>4. OfSession(r, cur, v)
    BY <1>2 DEF OnTheirWay, OfSession
  <2> QED
    BY <1>3, <2>1, <2>2, <2>3, <2>4 DEF OnTheirWay, v
<1> QED
  BY <1>4, <1>5

\* A new write, with a number of its own, in the session the replica is in.
LEMMA WriteKeeps ==
  ASSUME NEW r, NEW cur, NEW aw, NEW d, NEW qu, NEW u \in Seq(UpMessages),
         NEW w \in UpMessages, Written(r, w), cur = {w.sid}, NoneBegins(u, d),
         \A i \in 1 .. Len(qu) : Written(r, qu[i]) => qu[i].val # w.val,
         \A i \in 1 .. Len(u) : Written(r, u[i]) => u[i].val # w.val,
         \A i \in 1 .. Len(d) : ~Acks(d[i], w.val),
         OnTheirWay(r, cur, qu, u, d, aw)
  PROVE  OnTheirWay(r, cur, qu, Append(u, w), d, aw \cup {WriteAwait(w)})
<1> DEFINE v == Append(u, w)
           aw2 == aw \cup {WriteAwait(w)}
<1>1. /\ Len(u) \in Nat
      /\ \A i \in 1 .. Len(v) :
           (i \in 1 .. Len(u) /\ v[i] = u[i]) \/ (i = Len(u) + 1 /\ v[i] = w)
  BY Sent, LenProperties
<1>2. aw \subseteq aw2 /\ WriteAwait(w) \in aw2
  OBVIOUS
<1> HIDE DEF v, aw2
<1>3. Apart(r, v) /\ Clear(r, qu, v)
  BY <1>1 DEF OnTheirWay, Apart, Clear
<1>4. Pending(r, qu, d, aw2) /\ Pending(r, v, d, aw2)
  BY <1>1, <1>2 DEF OnTheirWay, Pending
<1>5. OfSession(r, cur, v)
  BY <1>1 DEF OnTheirWay, OfSession
<1>6. w.kind # "connect"
  BY DEF Written
<1>7. NoneBegins(v, d)
  BY <1>1, <1>6 DEF NoneBegins
<1> QED
  BY <1>3, <1>4, <1>5, <1>7 DEF OnTheirWay, v, aw2

\* An answer is received: the request is no longer awaited, and a session ends,
\* or begins, or goes on.
LEMMA ReceiptKeeps ==
  ASSUME NEW r, NEW cur, NEW c, NEW aw, NEW qu, NEW u,
         NEW d \in Seq(DownMessages), d # <<>>,
         Head(d).kind \in {"ack", "connected"},
         Begins(Head(d)) \/ c = cur \/ c = {},
         Begins(Head(d)) => Head(d).await.then # "write",
         OnTheirWay(r, cur, qu, u, d, aw)
  PROVE  OnTheirWay(r, c, qu, u, Tail(d), aw \ {Head(d).await})
<1> DEFINE m == Head(d)
           aw2 == aw \ {m.await}
           e == Tail(d)
<1>1. /\ m = d[1] /\ 1 \in 1 .. Len(d)
      /\ \A i \in 1 .. Len(e) : i + 1 \in 1 .. Len(d) /\ e[i] = d[i + 1]
  BY Taken, LenProperties
<1> HIDE DEF m, aw2, e
<1>2. NoneBegins(u, d) => NoneBegins(u, e)
  BY <1>1 DEF NoneBegins
<1>3. Begins(m) => NoneOf(r, qu) /\ NoneOf(r, u)
  BY <1>1 DEF OnTheirWay, NoneBegins
<1>4. m.await.then = "write" => m.kind = "ack"
  BY DEF Begins, m
<1>5. ASSUME NEW w, WriteAwait(w) \in aw,
             \A j \in 1 .. Len(d) : ~Acks(d[j], w.val)
      PROVE  /\ WriteAwait(w) \in aw2
             /\ \A j \in 1 .. Len(e) : ~Acks(e[j], w.val)
  <2>1. ~Acks(m, w.val)
    BY <1>1, <1>5
  <2>2. m.await # WriteAwait(w)
    <3>1. WriteAwait(w).then = "write"
      BY DEF WriteAwait
    <3> QED
      BY <1>4, <2>1, <3>1 DEF Acks, WriteAwait
  <2> QED
    BY <1>1, <1>5, <2>2 DEF aw2, m
<1>6. Pending(r, qu, e, aw2) /\ Pending(r, u, e, aw2)
  BY <1>5 DEF OnTheirWay, Pending
<1>7. OfSession(r, c, qu) /\ OfSession(r, c, u)
  <2>1. CASE Begins(m)
    BY <1>3, <2>1 DEF NoneOf, OfSession
  <2>2. CASE c = cur
    BY <2>2 DEF OnTheirWay
  <2>3. CASE c = {}
    BY <2>3 DEF OfSession
  <2> QED
    BY <2>1, <2>2, <2>3 DEF m
<1> QED
  BY <1>2, <1>6, <1>7 DEF OnTheirWay, e, aw2, m

------------------------------------------------------------------------------
(* Nobody is told to reconnect *)

\* m is a message of s.
In(m, s) == \E i \in 1 .. Len(s) : s[i] = m

LEMMA InAppended ==
  ASSUME NEW S, NEW s \in Seq(S), NEW m \in S, NEW i \in 1 .. Len(Append(s, m))
  PROVE  In(Append(s, m)[i], s) \/ Append(s, m)[i] = m
  BY Sent, LenProperties DEF In

LEMMA InTaken ==
  ASSUME NEW S, NEW s \in Seq(S), s # <<>>
  PROVE  /\ In(Head(s), s)
         /\ \A i \in 1 .. Len(Tail(s)) : In(Tail(s)[i], s)
  BY Taken, LenProperties DEF In

LEMMA InPosted ==
  ASSUME TInv, NEW out \in [Replicas -> Seq(DownMessages)], Post(out),
         NEW q \in Replicas, NEW i \in 1 .. Len(down'[q])
  PROVE  In(down'[q][i], down[q]) \/ In(down'[q][i], out[q])
<1>1. down[q] \in Seq(DownMessages) /\ out[q] \in Seq(DownMessages)
  BY DEF TInv, TypeOK
<1>2. CASE down'[q] = down[q]
  BY <1>2 DEF In
<1>3. CASE down'[q] = down[q] \o out[q]
  <2> DEFINE d == down[q]
             o == out[q]
             e == d \o o
  <2>1. /\ Len(e) = Len(d) + Len(o) /\ Len(d) \in Nat /\ Len(o) \in Nat
        /\ \A j \in 1 .. Len(d) + Len(o) :
             e[j] = IF j <= Len(d) THEN d[j] ELSE o[j - Len(d)]
    BY <1>1, ConcatProperties, LenProperties
  <2>2. down'[q][i] = e[i] /\ i \in 1 .. Len(e)
    BY <1>3
  <2> HIDE DEF d, o, e
  <2>3. CASE i <= Len(d)
    BY <2>1, <2>2, <2>3 DEF In, d
  <2>4. CASE ~(i <= Len(d))
    <3>1. i - Len(d) \in 1 .. Len(o) /\ e[i] = o[i - Len(d)]
      BY <2>1, <2>2, <2>4
    <3> QED
      BY <2>2, <3>1 DEF In, o
  <2> QED
    BY <2>3, <2>4
<1> QED
  BY <1>2, <1>3 DEF Post

\* What an applied write sends to a replica.
LEMMA InWriteOut ==
  ASSUME TInv, NEW w \in WriteMessages, NEW q \in Replicas,
         NEW m, In(m, WriteOut(w)[q])
  PROVE  \/ q = w.sid[1] /\ m = WriteAck(w, TRUE)
         \/ m = Replicated(w) /\ \E x \in sessions : x[1] = q /\ x # w.sid
<1> DEFINE accepted == WriteAck(w, TRUE)
           others == {x \in sessions : x[1] = q /\ x # w.sid}
           ack == IF q = w.sid[1] THEN <<accepted>> ELSE <<>>
           copies == [i \in 1 .. Cardinality(others) |-> Replicated(w)]
<1>1. WriteOut(w)[q] = ack \o copies
  BY DEF WriteOut, Replicated
<1>2. accepted \in DownMessages
  <2>1. [then |-> "write", req |-> w.val] \in Awaits
    BY BoundsAssumption DEF WriteMessages, Awaits, Values
  <2> QED
    BY <2>1, Built DEF WriteAck
<1>3. Replicated(w) \in DownMessages
  BY Built DEF Replicated, WriteMessages
<1>4. Cardinality(others) \in Nat /\ (Cardinality(others) = 0 <=> others = {})
  <2>1. others \subseteq sessions
    OBVIOUS
  <2> HIDE DEF others
  <2> QED
    BY <2>1, FS_Subset, FS_CardinalityType, FS_EmptySet DEF TInv
<1> HIDE DEF accepted, others
<1>5. /\ ack \in Seq(DownMessages) /\ Len(ack) \in Nat
      /\ \A i \in 1 .. Len(ack) : q = w.sid[1] /\ ack[i] = accepted
  <2>1. /\ <<accepted>> \in Seq(DownMessages) /\ Len(<<accepted>>) = 1
        /\ <<accepted>>[1] = accepted
        /\ <<>> \in Seq(DownMessages) /\ Len(<<>>) = 0
    BY <1>2, Single
  <2>2. CASE q = w.sid[1]
    BY <2>1, <2>2
  <2>3. CASE q # w.sid[1]
    <3>1. ack = <<>>
      BY <2>3
    <3> HIDE DEF ack
    <3> QED
      BY <2>1, <3>1
  <2> QED
    BY <2>2, <2>3
<1>6. /\ copies \in Seq(DownMessages) /\ Len(copies) = Cardinality(others)
      /\ \A i \in 1 .. Len(copies) : copies[i] = Replicated(w)
  BY <1>3, <1>4, Repeated
<1> HIDE DEF ack, copies
<1>7. /\ Len(ack \o copies) = Len(ack) + Len(copies)
      /\ \A i \in 1 .. Len(ack) + Len(copies) :
           (ack \o copies)[i] = IF i <= Len(ack) THEN ack[i] ELSE copies[i - Len(ack)]
  BY <1>5, <1>6, ConcatProperties
<1>8. PICK i \in 1 .. Len(ack) + Len(copies) : (ack \o copies)[i] = m
  BY <1>1, <1>7 DEF In
<1>9. CASE i <= Len(ack)
  <2>1. i \in 1 .. Len(ack) /\ m = ack[i]
    BY <1>4, <1>5, <1>6, <1>7, <1>8, <1>9
  <2> QED
    BY <1>5, <2>1 DEF accepted
<1>10. CASE ~(i <= Len(ack))
  <2>1. i - Len(ack) \in 1 .. Len(copies) /\ m = copies[i - Len(ack)]
    BY <1>4, <1>5, <1>6, <1>7, <1>8, <1>10
  <2>2. others # {}
    BY <1>4, <1>6, <2>1
  <2> QED
    BY <1>6, <2>1, <2>2 DEF others
<1> QED
  BY <1>9, <1>10

\* What changes the channels and the queue, as far as Plain is concerned.
LEMMA PlainKeeps ==
  ASSUME Plain, TInv, writes' \in Nat, writes <= writes',
         \A i \in 1 .. Len(queue') :
           In(queue'[i], queue) \/ \E r \in Replicas : In(queue'[i], up[r]),
         \A q \in Replicas : \A i \in 1 .. Len(up'[q]) :
           In(up'[q][i], up[q]) \/ PlainUp(up'[q][i], writes'),
         \A q \in Replicas : \A i \in 1 .. Len(down'[q]) :
           In(down'[q][i], down[q]) \/ PlainDown(down'[q][i], writes')
  PROVE  Plain'
<1>1. writes \in Nat
  BY BoundsAssumption DEF TInv, TypeOK, Values
<1>2. \A r \in Replicas : up[r] \in Seq(UpMessages) /\ down[r] \in Seq(DownMessages)
  BY Typed
<1>3. ASSUME NEW m \in UpMessages, PlainUp(m, writes)
      PROVE  PlainUp(m, writes')
  <2>1. m.kind = "write" => m.val \in Nat
    BY UpKinds, BoundsAssumption DEF WriteMessages, Values
  <2> QED
    BY <1>1, <1>3, <2>1 DEF PlainUp
<1>4. ASSUME NEW m \in DownMessages, PlainDown(m, writes)
      PROVE  PlainDown(m, writes')
  <2>1. m.kind = "ack" => m.await.req \in Nat
    BY DownKinds DEF Awaits
  <2> QED
    BY <1>1, <1>4, <2>1 DEF PlainDown
<1>5. queue \in Seq(UpMessages)
  BY Built, SeqMonotonic DEF TInv, TypeOK
<1>6. ASSUME NEW i \in 1 .. Len(queue')
      PROVE  PlainUp(queue'[i], writes')
  BY <1>2, <1>3, <1>5, <1>6, ElementOfSeq DEF Plain, In
<1>7. ASSUME NEW q \in Replicas, NEW i \in 1 .. Len(up'[q])
      PROVE  PlainUp(up'[q][i], writes')
  BY <1>2, <1>3, ElementOfSeq DEF Plain, In
<1>8. ASSUME NEW q \in Replicas, NEW i \in 1 .. Len(down'[q])
      PROVE  PlainDown(down'[q][i], writes')
  BY <1>2, <1>4, ElementOfSeq DEF Plain, In
<1> QED
  BY <1>6, <1>7, <1>8 DEF Plain

\* What is in the channels after a message is sent, posted to one, or taken.
LEMMA InSent ==
  ASSUME TInv, NEW r \in Replicas, NEW m \in UpMessages, Send(r, m),
         NEW q \in Replicas, NEW i \in 1 .. Len(up'[q])
  PROVE  In(up'[q][i], up[q]) \/ up'[q][i] = m
<1>1. up[q] \in Seq(UpMessages)
  BY Typed
<1>2. CASE up'[q] = up[q]
  BY <1>2 DEF In
<1>3. CASE up'[q] = Append(up[q], m)
  BY <1>1, <1>3, InAppended
<1> QED
  BY <1>2, <1>3 DEF Send, TInv, TypeOK

LEMMA InOnly ==
  ASSUME TInv, NEW r \in Replicas, NEW m \in DownMessages, Post(Only(r, m)),
         NEW q \in Replicas, NEW i \in 1 .. Len(down'[q])
  PROVE  In(down'[q][i], down[q]) \/ down'[q][i] = m
<1>1. down[q] \in Seq(DownMessages)
  BY Typed
<1>2. CASE down'[q] = down[q]
  BY <1>2 DEF In
<1>3. CASE down'[q] = Append(down[q], m)
  BY <1>1, <1>3, InAppended
<1> QED
  BY <1>2, <1>3, OnlyPosted

LEMMA InArrived ==
  ASSUME TInv, NEW r \in Replicas, up[r] # <<>>,
         up' = [up EXCEPT ![r] = Tail(@)]
  PROVE  /\ In(Head(up[r]), up[r])
         /\ \A q \in Replicas : \A i \in 1 .. Len(up'[q]) : In(up'[q][i], up[q])
<1>1. up[r] \in Seq(UpMessages)
  BY Typed
<1>2. ASSUME NEW q \in Replicas, NEW i \in 1 .. Len(up'[q])
      PROVE  In(up'[q][i], up[q])
  <2>1. CASE q = r
    BY <1>1, <1>2, <2>1, InTaken DEF TInv, TypeOK
  <2>2. CASE q # r
    BY <1>2, <2>2 DEF In, TInv, TypeOK
  <2> QED
    BY <2>1, <2>2
<1> QED
  BY <1>1, <1>2, InTaken

LEMMA InPopped ==
  ASSUME TInv, NEW r \in Replicas, down[r] # <<>>, Pop(r)
  PROVE  /\ In(Head(down[r]), down[r])
         /\ \A q \in Replicas : \A i \in 1 .. Len(down'[q]) :
              In(down'[q][i], down[q])
<1>1. down[r] \in Seq(DownMessages)
  BY Typed
<1>2. ASSUME NEW q \in Replicas, NEW i \in 1 .. Len(down'[q])
      PROVE  In(down'[q][i], down[q])
  <2>1. CASE q = r
    BY <1>1, <1>2, <2>1, InTaken DEF TInv, TypeOK, Pop
  <2>2. CASE q # r
    BY <1>2, <2>2 DEF In, TInv, TypeOK, Pop
  <2> QED
    BY <2>1, <2>2
<1> QED
  BY <1>1, <1>2, InTaken

\* Nobody is told to reconnect.
LEMMA NoReconnects ==
  ASSUME TInv, Plain, MaxReconnects = 0
  PROVE  /\ ~ReconnectClients
         /\ \A r \in Replicas : ~ReceiveReconnect(r) /\ ~ReceiveReconnectAck(r)
<1>1. ~ReconnectClients
  BY DEF ReconnectClients, TInv, TypeOK
<1>2. ASSUME NEW r \in Replicas, down[r] # <<>>
      PROVE  PlainDown(Head(down[r]), writes)
  <2>1. 1 \in 1 .. Len(down[r]) /\ Head(down[r]) = down[r][1]
    BY <1>2, Typed, Taken, LenProperties
  <2> QED
    BY <2>1 DEF Plain
<1> QED
  BY <1>1, <1>2 DEF ReceiveReconnect, ReceiveReconnectAck, PlainDown

\* An applied write is acknowledged and copied.
LEMMA ApplyPlain ==
  ASSUME TInv, NEW w \in WriteMessages, w.val <= writes, ApplyWrite(w),
         NEW q \in Replicas, NEW i \in 1 .. Len(down'[q])
  PROVE  In(down'[q][i], down[q]) \/ PlainDown(down'[q][i], writes)
<1>1. WriteOut(w) \in [Replicas -> Seq(DownMessages)] /\ Post(WriteOut(w))
  BY ApplyWriteTypes, WriteOutTypes
<1>2. CASE In(down'[q][i], down[q])
  BY <1>2
<1>3. CASE In(down'[q][i], WriteOut(w)[q])
  <2>1. \/ down'[q][i] = WriteAck(w, TRUE)
        \/ down'[q][i] = Replicated(w)
    BY <1>3, InWriteOut
  <2> QED
    BY <2>1 DEF PlainDown, WriteAck, Replicated
<1> QED
  BY <1>1, <1>2, <1>3, InPosted

LEMMA StepPlain ==
  ASSUME TInv, TInv', SInv, Mine, Plain, MaxReconnects = 0, [Next]_vars
  PROVE  Plain'
<1>t. writes \in Nat /\ writes' \in Nat /\ TypeOK
  BY BoundsAssumption DEF TInv, TypeOK, Values
<1>r. writes <= writes
  BY <1>t
<1>u. \A q \in Replicas : \A i \in 1 .. Len(up[q]) : In(up[q][i], up[q])
  BY DEF In
<1>d. \A q \in Replicas : \A i \in 1 .. Len(down[q]) : In(down[q][i], down[q])
  BY DEF In
<1>q. \A i \in 1 .. Len(queue) : In(queue[i], queue)
  BY DEF In
<1>p. ASSUME NEW r \in Replicas, NEW m, In(m, up[r])
      PROVE  PlainUp(m, writes)
  BY <1>p DEF Plain, In
<1>1. ASSUME NEW r \in Replicas, Connect(r) \/ Disconnect(r)
      PROVE  Plain'
  <2>1. PICK m \in UpMessages : Send(r, m) /\ PlainUp(m, writes)
    <3>1. CASE Connect(r)
      <4> DEFINE a == [then |-> "connect", req |-> requests[r] + 1]
      <4>1. Send(r, ConnectMessage(a))
        BY <3>1 DEF Connect, Request
      <4>2. ConnectMessage(a) \in UpMessages
        BY <1>t, RequestTypes, Built
      <4>3. PlainUp(ConnectMessage(a), writes)
        BY DEF PlainUp, ConnectMessage
      <4> QED
        BY <4>1, <4>2, <4>3
    <3>2. CASE Disconnect(r)
      <4> DEFINE a == [then |-> "disconnect", req |-> requests[r] + 1]
      <4>1. Send(r, DisconnectMessage(state[r].sid, a)) /\ IsConnected(r)
        BY <3>2 DEF Disconnect, Request
      <4>2. DisconnectMessage(state[r].sid, a) \in UpMessages
        BY <1>t, <4>1, RequestTypes, Built, OwnSession
      <4>3. PlainUp(DisconnectMessage(state[r].sid, a), writes)
        BY DEF PlainUp, DisconnectMessage
      <4> QED
        BY <4>1, <4>2, <4>3
    <3> QED
      BY <1>1, <3>1, <3>2
  <2>2. UNCHANGED <<queue, down, writes>>
    BY <1>1 DEF Connect, Disconnect, dbVars
  <2>3. \A q \in Replicas : \A i \in 1 .. Len(up'[q]) :
          In(up'[q][i], up[q]) \/ PlainUp(up'[q][i], writes')
    BY <2>1, <2>2, InSent
  <2> QED
    BY <1>t, <1>r, <1>d, <1>q, <2>2, <2>3, PlainKeeps
<1>2. ASSUME NEW r \in Replicas, NEW k \in Keys, Write(r, k)
      PROVE  Plain'
  <2> DEFINE w == [kind |-> "write", sid |-> state[r].sid, key |-> k,
                   val |-> writes + 1]
  <2>1. /\ Send(r, w) /\ IsConnected(r) /\ writes' = writes + 1
        /\ writes < MaxWrites /\ UNCHANGED <<queue, down>>
    BY <1>2 DEF Write, dbVars
  <2>2. w \in UpMessages
    <3>1. writes + 1 \in Values
      BY <1>t, <2>1, BoundsAssumption DEF Values
    <3> QED
      BY <2>1, <3>1, OwnSession
  <2>3. PlainUp(w, writes')
    BY <1>t, <2>1 DEF PlainUp
  <2> HIDE DEF w
  <2>4. \A q \in Replicas : \A i \in 1 .. Len(up'[q]) :
          In(up'[q][i], up[q]) \/ PlainUp(up'[q][i], writes')
    BY <2>1, <2>2, <2>3, InSent
  <2>5. writes <= writes'
    BY <1>t, <2>1
  <2> QED
    BY <1>t, <1>d, <1>q, <2>1, <2>4, <2>5, PlainKeeps
<1>3. ASSUME NEW r \in Replicas, Receive(r)
      PROVE  Plain'
  <2>1. ReceiveAck(r) \/ ReceiveReplicated(r)
    BY <1>3, NoReconnects DEF Receive
  <2>2. down[r] # <<>> /\ Pop(r) /\ UNCHANGED <<queue, up, writes>>
    BY <2>1 DEF ReceiveAck, ReceiveReplicated, dbVars
  <2>3. \A q \in Replicas : \A i \in 1 .. Len(down'[q]) :
          In(down'[q][i], down[q])
    BY <2>2, InPopped
  <2> QED
    BY <1>t, <1>r, <1>u, <1>q, <2>2, <2>3, PlainKeeps
<1>4. ASSUME NEW r \in Replicas, DbConnect(r)
      PROVE  Plain'
  <2> DEFINE a == Head(up[r]).await
             sid == <<r, a.req>>
             m == [kind |-> "connected", await |-> a, sid |-> sid, root |-> root]
  <2>1. /\ up[r] # <<>> /\ up' = [up EXCEPT ![r] = Tail(@)] /\ Post(Only(r, m))
        /\ UNCHANGED <<queue, writes>>
    BY <1>4 DEF DbConnect, Arrives
  <2>2. m \in DownMessages
    <3>1. a \in Awaits
      BY <1>4, <1>t, ArrivesTypes, UpKinds DEF DbConnect
    <3>2. sid \in Sids
      BY <3>1 DEF Awaits, Sids
    <3> QED
      BY <1>t, <3>1, <3>2, Built DEF TypeOK
  <2>3. PlainDown(m, writes')
    BY DEF PlainDown
  <2> HIDE DEF m
  <2>4. \A q \in Replicas : \A i \in 1 .. Len(down'[q]) :
          In(down'[q][i], down[q]) \/ PlainDown(down'[q][i], writes')
    BY <2>1, <2>2, <2>3, InOnly
  <2>5. \A q \in Replicas : \A i \in 1 .. Len(up'[q]) : In(up'[q][i], up[q])
    BY <2>1, InArrived
  <2> QED
    BY <1>t, <1>r, <1>q, <2>1, <2>4, <2>5, PlainKeeps
<1>5. ASSUME NEW r \in Replicas, DbDisconnect(r)
      PROVE  Plain'
  <2> DEFINE h == Head(up[r])
             m == [kind |-> "ack", await |-> h.await, ok |-> h.sid \in sessions]
  <2>1. /\ up[r] # <<>> /\ up' = [up EXCEPT ![r] = Tail(@)] /\ Post(Only(r, m))
        /\ h.kind = "disconnect" /\ UNCHANGED <<queue, writes>>
    BY <1>5 DEF DbDisconnect, Arrives
  <2>2. m \in DownMessages
    <3>1. h.await \in Awaits
      BY <1>5, <1>t, ArrivesTypes, UpKinds DEF DbDisconnect
    <3> DEFINE ok == h.sid \in sessions
    <3>2. ok \in BOOLEAN
      OBVIOUS
    <3> HIDE DEF ok, h
    <3> QED
      BY <3>1, <3>2, Built DEF ok
  <2>3. \A q \in Replicas : \A i \in 1 .. Len(up'[q]) : In(up'[q][i], up[q])
    BY <2>1, InArrived
  <2>4. PlainDown(m, writes')
    <3>1. PlainUp(h, writes)
      BY <1>p, <2>1, InArrived
    <3>2. h.await.then \in {"disconnect", "rcDisconnect"}
      <4>1. up[r] \in Seq(UpMessages) /\ Own(r, Current(r), up[r], down[r])
        BY <1>t, Typed DEF SInv, SInvOf
      <4>2. 1 \in 1 .. Len(up[r]) /\ up[r][1] = h
        BY <2>1, <4>1, Taken, LenProperties
      <4> QED
        BY <2>1, <4>1, <4>2 DEF Own
    <3> QED
      BY <2>1, <3>1, <3>2 DEF PlainUp, PlainDown
  <2> HIDE DEF m
  <2>5. \A q \in Replicas : \A i \in 1 .. Len(down'[q]) :
          In(down'[q][i], down[q]) \/ PlainDown(down'[q][i], writes')
    BY <2>1, <2>2, <2>4, InOnly
  <2> QED
    BY <1>t, <1>r, <1>q, <2>1, <2>3, <2>5, PlainKeeps
<1>6. ASSUME NEW r \in Replicas, DbWrite(r)
      PROVE  Plain'
  <2> DEFINE w == Head(up[r])
             refused == WriteAck(w, FALSE)
  <2>1. /\ Arrives(r, "write") /\ writes' = writes
        /\ \/ Post(Only(r, refused)) /\ queue' = queue
           \/ queue' = Append(queue, w) /\ UNCHANGED down
           \/ ApplyWrite(w) /\ queue' = queue
    BY <1>6 DEF DbWrite
  <2>2. w \in WriteMessages /\ w.kind = "write"
    BY <1>t, <2>1, ArrivedWrite DEF WriteMessages
  <2>3. /\ In(w, up[r])
        /\ \A q \in Replicas : \A i \in 1 .. Len(up'[q]) : In(up'[q][i], up[q])
    BY <2>1, InArrived DEF Arrives
  <2>4. w.val <= writes
    <3>1. PlainUp(w, writes)
      BY <1>p, <2>3
    <3> QED
      BY <2>2, <3>1 DEF PlainUp
  <2>5. \A i \in 1 .. Len(queue') :
          In(queue'[i], queue) \/ \E q \in Replicas : In(queue'[i], up[q])
    <3>1. CASE queue' = queue
      BY <1>q, <3>1
    <3>2. CASE queue' = Append(queue, w)
      <4>1. queue \in Seq(WriteMessages)
        BY <1>t DEF TypeOK
      <4>2. \A i \in 1 .. Len(Append(queue, w)) :
              In(Append(queue, w)[i], queue) \/ Append(queue, w)[i] = w
        BY <2>2, <4>1, InAppended
      <4> QED
        BY <2>3, <3>2, <4>2
    <3> QED
      BY <2>1, <3>1, <3>2
  <2>6. \A q \in Replicas : \A i \in 1 .. Len(down'[q]) :
          In(down'[q][i], down[q]) \/ PlainDown(down'[q][i], writes')
    <3>1. CASE Post(Only(r, refused))
      <4>1. refused \in DownMessages
        <5>1. [then |-> "write", req |-> w.val] \in Awaits
          BY <2>2, BoundsAssumption DEF WriteMessages, Awaits, Values
        <5> QED
          BY <5>1, Built DEF WriteAck
      <4>2. PlainDown(refused, writes')
        BY <2>1, <2>4 DEF PlainDown, WriteAck
      <4> HIDE DEF refused
      <4> QED
        BY <3>1, <4>1, <4>2, InOnly
    <3>2. CASE down' = down
      BY <1>d, <3>2
    <3>3. CASE ApplyWrite(w)
      BY <2>1, <2>2, <2>4, <3>3, ApplyPlain
    <3> QED
      BY <2>1, <3>1, <3>2, <3>3
  <2> QED
    BY <1>t, <1>r, <2>1, <2>3, <2>5, <2>6, PlainKeeps
<1>7. CASE DbGrant
  <2>1. /\ queue \in Seq(WriteMessages) /\ queue # <<>>
        /\ ApplyWrite(Head(queue)) /\ queue' = Tail(queue)
        /\ UNCHANGED <<up, writes>>
    BY <1>7, <1>t DEF DbGrant, TypeOK
  <2>2. /\ Head(queue) \in WriteMessages /\ Head(queue) = queue[1]
        /\ 1 \in 1 .. Len(queue)
    BY <2>1, Taken, LenProperties
  <2>3. \A i \in 1 .. Len(queue') : In(queue'[i], queue)
    <3>1. \A i \in 1 .. Len(Tail(queue)) : In(Tail(queue)[i], queue)
      BY <2>1, InTaken
    <3> QED
      BY <2>1, <3>1
  <2>4. Head(queue).val <= writes
    BY <2>2 DEF Plain, PlainUp, WriteMessages
  <2>5. \A q \in Replicas : \A i \in 1 .. Len(down'[q]) :
          In(down'[q][i], down[q]) \/ PlainDown(down'[q][i], writes')
    BY <2>1, <2>2, <2>4, ApplyPlain
  <2> QED
    BY <1>t, <1>r, <1>u, <2>1, <2>3, <2>5, PlainKeeps
<1>8. ASSUME NEW r \in Replicas, Close(r)
      PROVE  Plain'
  <2>1. PICK n \in 0 .. Len(up[r]) : up' = [up EXCEPT ![r] = SubSeq(@, 1, n)]
    BY <1>8 DEF Close
  <2>2. down' = [down EXCEPT ![r] = <<>>] /\ UNCHANGED <<queue, writes>>
    BY <1>8 DEF Close, dbVars
  <2>3. ASSUME NEW q \in Replicas, NEW i \in 1 .. Len(up'[q])
        PROVE  In(up'[q][i], up[q])
    <3>1. CASE q = r
      <4>1. up'[q] = SubSeq(up[r], 1, n) /\ up[r] \in Seq(UpMessages)
        BY <1>t, <2>1, <3>1, Typed DEF TypeOK
      <4>2. Part(up'[q], up[r])
        BY <4>1, Parts
      <4> QED
        BY <2>3, <3>1, <4>2 DEF Part, In
    <3>2. CASE q # r
      BY <1>t, <1>u, <2>1, <2>3, <3>2 DEF TypeOK
    <3> QED
      BY <3>1, <3>2
  <2>4. ASSUME NEW q \in Replicas, NEW i \in 1 .. Len(down'[q])
        PROVE  In(down'[q][i], down[q])
    <3>1. q # r
      <4>1. q = r => down'[q] = <<>>
        BY <1>t, <2>2 DEF TypeOK
      <4>2. Len(<<>>) = 0
        OBVIOUS
      <4> QED
        BY <2>4, <4>1, <4>2
    <3> QED
      BY <1>t, <1>d, <2>2, <2>4, <3>1 DEF TypeOK
  <2> QED
    BY <1>t, <1>r, <1>q, <2>2, <2>3, <2>4, PlainKeeps
<1>9. CASE FlushTakes \/ FlushReturns \/ UNCHANGED vars
  <2>1. UNCHANGED <<queue, up, down, writes>>
    BY <1>9 DEF FlushTakes, FlushReturns, vars
  <2> QED
    BY <1>t, <1>r, <1>u, <1>d, <1>q, <2>1, PlainKeeps
<1> QED
  BY <1>1, <1>2, <1>3, <1>4, <1>5, <1>6, <1>7, <1>8, <1>9, NoReconnects
  DEF Next, DbHandle

------------------------------------------------------------------------------
(* What is on the way of a replica, step by step *)

\* While a write of the replica is on its way the database knows no session of
\* the replica but the one the write was sent in.
LEMMA OwnWriteSession ==
  ASSUME TInv, SInv, NEW r \in open,
         OnTheirWay(r, Current(r), queue, up[r], down[r], awaiting[r]),
         NEW w, Written(r, w), In(w, queue) \/ In(w, up[r])
  PROVE  \A x \in sessions : x[1] = r => x = w.sid
<1>1. NoneBegins(up[r], down[r])
  BY DEF OnTheirWay, NoneOf, In
<1>2. Agree(Current(r), up[r], down[r], awaiting[r], SessionsOf(r))
  BY DEF SInv, SInvOf, TInv, TypeOK
<1>3. CASE Current(r) = {}
  <2>1. SessionsOf(r) = {}
    BY <1>1, <1>2, <1>3 DEF Agree, Between, NoneBegins
  <2> QED
    BY <2>1 DEF SessionsOf
<1>4. CASE Current(r) # {}
  <2>1. Current(r) = {w.sid}
    BY <1>4 DEF OnTheirWay, OfSession, In
  <2>2. SessionsOf(r) \subseteq {w.sid}
    BY <1>2, <1>4, <2>1 DEF Agree, InSession
  <2> QED
    BY <2>2 DEF SessionsOf
<1> QED
  BY <1>3, <1>4

\* With none on the way there is nothing to say.
LEMMA NoneKeeps ==
  ASSUME NEW r, NEW qu, NEW u, NoneOf(r, qu), NoneOf(r, u)
  PROVE  \A cur, d, aw : OnTheirWay(r, cur, qu, u, d, aw)
BY DEF OnTheirWay, NoneOf, Apart, Clear, Pending, OfSession

\* What the database posts.
LEMMA PostKeeps ==
  ASSUME TInv, NEW out \in [Replicas -> Seq(DownMessages)], Post(out),
         NEW q \in Replicas, NEW cur, NEW qu, NEW u, NEW aw,
         OnTheirWay(q, cur, qu, u, down[q], aw),
         \A m : In(m, out[q]) =>
           /\ ~Begins(m)
           /\ \A v : Written(q, v) /\ (In(v, qu) \/ In(v, u)) => ~Acks(m, v.val)
  PROVE  OnTheirWay(q, cur, qu, u, down'[q], aw)
<1>1. down[q] \in Seq(DownMessages) /\ out[q] \in Seq(DownMessages)
  BY Typed
<1>2. \A i \in 1 .. Len(out[q]) :
        /\ ~Begins(out[q][i])
        /\ \A j \in 1 .. Len(qu) : Written(q, qu[j]) => ~Acks(out[q][i], qu[j].val)
        /\ \A j \in 1 .. Len(u) : Written(q, u[j]) => ~Acks(out[q][i], u[j].val)
  BY DEF In
<1>3. OnTheirWay(q, cur, qu, u, down[q] \o out[q], aw)
  BY <1>1, <1>2, PostsKeep
<1>4. down'[q] = down[q] \/ down'[q] = down[q] \o out[q]
  BY DEF Post
<1> QED
  BY <1>3, <1>4

\* ... to one replica.
LEMMA OnlyKeeps ==
  ASSUME TInv, NEW r \in Replicas, NEW m \in DownMessages, Post(Only(r, m)),
         NEW q \in Replicas, NEW cur, NEW qu, NEW u, NEW aw,
         OnTheirWay(q, cur, qu, u, down[q], aw), ~Begins(m),
         q = r =>
           \A v : Written(q, v) /\ (In(v, qu) \/ In(v, u)) => ~Acks(m, v.val)
  PROVE  OnTheirWay(q, cur, qu, u, down'[q], aw)
<1>1. Only(r, m) \in [Replicas -> Seq(DownMessages)]
  BY OnlyTypes
<1>2. ASSUME NEW x, In(x, Only(r, m)[q])
      PROVE  x = m /\ q = r
  <2>1. PICK i \in 1 .. Len(Only(r, m)[q]) : Only(r, m)[q][i] = x
    BY <1>2 DEF In
  <2>2. /\ Len(<<m>>) = 1 /\ <<m>>[1] = m /\ Len(<<>>) = 0
    OBVIOUS
  <2>3. q = r
    <3>1. q # r => Only(r, m)[q] = <<>>
      BY DEF Only
    <3> QED
      BY <2>1, <2>2, <3>1
  <2>4. Only(r, m)[q] = <<m>>
    BY <2>3 DEF Only
  <2> QED
    BY <2>1, <2>2, <2>3, <2>4
<1> DEFINE out == Only(r, m)
<1>3. /\ out \in [Replicas -> Seq(DownMessages)] /\ Post(out)
      /\ \A x : In(x, out[q]) =>
           /\ ~Begins(x)
           /\ \A v : Written(q, v) /\ (In(v, qu) \/ In(v, u)) => ~Acks(x, v.val)
  BY <1>1, <1>2
<1> HIDE DEF out
<1> QED
  BY <1>3, PostKeeps

\* ... when it applies a write.
LEMMA ApplyKeeps ==
  ASSUME TInv, NEW w \in WriteMessages, ApplyWrite(w),
         NEW q \in Replicas, NEW cur, NEW qu, NEW u, NEW aw,
         OnTheirWay(q, cur, qu, u, down[q], aw),
         w.sid[1] = q =>
           \A v : Written(q, v) /\ (In(v, qu) \/ In(v, u)) => v.val # w.val
  PROVE  OnTheirWay(q, cur, qu, u, down'[q], aw)
<1>1. WriteOut(w) \in [Replicas -> Seq(DownMessages)] /\ Post(WriteOut(w))
  BY ApplyWriteTypes, WriteOutTypes
<1>2. ASSUME NEW m, In(m, WriteOut(w)[q])
      PROVE  /\ ~Begins(m)
             /\ \A v : Written(q, v) /\ (In(v, qu) \/ In(v, u)) => ~Acks(m, v.val)
  <2>1. CASE q = w.sid[1] /\ m = WriteAck(w, TRUE)
    <3>1. ~Begins(m) /\ \A x : Acks(m, x) => x = w.val
      BY <2>1 DEF WriteAck, Begins, Acks
    <3> QED
      BY <2>1, <3>1
  <2>2. CASE m = Replicated(w)
    BY <2>2 DEF Replicated, Begins, Acks
  <2> QED
    BY <1>2, <2>1, <2>2, InWriteOut
<1> QED
  BY <1>1, <1>2, PostKeeps

LEMMA ApplyEchoes ==
  ASSUME TInv, SInv, NEW q \in open,
         OnTheirWay(q, Current(q), queue, up[q], down[q], awaiting[q]),
         NEW w \in WriteMessages, ApplyWrite(w), <<w.sid[1], w.key>> \in Writers,
         In(w, queue) \/ In(w, up[w.sid[1]]), NoEcho(q, down[q])
  PROVE  NoEcho(q, down'[q])
<1>1. /\ WriteOut(w) \in [Replicas -> Seq(DownMessages)] /\ Post(WriteOut(w))
      /\ q \in Replicas
  BY ApplyWriteTypes, WriteOutTypes DEF TInv, TypeOK
<1>2. ASSUME NEW i \in 1 .. Len(down'[q]), down'[q][i].kind = "replicated",
             WritersOf(down'[q][i].key) = {q}
      PROVE  FALSE
  <2>1. ~In(down'[q][i], down[q])
    BY <1>2 DEF NoEcho, In
  <2>2. In(down'[q][i], WriteOut(w)[q])
    BY <1>1, <2>1, InPosted
  <2>3. down'[q][i] # WriteAck(w, TRUE)
    BY <1>2 DEF WriteAck
  <2>4. /\ down'[q][i] = Replicated(w)
        /\ \E x \in sessions : x[1] = q /\ x # w.sid
    BY <1>1, <2>2, <2>3, InWriteOut
  <2>5. w.sid[1] = q
    <3>1. WritersOf(w.key) = {q} /\ w.sid[1] \in Replicas
      BY <1>2, <2>4 DEF Replicated, WriteMessages, Sids
    <3> QED
      BY <3>1 DEF WritersOf
  <2>6. Written(q, w)
    BY <2>5 DEF Written, WriteMessages
  <2> QED
    BY <2>4, <2>5, <2>6, OwnWriteSession
<1> QED
  BY <1>2 DEF NoEcho

\* A write that is taken from the channel, or from the queue, was the only one of
\* its number.
LEMMA TakenApart ==
  ASSUME NEW r, NEW cur, NEW aw, NEW d, NEW qu \in Seq(UpMessages),
         NEW u \in Seq(UpMessages), OnTheirWay(r, cur, qu, u, d, aw),
         NEW v, Written(r, v)
  PROVE  /\ u # <<>> /\ Written(r, Head(u)) /\ (In(v, qu) \/ In(v, Tail(u)))
              => v.val # Head(u).val
         /\ qu # <<>> /\ Written(r, Head(qu)) /\ (In(v, Tail(qu)) \/ In(v, u))
              => v.val # Head(qu).val
<1>1. Apart(r, u) /\ Apart(r, qu) /\ Clear(r, qu, u)
  BY DEF OnTheirWay
<1>2. ASSUME NEW s \in Seq(UpMessages), s # <<>>
      PROVE  /\ 1 \in 1 .. Len(s) /\ Head(s) = s[1]
             /\ \A i \in 1 .. Len(Tail(s)) :
                  i + 1 \in 1 .. Len(s) /\ i + 1 # 1 /\ Tail(s)[i] = s[i + 1]
  BY <1>2, Taken, LenProperties
<1>3. ASSUME u # <<>>, Written(r, Head(u)), In(v, qu) \/ In(v, Tail(u))
      PROVE  v.val # Head(u).val
  <2>1. CASE In(v, qu)
    BY <1>1, <1>2, <1>3, <2>1 DEF In, Clear
  <2>2. CASE In(v, Tail(u))
    <3>1. PICK i \in 1 .. Len(Tail(u)) : Tail(u)[i] = v
      BY <2>2 DEF In
    <3> QED
      BY <1>1, <1>2, <1>3, <3>1 DEF Apart
  <2> QED
    BY <1>3, <2>1, <2>2
<1>4. ASSUME qu # <<>>, Written(r, Head(qu)), In(v, Tail(qu)) \/ In(v, u)
      PROVE  v.val # Head(qu).val
  <2>1. CASE In(v, u)
    BY <1>1, <1>2, <1>4, <2>1 DEF In, Clear
  <2>2. CASE In(v, Tail(qu))
    <3>1. PICK i \in 1 .. Len(Tail(qu)) : Tail(qu)[i] = v
      BY <2>2 DEF In
    <3> QED
      BY <1>1, <1>2, <1>4, <3>1 DEF Apart
  <2> QED
    BY <1>4, <2>1, <2>2
<1> QED
  BY <1>3, <1>4

LEMMA NoEchoKept ==
  ASSUME NEW q, NEW d, NEW e, NoEcho(q, d),
         \A i \in 1 .. Len(e) : In(e[i], d) \/ e[i].kind # "replicated"
  PROVE  NoEcho(q, e)
BY DEF NoEcho, In

\* The session of a replica, by what its state becomes.
LEMMA CurrentAfter ==
  ASSUME TInv, NEW r \in Replicas, NEW m \in DownMessages,
         state' = [state EXCEPT ![r] = Deliver(@, m)], NEW q \in Replicas
  PROVE  /\ q # r => Current(q)' = Current(q)
         /\ Begins(m) \/ Current(q)' = Current(q) \/ Current(q)' = {}
         /\ m.kind = "replicated" => Current(q)' = Current(q)
<1>1. state \in [Replicas -> States] /\ state[r] \in States
  BY DEF TInv, TypeOK, States
<1>2. CASE q # r
  <2>1. state'[q] = state[q]
    BY <1>1, <1>2
  <2> QED
    BY <1>2, <2>1 DEF Current, IsConnected
<1>3. CASE q = r
  <2>1. state'[q] = Deliver(state[q], m)
    BY <1>1, <1>3
  <2>2. CASE m.kind = "connected"
    BY <1>3, <2>2 DEF Begins
  <2>3. CASE m.kind = "ack"
    <3>1. Deliver(state[q], m) = Disconnected \/ Deliver(state[q], m) = state[q]
      BY <2>3 DEF Deliver
    <3> QED
      BY <1>3, <2>1, <2>3, <3>1 DEF Current, IsConnected, Disconnected
  <2>4. CASE m.kind = "replicated"
    <3> DEFINE t == [state[q] EXCEPT !.root[m.key] = m.val]
    <3>1. state[q].kind # "connected" => state'[q] = state[q]
      BY <2>1, <2>4 DEF Deliver
    <3>2. state[q].kind = "connected" => state'[q] = t
      BY <2>1, <2>4 DEF Deliver
    <3>3. ASSUME state[q].kind = "connected"
          PROVE  t.kind = "connected" /\ t.sid = state[q].sid
      <4>1. state[q] \in [kind : {"connected"}, sid : Sids, root : Roots]
        BY <1>1, <1>3, <3>3 DEF States, Disconnected
      <4> QED
        BY <4>1
    <3> HIDE DEF t
    <3> QED
      BY <1>3, <2>4, <3>1, <3>2, <3>3 DEF Current, IsConnected
  <2>5. CASE m.kind = "reconnect"
    <3>1. Deliver(state[q], m) = state[q]
      BY <2>5 DEF Deliver
    <3> QED
      BY <1>3, <2>1, <2>5, <3>1 DEF Current, IsConnected
  <2> QED
    BY <2>2, <2>3, <2>4, <2>5, DownKinds
<1> QED
  BY <1>2, <1>3

\* Every step but a write applied keeps to the path of an open replica.
LEMMA StepPath ==
  ASSUME FInv, TInv', Plain, Plain', MaxReconnects = 0, [Next]_vars,
         NEW q \in open', q \in open, Path(q), NoEcho(q, down[q])
  PROVE  Path(q)' /\ NoEcho(q, down'[q])
<1> USE DEF FInv
<1> DEFINE cur == Current(q)
           u == up[q]
           d == down[q]
           aw == awaiting[q]
<1>t. /\ q \in Replicas /\ TypeOK /\ u \in Seq(UpMessages)
      /\ d \in Seq(DownMessages) /\ queue \in Seq(UpMessages)
      /\ queue \in Seq(WriteMessages)
      /\ Own(q, cur, u, d) /\ Agree(cur, u, d, aw, SessionsOf(q))
  BY Built, SeqMonotonic, Typed DEF TInv, TypeOK, SInv, SInvOf
<1>w. OnTheirWay(q, cur, queue, u, d, aw)
  BY DEF Path
<1>o. Part(queue, queue) /\ Part(u, u) /\ Part(d, d)
  BY <1>t, Parts
<1>e. down'[q] = down[q] => NoEcho(q, down'[q])
  OBVIOUS
<1>z. ASSUME OnTheirWay(q, Current(q)', queue', up'[q], down'[q], awaiting'[q])
      PROVE  Path(q)'
  BY <1>z DEF Path
<1>c. state'[q] = state[q] => Current(q)' = cur
  BY DEF Current, IsConnected
<1>k. ASSUME UNCHANGED queue, up'[q] = u, down'[q] = d, awaiting'[q] = aw,
             Current(q)' = cur
      PROVE  Path(q)' /\ NoEcho(q, down'[q])
  BY <1>k, <1>e, <1>w, <1>z
<1> HIDE DEF cur, u, d, aw
<1>1. ASSUME NEW r \in Replicas, Connect(r) \/ Disconnect(r)
      PROVE  Path(q)' /\ NoEcho(q, down'[q])
  <2>1. UNCHANGED <<queue, down, state, open>>
    BY <1>1 DEF Connect, Disconnect, dbVars
  <2>2. PICK m \in UpMessages, a \in Awaits :
          /\ Send(r, m) /\ m.kind # "write"
          /\ m.kind = "connect" => awaiting[r] = {}
          /\ awaiting' = [awaiting EXCEPT ![r] = @ \cup {a}]
    <3>1. CASE Connect(r)
      <4> DEFINE a == [then |-> "connect", req |-> requests[r] + 1]
      <4>1. /\ Send(r, ConnectMessage(a)) /\ awaiting[r] = {}
            /\ awaiting' = [awaiting EXCEPT ![r] = @ \cup {a}]
        BY <3>1 DEF Connect, Request
      <4>2. /\ ConnectMessage(a) \in UpMessages /\ ConnectMessage(a).kind # "write"
            /\ a \in Awaits
        BY <1>t, RequestTypes, Built DEF ConnectMessage
      <4> QED
        BY <4>1, <4>2
    <3>2. CASE Disconnect(r)
      <4> DEFINE a == [then |-> "disconnect", req |-> requests[r] + 1]
      <4>1. /\ Send(r, DisconnectMessage(state[r].sid, a)) /\ IsConnected(r)
            /\ awaiting' = [awaiting EXCEPT ![r] = @ \cup {a}]
        BY <3>2 DEF Disconnect, Request
      <4>2. DisconnectMessage(state[r].sid, a) \in UpMessages /\ a \in Awaits
        BY <1>t, <4>1, RequestTypes, Built, OwnSession
      <4>3. DisconnectMessage(state[r].sid, a).kind = "disconnect"
        BY DEF DisconnectMessage
      <4> QED
        BY <4>1, <4>2, <4>3
    <3> QED
      BY <1>1, <3>1, <3>2
  <2>3. CASE r # q
    <3>1. up'[q] = u /\ awaiting'[q] = aw
      BY <1>t, <2>2, <2>3 DEF Send, TypeOK, u, aw
    <3> QED
      BY <1>k, <1>c, <2>1, <3>1 DEF d
  <2>4. CASE r = q
    <3>1. up'[q] = Append(u, m) /\ awaiting'[q] = aw \cup {a}
      BY <1>t, <2>2, <2>4 DEF Send, TypeOK, u, aw
    <3>2. m.kind = "connect" => aw = {}
      BY <2>2, <2>4 DEF aw
    <3>3. OnTheirWay(q, cur, queue, Append(u, m), d, aw \cup {a})
      BY <1>t, <1>w, <2>2, <3>2, SendKeeps
    <3> QED
      BY <1>c, <1>e, <1>z, <2>1, <3>1, <3>3 DEF d
  <2> QED
    BY <2>3, <2>4
<1>2. ASSUME NEW r \in Replicas, NEW k \in Keys, Write(r, k)
      PROVE  Path(q)' /\ NoEcho(q, down'[q])
  <2> DEFINE w == [kind |-> "write", sid |-> state[r].sid, key |-> k,
                   val |-> writes + 1]
             s == [state[r] EXCEPT !.root[k] = writes + 1]
  <2>1. /\ Send(r, w) /\ IsConnected(r) /\ writes < MaxWrites
        /\ UNCHANGED <<queue, down, open>>
        /\ awaiting' = [awaiting EXCEPT ![r] = @ \cup {WriteAwait(w)}]
        /\ state' = [state EXCEPT ![r] = s]
    BY <1>2 DEF Write, dbVars, WriteAwait
  <2>2. CASE r # q
    <3>1. up'[q] = u /\ awaiting'[q] = aw /\ state'[q] = state[q]
      BY <1>t, <2>1, <2>2 DEF Send, TypeOK, u, aw
    <3> QED
      BY <1>k, <1>c, <2>1, <3>1 DEF d
  <2>3. CASE r = q
    <3>1. up'[q] = Append(u, w) /\ awaiting'[q] = aw \cup {WriteAwait(w)}
      BY <1>t, <2>1, <2>3 DEF Send, TypeOK, u, aw
    <3>2. /\ w \in UpMessages /\ Written(q, w) /\ writes \in Nat
          /\ w.val = writes + 1 /\ cur = {w.sid}
      <4>1. writes \in Nat /\ writes + 1 \in Values
        BY <1>t, <2>1, BoundsAssumption DEF TypeOK, Values
      <4>2. w \in UpMessages /\ w.sid[1] = q
        BY <2>1, <2>3, <4>1, OwnSession
      <4> QED
        BY <2>1, <2>3, <4>1, <4>2 DEF Written, Current, cur
    <3>3. Current(q)' = cur
      <4>1. state[r] \in [kind : {"connected"}, sid : Sids, root : Roots]
        BY <1>t, <2>1 DEF TypeOK, IsConnected, Disconnected
      <4>2. s.kind = "connected" /\ s.sid = state[r].sid
        BY <4>1
      <4> HIDE DEF s
      <4>3. state'[q] = s
        BY <1>t, <2>1, <2>3 DEF TypeOK
      <4> QED
        BY <2>1, <2>3, <4>2, <4>3 DEF Current, IsConnected, cur
    <3> HIDE DEF w, s
    <3>4. NoneBegins(u, d)
      BY <1>t, <3>2 DEF Agree, InSession, NoneBegins
    <3>5. ASSUME NEW m \in UpMessages, PlainUp(m, writes), Written(q, m)
          PROVE  m.val # w.val
      <4>1. m.val \in Nat /\ m.val <= writes
        BY <3>5, UpKinds, BoundsAssumption
        DEF Written, PlainUp, WriteMessages, Values
      <4> QED
        BY <3>2, <4>1
    <3>6. /\ \A i \in 1 .. Len(queue) : Written(q, queue[i]) => queue[i].val # w.val
          /\ \A i \in 1 .. Len(u) : Written(q, u[i]) => u[i].val # w.val
      <4>1. /\ \A i \in 1 .. Len(queue) :
                 queue[i] \in UpMessages /\ PlainUp(queue[i], writes)
            /\ \A i \in 1 .. Len(u) : u[i] \in UpMessages /\ PlainUp(u[i], writes)
        BY <1>t, ElementOfSeq DEF Plain, u
      <4> QED
        BY <3>5, <4>1
    <3>7. \A i \in 1 .. Len(d) : ~Acks(d[i], w.val)
      <4>1. ASSUME NEW i \in 1 .. Len(d), Acks(d[i], w.val)
            PROVE  FALSE
        <5>1. PlainDown(d[i], writes)
          BY <1>t DEF Plain, d
        <5>2. w.val <= writes
          BY <4>1, <5>1 DEF PlainDown, Acks
        <5> QED
          BY <3>2, <5>2
      <4> QED
        BY <4>1
    <3>8. OnTheirWay(q, cur, queue, Append(u, w), d, aw \cup {WriteAwait(w)})
      BY <1>t, <1>w, <3>2, <3>4, <3>6, <3>7, WriteKeeps
    <3> QED
      BY <1>e, <1>z, <2>1, <3>1, <3>3, <3>8 DEF d
  <2> QED
    BY <2>2, <2>3
<1>3. ASSUME NEW r \in Replicas, Receive(r)
      PROVE  Path(q)' /\ NoEcho(q, down'[q])
  <2> DEFINE m == Head(down[r])
  <2>1. ReceiveAck(r) \/ ReceiveReplicated(r)
    BY <1>3, NoReconnects DEF Receive
  <2>2. /\ down[r] # <<>> /\ Pop(r) /\ UNCHANGED <<queue, up, open>>
        /\ state' = [state EXCEPT ![r] = Deliver(@, m)]
        /\ \/ m.kind = "replicated" /\ awaiting' = awaiting
           \/ /\ m.kind \in {"ack", "connected"}
              /\ awaiting' = [awaiting EXCEPT ![r] = @ \ {m.await}]
    BY <2>1 DEF ReceiveAck, ReceiveReplicated, dbVars
  <2>3. m \in DownMessages
    BY <1>t, <2>2, PopTypes
  <2>4. /\ q # r => Current(q)' = cur
        /\ Begins(m) \/ Current(q)' = cur \/ Current(q)' = {}
        /\ m.kind = "replicated" => Current(q)' = cur
    BY <1>t, <2>2, <2>3, CurrentAfter DEF cur
  <2>5. NoEcho(q, down'[q])
    BY <1>t, <2>2, InPopped, NoEchoKept
  <2>6. CASE r # q
    <3>1. up'[q] = u /\ awaiting'[q] = aw /\ down'[q] = d
      BY <1>t, <2>2, <2>6 DEF Pop, TypeOK, u, aw, d
    <3> QED
      BY <1>k, <2>2, <2>4, <2>6, <3>1
  <2>7. CASE r = q
    <3>1. up'[q] = u /\ down'[q] = Tail(d) /\ d # <<>> /\ m = Head(d)
      BY <1>t, <2>2, <2>7 DEF Pop, TypeOK, u, d
    <3>2. CASE m.kind = "replicated" /\ awaiting' = awaiting
      <4>1. Part(Tail(d), d) /\ aw \subseteq aw
        BY <1>t, <3>1, Parts
      <4>2. OnTheirWay(q, cur, queue, u, Tail(d), aw)
        BY <1>o, <1>w, <4>1, PartsKeep
      <4> QED
        BY <1>z, <2>2, <2>4, <2>5, <3>1, <3>2, <4>2 DEF aw
    <3>3. CASE /\ m.kind \in {"ack", "connected"}
               /\ awaiting' = [awaiting EXCEPT ![r] = @ \ {m.await}]
      <4>1. awaiting'[q] = aw \ {m.await}
        BY <1>t, <2>7, <3>3 DEF TypeOK, aw
      <4>2. Begins(m) => m.await.then # "write"
        <5>1. 1 \in 1 .. Len(d) /\ d[1] = m
          BY <1>t, <3>1, Taken, LenProperties
        <5> QED
          BY <1>t, <5>1 DEF Own
      <4>3. OnTheirWay(q, Current(q)', queue, u, Tail(d), aw \ {m.await})
        <5> DEFINE c == Current(q)'
        <5>1. Begins(m) \/ c = cur \/ c = {}
          BY <2>4
        <5> HIDE DEF c, m
        <5>2. m = Head(d)
          BY <3>1
        <5>3. OnTheirWay(q, c, queue, u, Tail(d), aw \ {m.await})
          BY <1>t, <1>w, <3>1, <3>3, <4>2, <5>1, <5>2, ReceiptKeeps
        <5> QED
          BY <5>3 DEF c, m
      <4> QED
        BY <1>z, <2>2, <2>5, <3>1, <4>1, <4>3
    <3> QED
      BY <2>2, <3>2, <3>3
  <2> QED
    BY <2>6, <2>7
<1>4. ASSUME NEW r \in Replicas, DbConnect(r)
      PROVE  Path(q)' /\ NoEcho(q, down'[q])
  <2> DEFINE a == Head(up[r]).await
             sid == <<r, a.req>>
             m == [kind |-> "connected", await |-> a, sid |-> sid, root |-> root]
  <2>1. /\ up[r] # <<>> /\ up' = [up EXCEPT ![r] = Tail(@)] /\ Post(Only(r, m))
        /\ Head(up[r]).kind = "connect"
        /\ UNCHANGED <<queue, state, awaiting, open>>
    BY <1>4 DEF DbConnect, Arrives
  <2>2. m \in DownMessages
    <3>1. a \in Awaits
      BY <1>4, <1>t, ArrivesTypes, UpKinds DEF DbConnect
    <3>2. sid \in Sids
      BY <3>1 DEF Awaits, Sids
    <3> QED
      BY <1>t, <3>1, <3>2, Built DEF TypeOK
  <2>3. m.kind # "replicated"
    OBVIOUS
  <2> HIDE DEF m
  <2>4. NoEcho(q, down'[q])
    <3>1. \A i \in 1 .. Len(down'[q]) :
            In(down'[q][i], down[q]) \/ down'[q][i].kind # "replicated"
      BY <1>t, <2>1, <2>2, <2>3, InOnly
    <3> QED
      BY <3>1, NoEchoKept
  <2>5. CASE r # q
    <3>1. up'[q] = u /\ down'[q] = d
      BY <1>t, <2>1, <2>2, <2>5, OnlyPosted DEF TypeOK, u, d
    <3> QED
      BY <1>k, <1>c, <2>1, <3>1 DEF aw
  <2>6. CASE r = q
    <3>1. up'[q] = Tail(u) /\ u # <<>> /\ Head(u).kind = "connect"
      BY <1>t, <2>1, <2>6 DEF TypeOK, u
    <3>2. 1 \in 1 .. Len(u) /\ u[1] = Head(u)
      BY <1>t, <3>1, Taken, LenProperties
    <3>3. NoneOf(q, queue) /\ NoneOf(q, u)
      BY <1>w, <3>1, <3>2 DEF OnTheirWay, NoneBegins
    <3>4. NoneOf(q, Tail(u))
      BY ZenonT(60), <1>t, <3>1, <3>3, Parts DEF Part, NoneOf
    <3> QED
      BY <1>z, <2>1, <2>4, <3>1, <3>3, <3>4, NoneKeeps
  <2> QED
    BY <2>5, <2>6
<1>5. ASSUME NEW r \in Replicas, DbDisconnect(r)
      PROVE  Path(q)' /\ NoEcho(q, down'[q])
  <2> DEFINE h == Head(up[r])
             m == [kind |-> "ack", await |-> h.await, ok |-> h.sid \in sessions]
  <2>1. /\ up[r] # <<>> /\ up' = [up EXCEPT ![r] = Tail(@)] /\ Post(Only(r, m))
        /\ h.kind = "disconnect"
        /\ UNCHANGED <<queue, state, awaiting, open>>
    BY <1>5 DEF DbDisconnect, Arrives
  <2>2. m \in DownMessages
    <3>1. h.await \in Awaits
      BY <1>5, <1>t, ArrivesTypes, UpKinds DEF DbDisconnect
    <3> DEFINE ok == h.sid \in sessions
    <3>2. ok \in BOOLEAN
      OBVIOUS
    <3> HIDE DEF ok, h
    <3> QED
      BY <3>1, <3>2, Built DEF ok
  <2>3. /\ m.kind = "ack" /\ m.await = h.await /\ ~Begins(m)
    BY DEF Begins
  <2> HIDE DEF m
  <2>4. NoEcho(q, down'[q])
    <3>1. \A i \in 1 .. Len(down'[q]) :
            In(down'[q][i], down[q]) \/ down'[q][i].kind # "replicated"
      BY <1>t, <2>1, <2>2, <2>3, InOnly
    <3> QED
      BY <3>1, NoEchoKept
  <2>5. CASE r # q
    <3>1. up'[q] = u /\ down'[q] = d
      BY <1>t, <2>1, <2>2, <2>5, OnlyPosted DEF TypeOK, u, d
    <3> QED
      BY <1>k, <1>c, <2>1, <3>1 DEF aw
  <2>6. CASE r = q
    <3>1. up'[q] = Tail(u) /\ u # <<>> /\ h = Head(u)
      BY <1>t, <2>1, <2>6 DEF TypeOK, u
    <3>2. 1 \in 1 .. Len(u) /\ u[1] = Head(u)
      BY <1>t, <3>1, Taken, LenProperties
    <3>3. m.await.then # "write"
      BY <1>t, <2>1, <2>3, <3>1, <3>2 DEF Own
    <3>4. OnTheirWay(q, cur, queue, Tail(u), d, aw)
      <4>1. Part(Tail(u), u) /\ aw \subseteq aw
        BY <1>t, <3>1, Parts
      <4> QED
        BY <1>o, <1>w, <4>1, PartsKeep
    <3>5. \A v : ~Acks(m, v)
      BY <3>3 DEF Acks
    <3>6. OnTheirWay(q, cur, queue, Tail(u), down'[q], aw)
      BY <1>t, <2>1, <2>2, <2>3, <3>4, <3>5, OnlyKeeps DEF d
    <3> QED
      BY <1>c, <1>z, <2>1, <2>4, <3>1, <3>6 DEF aw
  <2> QED
    BY <2>5, <2>6
<1>6. ASSUME NEW r \in Replicas, DbWrite(r)
      PROVE  Path(q)' /\ NoEcho(q, down'[q])
  <2> DEFINE w == Head(up[r])
             refused == WriteAck(w, FALSE)
  <2>1. /\ Arrives(r, "write") /\ UNCHANGED <<state, awaiting, open>>
        /\ \/ Post(Only(r, refused)) /\ queue' = queue
           \/ queue' = Append(queue, w) /\ UNCHANGED down
           \/ ApplyWrite(w) /\ queue' = queue
    BY <1>6 DEF DbWrite
  <2>2. /\ w \in WriteMessages /\ w \in UpMessages /\ w.sid[1] = r
        /\ <<w.sid[1], w.key>> \in Writers
        /\ up[r] # <<>> /\ up' = [up EXCEPT ![r] = Tail(@)]
        /\ Written(q, w) <=> r = q
    BY <1>t, <2>1, ArrivedWrite, Built DEF Arrives, Written, WriteMessages
  <2>3. /\ refused \in DownMessages /\ ~Begins(refused)
        /\ refused.kind # "replicated" /\ \A v : Acks(refused, v) => v = w.val
    <3>1. [then |-> "write", req |-> w.val] \in Awaits
      BY <2>2, BoundsAssumption DEF WriteMessages, Awaits, Values
    <3> QED
      BY <3>1, Built DEF WriteAck, Begins, Acks
  <2>4. In(w, up[r])
    BY <2>2, InArrived
  <2> HIDE DEF w, refused
  <2>5. NoEcho(q, down'[q])
    <3>1. CASE Post(Only(r, refused))
      BY <1>t, <2>3, <3>1, InOnly, NoEchoKept
    <3>2. CASE UNCHANGED down
      BY <3>2
    <3>3. CASE ApplyWrite(w)
      BY <2>2, <2>4, <3>3, ApplyEchoes DEF Path
    <3> QED
      BY <2>1, <3>1, <3>2, <3>3
  <2>6. r = q => /\ u # <<>> /\ w = Head(u) /\ up'[q] = Tail(u)
                 /\ Written(q, Head(u))
    BY <1>t, <2>2 DEF u, w, TypeOK
  <2>7. r # q => up'[q] = u
    BY <1>t, <2>2 DEF u, TypeOK
  <2>8. /\ OnTheirWay(q, cur, queue, up'[q], d, aw)
        /\ w.sid[1] = q =>
             \A v : Written(q, v) /\ (In(v, queue) \/ In(v, up'[q])) => v.val # w.val
    <3>1. CASE r = q
      <4>1. Part(Tail(u), u) /\ aw \subseteq aw
        BY <1>t, <2>6, <3>1, Parts
      <4>2. OnTheirWay(q, cur, queue, Tail(u), d, aw)
        BY <1>o, <1>w, <4>1, PartsKeep
      <4>3. ASSUME NEW v, Written(q, v), In(v, queue) \/ In(v, Tail(u))
            PROVE  v.val # Head(u).val
        BY <1>t, <1>w, <2>6, <3>1, <4>3, TakenApart
      <4> QED
        BY <2>6, <3>1, <4>2, <4>3
    <3>2. CASE r # q
      BY <1>w, <2>2, <2>7, <3>2
    <3> QED
      BY <3>1, <3>2
  <2>9. CASE Post(Only(r, refused)) /\ queue' = queue
    <3>1. OnTheirWay(q, cur, queue, up'[q], down'[q], aw)
      BY <1>t, <2>2, <2>3, <2>8, <2>9, OnlyKeeps DEF d
    <3> QED
      BY <1>c, <1>z, <2>1, <2>5, <2>9, <3>1 DEF aw
  <2>10. CASE queue' = Append(queue, w) /\ UNCHANGED down
    <3>1. OnTheirWay(q, cur, Append(queue, w), up'[q], d, aw)
      <4>1. CASE r = q
        BY <1>t, <1>w, <2>6, <4>1, QueuedKeeps
      <4>2. CASE r # q
        BY <1>t, <1>w, <2>2, <2>7, <4>2, OthersKeep
      <4> QED
        BY <4>1, <4>2
    <3> QED
      BY <1>c, <1>z, <2>1, <2>5, <2>10, <3>1 DEF aw, d
  <2>11. CASE ApplyWrite(w) /\ queue' = queue
    <3>1. OnTheirWay(q, cur, queue, up'[q], down'[q], aw)
      <4> DEFINE v == up'[q]
      <4>1. /\ OnTheirWay(q, cur, queue, v, down[q], aw)
            /\ w.sid[1] = q =>
                 \A x : Written(q, x) /\ (In(x, queue) \/ In(x, v)) => x.val # w.val
        BY <2>8 DEF d
      <4> HIDE DEF v
      <4>2. OnTheirWay(q, cur, queue, v, down'[q], aw)
        BY <1>t, <2>2, <2>11, <4>1, ApplyKeeps
      <4> QED
        BY <4>2 DEF v
    <3> QED
      BY <1>c, <1>z, <2>1, <2>5, <2>11, <3>1 DEF aw
  <2> QED
    BY <2>1, <2>9, <2>10, <2>11
<1>7. CASE DbGrant
  <2> DEFINE w == Head(queue)
  <2>1. /\ queue # <<>> /\ ApplyWrite(w) /\ queue' = Tail(queue)
        /\ UNCHANGED <<state, awaiting, up, open>>
    BY <1>7 DEF DbGrant
  <2>2. /\ w \in WriteMessages /\ w = queue[1] /\ 1 \in 1 .. Len(queue)
        /\ In(w, queue) /\ Part(Tail(queue), queue) /\ aw \subseteq aw
    BY <1>t, <2>1, Taken, InTaken, Parts, LenProperties
  <2>3. <<w.sid[1], w.key>> \in Writers /\ w.kind = "write"
    BY <2>2 DEF Mine, WriteMessages
  <2>4. NoEcho(q, down'[q])
    BY <2>1, <2>2, <2>3, ApplyEchoes DEF Path
  <2>5. OnTheirWay(q, cur, Tail(queue), u, d, aw)
    BY <1>o, <1>w, <2>2, PartsKeep
  <2>6. ASSUME w.sid[1] = q, NEW v, Written(q, v), In(v, Tail(queue)) \/ In(v, u)
        PROVE  v.val # w.val
    <3>1. Written(q, w)
      BY <2>3, <2>6 DEF Written
    <3> QED
      BY <1>t, <1>w, <2>1, <2>6, <3>1, TakenApart
  <2> HIDE DEF w
  <2>7. OnTheirWay(q, cur, Tail(queue), u, down'[q], aw)
    <3> DEFINE qu == Tail(queue)
    <3>1. /\ OnTheirWay(q, cur, qu, u, down[q], aw)
          /\ w.sid[1] = q =>
               \A v : Written(q, v) /\ (In(v, qu) \/ In(v, u)) => v.val # w.val
      BY <2>5, <2>6 DEF d
    <3> HIDE DEF qu
    <3>2. OnTheirWay(q, cur, qu, u, down'[q], aw)
      BY <1>t, <2>1, <2>2, <3>1, ApplyKeeps
    <3> QED
      BY <3>2 DEF qu
  <2> QED
    BY <1>c, <1>z, <2>1, <2>4, <2>7 DEF aw, u
<1>8. ASSUME NEW r \in Replicas, Close(r)
      PROVE  Path(q)' /\ NoEcho(q, down'[q])
  <2>1. q # r /\ UNCHANGED <<queue, awaiting, state>>
    BY <1>8 DEF Close, dbVars
  <2>2. up'[q] = u /\ down'[q] = d
    BY <1>8, <1>t, <2>1 DEF Close, TypeOK, u, d
  <2> QED
    BY <1>k, <1>c, <2>1, <2>2 DEF aw
<1>9. CASE FlushTakes \/ FlushReturns \/ UNCHANGED vars
  <2>1. UNCHANGED <<queue, up, down, awaiting, state>>
    BY <1>9 DEF FlushTakes, FlushReturns, vars
  <2> QED
    BY <1>k, <1>c, <2>1 DEF u, d, aw
<1> QED
  BY <1>1, <1>2, <1>3, <1>4, <1>5, <1>6, <1>7, <1>8, <1>9, NoReconnects
  DEF Next, DbHandle

------------------------------------------------------------------------------
(* What the sole writer of a path shows *)

LEMMA ValsAre ==
  ASSUME NEW s, NEW k
  PROVE  \A x : x \in Vals(s, k) <=>
           \E i \in 1 .. Len(s) : Of(s[i], k) /\ x = s[i].val
BY DEF Vals

LEMMA ValsSent ==
  ASSUME NEW S, NEW s \in Seq(S), NEW m \in S, NEW k
  PROVE  Vals(Append(s, m), k)
           = IF Of(m, k) THEN Vals(s, k) \cup {m.val} ELSE Vals(s, k)
<1> DEFINE t == Append(s, m)
<1>1. /\ Len(s) \in Nat /\ Len(t) = Len(s) + 1 /\ t[Len(s) + 1] = m
      /\ \A i \in 1 .. Len(s) : i \in 1 .. Len(t) /\ t[i] = s[i]
      /\ \A i \in 1 .. Len(t) : i \in 1 .. Len(s) \/ (i = Len(s) + 1 /\ t[i] = m)
      /\ Len(s) + 1 \in 1 .. Len(t)
  BY Sent, LenProperties
<1> HIDE DEF t
<1>2. ASSUME NEW x
      PROVE  x \in Vals(t, k) <=> x \in Vals(s, k) \/ (Of(m, k) /\ x = m.val)
  <2>1. ASSUME x \in Vals(t, k)
        PROVE  x \in Vals(s, k) \/ (Of(m, k) /\ x = m.val)
    BY <1>1, <2>1, ValsAre
  <2>2. ASSUME x \in Vals(s, k)
        PROVE  x \in Vals(t, k)
    BY <1>1, <2>2, ValsAre
  <2>3. ASSUME Of(m, k), x = m.val
        PROVE  x \in Vals(t, k)
    BY <1>1, <2>3, ValsAre
  <2> QED
    BY <2>1, <2>2, <2>3
<1> HIDE DEF Vals
<1>3. CASE Of(m, k)
  BY <1>2, <1>3 DEF t
<1>4. CASE ~Of(m, k)
  BY <1>2, <1>4 DEF t
<1> QED
  BY <1>3, <1>4

LEMMA ValsTaken ==
  ASSUME NEW S, NEW s \in Seq(S), s # <<>>, NEW k
  PROVE  Vals(s, k) = IF Of(Head(s), k) THEN Vals(Tail(s), k) \cup {Head(s).val}
                      ELSE Vals(Tail(s), k)
<1> DEFINE t == Tail(s)
           m == Head(s)
<1>1. /\ 1 \in 1 .. Len(s) /\ s[1] = m
      /\ \A i \in 1 .. Len(t) : i + 1 \in 1 .. Len(s) /\ t[i] = s[i + 1]
      /\ \A i \in 1 .. Len(s) : i = 1 \/ (i - 1 \in 1 .. Len(t) /\ t[i - 1] = s[i])
  BY Taken, LenProperties
<1> HIDE DEF t, m
<1>2. ASSUME NEW x
      PROVE  x \in Vals(s, k) <=> x \in Vals(t, k) \/ (Of(m, k) /\ x = m.val)
  <2>1. ASSUME x \in Vals(s, k)
        PROVE  x \in Vals(t, k) \/ (Of(m, k) /\ x = m.val)
    <3>1. PICK i \in 1 .. Len(s) : Of(s[i], k) /\ x = s[i].val
      BY <2>1, ValsAre
    <3>2. CASE i = 1
      BY <1>1, <3>1, <3>2
    <3>3. CASE i - 1 \in 1 .. Len(t) /\ t[i - 1] = s[i]
      BY <3>1, <3>3, ValsAre
    <3> QED
      BY <1>1, <3>2, <3>3
  <2>2. ASSUME x \in Vals(t, k)
        PROVE  x \in Vals(s, k)
    <3>1. PICK i \in 1 .. Len(t) : Of(t[i], k) /\ x = t[i].val
      BY <2>2, ValsAre
    <3>2. i + 1 \in 1 .. Len(s) /\ t[i] = s[i + 1]
      BY <1>1
    <3> QED
      BY <3>1, <3>2, ValsAre
  <2>3. ASSUME Of(m, k), x = m.val
        PROVE  x \in Vals(s, k)
    BY <1>1, <2>3, ValsAre
  <2> QED
    BY <2>1, <2>2, <2>3
<1> HIDE DEF Vals
<1>3. CASE Of(m, k)
  BY <1>2, <1>3 DEF t, m
<1>4. CASE ~Of(m, k)
  BY <1>2, <1>4 DEF t, m
<1> QED
  BY <1>3, <1>4 DEF m

\* The writes of a path with one writer are that replica's own.
LEMMA OfWritten ==
  ASSUME TInv, Mine, NEW q \in Replicas, NEW k \in Keys, WritersOf(k) = {q}
  PROVE  /\ \A i \in 1 .. Len(queue) : Of(queue[i], k) => Written(q, queue[i])
         /\ \A i \in 1 .. Len(up[q]) : Of(up[q][i], k) => Written(q, up[q][i])
         /\ \A w \in WriteMessages :
              <<w.sid[1], w.key>> \in Writers /\ w.key = k => Written(q, w)
<1>1. ASSUME NEW m, m.kind = "write", m.key = k, <<m.sid[1], m.key>> \in Writers
      PROVE  Written(q, m)
  <2>1. m.sid[1] \in Replicas
    BY <1>1, WritersAssumption
  <2> QED
    BY <1>1, <2>1 DEF WritersOf, Written
<1>2. \A w \in WriteMessages : w.kind = "write"
  BY DEF WriteMessages
<1> QED
  BY <1>1, <1>2 DEF Mine, Of, Written

\* The writer's new value is not overtaken by what is on its way to it.
LEMMA WrittenShows ==
  ASSUME TInv, TInv', NEW q \in Replicas, NEW k \in Keys, Write(q, k),
         WritersOf(k) = {q}, NoneBegins(up[q], down[q]), NoEcho(q, down[q])
  PROVE  Settled(q)'.kind = "connected" => Settled(q)'.root[k] = writes + 1
<1> DEFINE d == down[q]
           T == {x \in States : x.kind = "connected" => x.root[k] = writes + 1}
<1>1. /\ down' = down /\ d \in Seq(DownMessages) /\ state'[q] \in States
      /\ IsConnected(q) /\ state[q] \in States
      /\ state'[q] = [state[q] EXCEPT !.root[k] = writes + 1]
  BY Typed DEF Write, TInv, TypeOK, States
<1>2. state'[q].root[k] = writes + 1
  <2>1. state[q] \in [kind : {"connected"}, sid : Sids, root : Roots]
    BY <1>1 DEF States, IsConnected, Disconnected
  <2>2. state'[q].root = [state[q].root EXCEPT ![k] = writes + 1]
    BY <1>1, <2>1
  <2> QED
    BY <2>1, <2>2 DEF Roots
<1>3. state'[q] \in T
  BY <1>1, <1>2
<1>4. ASSUME NEW x \in T, NEW i \in 1 .. Len(d)
      PROVE  Deliver(x, d[i]) \in T
  <2>1. d[i] \in DownMessages
    BY <1>1, ElementOfSeq
  <2>2. Deliver(x, d[i]) \in States
    BY <2>1, DeliverTypes
  <2>3. d[i].kind # "connected"
    BY DEF NoneBegins, Begins
  <2>4. CASE d[i].kind = "ack"
    <3>1. Deliver(x, d[i]) = x \/ Deliver(x, d[i]) = Disconnected
      BY <2>4 DEF Deliver
    <3> QED
      BY <2>2, <3>1 DEF Disconnected
  <2>5. CASE d[i].kind = "replicated"
    <3>1. /\ d[i].key \in Keys /\ d[i].val \in Values /\ d[i].key # k
      BY <2>1, <2>5, DownKinds DEF NoEcho
    <3>2. CASE x.kind # "connected"
      BY <2>5, <3>2 DEF Deliver
    <3>3. CASE x.kind = "connected"
      <4> DEFINE t == [x EXCEPT !.root[d[i].key] = d[i].val]
      <4>1. x \in [kind : {"connected"}, sid : Sids, root : Roots]
        BY <3>3 DEF States, Disconnected
      <4>2. t.root = [x.root EXCEPT ![d[i].key] = d[i].val]
        BY <4>1
      <4>3. t.root[k] = x.root[k]
        BY <3>1, <4>1, <4>2 DEF Roots
      <4>4. Deliver(x, d[i]) = t
        BY <2>5, <3>3 DEF Deliver
      <4> QED
        BY <2>2, <3>3, <4>3, <4>4
    <3> QED
      BY <3>2, <3>3
  <2>6. CASE d[i].kind = "reconnect"
    BY <2>6 DEF Deliver
  <2> QED
    BY <2>1, <2>3, <2>4, <2>5, <2>6, DownKinds
<1> DEFINE s == state'[q]
<1> HIDE DEF T, d, s
<1>5. Delivered(s, d) \in T
  BY <1>1, <1>3, <1>4, DeliveredKeeps DEF s
<1> QED
  BY <1>1, <1>5 DEF T, d, s, Settled

\* A write is applied: if it is one of the path the root gets it, as it was to
\* come, and its writer hears nothing of it.
LEMMA ApplyShows ==
  ASSUME FInv, NEW q \in open, Path(q), NEW k \in Keys, WritersOf(k) = {q},
         NEW w \in WriteMessages, ApplyWrite(w), <<w.sid[1], w.key>> \in Writers,
         In(w, queue) \/ In(w, up[w.sid[1]]), state' = state,
         w.key = k => root[k] < w.val,
         NEW rest \in SUBSET Nat,
         Shows(Settled(q), k,
               IF w.key = k THEN {root[k]} \cup rest \cup {w.val}
                            ELSE {root[k]} \cup rest)
  PROVE  Shows(Settled(q)', k, {root'[k]} \cup rest)
<1>t. /\ q \in Replicas /\ TInv /\ SInv /\ Mine /\ Settled(q) \in States
      /\ root \in [Keys -> Nat] /\ root[k] \in Nat /\ w.key \in Keys
      /\ w.val \in Nat
      /\ root' = [root EXCEPT ![w.key] = w.val] /\ Post(WriteOut(w))
  <2>1. root \in [Keys -> Nat]
    BY BoundsAssumption DEF FInv, TInv, TypeOK, Roots, Values
  <2>2. w.key \in Keys /\ w.val \in Nat
    BY BoundsAssumption DEF WriteMessages, Values
  <2> QED
    BY <2>1, <2>2, SettledTyped, ApplyWriteTypes DEF FInv, TInv, TypeOK, ApplyWrite
<1>s. Settled(q)' = IF \A x \in sessions : x[1] = q => x = w.sid
                    THEN Settled(q) ELSE Deliver(Settled(q), Replicated(w))
  BY <1>t, WriteSettles
<1>1. CASE w.key = k
  <2>1. Written(q, w)
    BY <1>t, <1>1, OfWritten
  <2>2. \A x \in sessions : x[1] = q => x = w.sid
    <3>1. w.sid[1] = q
      BY <2>1 DEF Written
    <3> QED
      BY <1>t, <2>1, <3>1, OwnWriteSession DEF Path
  <2>3. Settled(q)' = Settled(q) /\ root'[k] = w.val
    BY <1>t, <1>s, <1>1, <2>2
  <2> DEFINE v == Settled(q).root[k]
  <2>4. ASSUME Settled(q).kind = "connected"
        PROVE  /\ v \in {w.val} \cup rest
               /\ \A x \in {w.val} \cup rest : x <= v
    <3>1. /\ v \in {root[k]} \cup rest \cup {w.val}
          /\ \A x \in {root[k]} \cup rest \cup {w.val} : x <= v
      BY <1>1, <2>4 DEF Shows
    <3>2. v # root[k]
      BY <1>t, <1>1, <3>1
    <3> QED
      BY <3>1, <3>2
  <2> QED
    BY <2>3, <2>4 DEF Shows
<1>2. CASE w.key # k
  <2>1. root'[k] = root[k]
    BY <1>t, <1>2
  <2>2. /\ Settled(q)'.kind = Settled(q).kind
        /\ Settled(q).kind = "connected" =>
             Settled(q)'.root[k] = Settled(q).root[k]
    <3> DEFINE s == Settled(q)
    <3>1. /\ Deliver(s, Replicated(w)).kind = s.kind
          /\ s.kind = "connected" =>
               Deliver(s, Replicated(w)).root[k] = s.root[k]
      BY <1>t, <1>2, ReplicatedDelivered
    <3> QED
      BY <1>s, <3>1
  <2> QED
    BY <1>2, <2>1, <2>2 DEF Shows
<1> QED
  BY <1>1, <1>2

\* Every step leaves the sole writer of a path showing the last value to come.
LEMMA StepShown ==
  ASSUME FInv, OInv, Plain, MaxReconnects = 0, [Next]_vars,
         NEW q \in open', q \in open, Path(q), NoEcho(q, down[q]),
         NEW k \in Keys, WritersOf(k) = {q}, Shown(q, k), FInv'
  PROVE  Shown(q, k)'
<1> USE DEF FInv
<1> DEFINE s == Settled(q)
           u == up[q]
           T == ToCome(root, queue, u, k)
<1>t. /\ q \in Replicas /\ TypeOK /\ s \in States /\ u \in Seq(UpMessages)
      /\ queue \in Seq(WriteMessages) /\ queue \in Seq(UpMessages)
      /\ down[q] \in Seq(DownMessages)
      /\ root[k] \in Nat /\ writes \in Nat
  <2>1. root \in [Keys -> Nat] /\ writes \in Nat
    BY BoundsAssumption DEF TInv, TypeOK, Roots, Values
  <2> QED
    BY <2>1, Built, SeqMonotonic, Typed, SettledTyped DEF TInv, TypeOK
<1>v. OrderOf(k, q, root, queue, up, writes)
  BY <1>t DEF OInv
<1>n. /\ \A i \in 1 .. Len(queue) : Of(queue[i], k) =>
           queue[i].val \in Nat /\ root[k] < queue[i].val /\ queue[i].val <= writes
      /\ \A i \in 1 .. Len(u) : Of(u[i], k) =>
           u[i].val \in Nat /\ root[k] < u[i].val /\ u[i].val <= writes
      /\ root[k] <= writes
  <2>1. ASSUME NEW x \in (root[k] + 1) .. writes
        PROVE  x \in Nat /\ root[k] < x /\ x <= writes
    BY <1>t
  <2>2. /\ \A i \in 1 .. Len(queue) :
             Of(queue[i], k) => queue[i].val \in (root[k] + 1) .. writes
        /\ \A i \in 1 .. Len(u) :
             Of(u[i], k) => u[i].val \in (root[k] + 1) .. writes
        /\ root[k] <= writes
    BY <1>v DEF OrderOf, Within
  <2> QED
    BY <2>1, <2>2
<1>m. Vals(queue, k) \subseteq Nat /\ Vals(u, k) \subseteq Nat
  BY <1>n, ValsAre
<1>w. Shows(s, k, T)
  BY DEF Shown
<1>z. ASSUME Shows(Settled(q)', k, ToCome(root', queue', up'[q], k))
      PROVE  Shown(q, k)'
  BY <1>z DEF Shown
<1>p. state'[q] = state[q] /\ down'[q] = down[q] => Settled(q)' = s
  BY DEF Settled
<1> HIDE DEF s, u, T
<1>k. ASSUME Settled(q)' = s, UNCHANGED <<root, queue>>, Vals(up'[q], k) = Vals(u, k)
      PROVE  Shown(q, k)'
  <2>1. ToCome(root', queue', up'[q], k) = T
    BY <1>k DEF ToCome, T
  <2> QED
    BY <1>k, <1>w, <1>z, <2>1
<1>1. ASSUME NEW r \in Replicas, Connect(r) \/ Disconnect(r)
      PROVE  Shown(q, k)'
  <2>1. UNCHANGED <<root, queue, down, state>>
    BY <1>1 DEF Connect, Disconnect, dbVars
  <2>2. PICK m \in UpMessages : Send(r, m) /\ m.kind # "write"
    <3>1. CASE Connect(r)
      <4> DEFINE a == [then |-> "connect", req |-> requests[r] + 1]
      <4>1. Send(r, ConnectMessage(a))
        BY <3>1 DEF Connect, Request
      <4>2. ConnectMessage(a) \in UpMessages /\ ConnectMessage(a).kind # "write"
        BY <1>t, RequestTypes, Built DEF ConnectMessage
      <4> QED
        BY <4>1, <4>2
    <3>2. CASE Disconnect(r)
      <4> DEFINE a == [then |-> "disconnect", req |-> requests[r] + 1]
      <4>1. Send(r, DisconnectMessage(state[r].sid, a)) /\ IsConnected(r)
        BY <3>2 DEF Disconnect, Request
      <4>2. DisconnectMessage(state[r].sid, a) \in UpMessages
        BY <1>t, <4>1, RequestTypes, Built, OwnSession
      <4>3. DisconnectMessage(state[r].sid, a).kind = "disconnect"
        BY DEF DisconnectMessage
      <4> QED
        BY <4>1, <4>2, <4>3
    <3> QED
      BY <1>1, <3>1, <3>2
  <2>3. up'[q] = u \/ up'[q] = Append(u, m)
    BY <1>t, <2>2 DEF Send, TypeOK, u
  <2>4. Vals(up'[q], k) = Vals(u, k)
    <3>1. ~Of(m, k)
      BY <2>2 DEF Of
    <3>2. Vals(Append(u, m), k) = Vals(u, k)
      BY <1>t, <2>2, <3>1, ValsSent
    <3> QED
      BY <2>3, <3>2
  <2> QED
    BY <1>k, <1>p, <2>1, <2>4
<1>2. ASSUME NEW r \in Replicas, NEW j \in Keys, Write(r, j)
      PROVE  Shown(q, k)'
  <2> DEFINE w == [kind |-> "write", sid |-> state[r].sid, key |-> j,
                   val |-> writes + 1]
  <2>1. /\ Send(r, w) /\ IsConnected(r) /\ writes < MaxWrites
        /\ UNCHANGED <<root, queue, down>>
    BY <1>2 DEF Write, dbVars
  <2>2. /\ q # r => Settled(q)' = s
        /\ Settled(q)'.kind = s.kind
        /\ s.kind = "connected" =>
             \A i \in Keys \ {j} : Settled(q)'.root[i] = s.root[i]
    BY <1>2, <1>t, WrittenSettles DEF s
  <2>3. w \in UpMessages /\ w.val = writes + 1 /\ (Of(w, k) <=> j = k)
    <3>1. writes + 1 \in Values
      BY <1>t, <2>1, BoundsAssumption DEF TypeOK, Values
    <3> QED
      BY <2>1, <3>1, OwnSession DEF Of
  <2> HIDE DEF w
  <2>4. CASE r # q
    <3>1. up'[q] = u
      BY <1>t, <2>1, <2>4 DEF Send, TypeOK, u
    <3> QED
      BY <1>k, <2>1, <2>2, <2>4, <3>1
  <2>5. CASE r = q /\ j # k
    <3>1. up'[q] = Append(u, w)
      BY <1>t, <2>1, <2>5 DEF Send, TypeOK, u
    <3>2. Vals(up'[q], k) = Vals(u, k)
      BY <1>t, <2>3, <2>5, <3>1, ValsSent
    <3>3. ToCome(root', queue', up'[q], k) = T
      BY <2>1, <3>2 DEF ToCome, T
    <3>4. /\ Settled(q)'.kind = s.kind
          /\ s.kind = "connected" => Settled(q)'.root[k] = s.root[k]
      BY <2>2, <2>5
    <3> QED
      BY <1>w, <1>z, <3>3, <3>4 DEF Shows
  <2>6. CASE r = q /\ j = k
    <3>1. up'[q] = Append(u, w)
      BY <1>t, <2>1, <2>6 DEF Send, TypeOK, u
    <3>2. Vals(up'[q], k) = Vals(u, k) \cup {writes + 1}
      BY <1>t, <2>3, <2>6, <3>1, ValsSent
    <3>3. Settled(q)'.kind = "connected" => Settled(q)'.root[k] = writes + 1
      <4>1. NoneBegins(up[q], down[q])
        <5>1. Current(q) # {}
          BY <2>1, <2>6 DEF Current
        <5> QED
          BY <1>t, <5>1 DEF SInv, SInvOf, Agree, InSession, NoneBegins
      <4> QED
        BY <1>2, <1>t, <2>6, <4>1, WrittenShows
    <3>4. /\ writes + 1 \in ToCome(root', queue', up'[q], k)
          /\ \A x \in ToCome(root', queue', up'[q], k) : x <= writes + 1
      <4>1. ToCome(root', queue', up'[q], k)
              = {root[k]} \cup Vals(queue, k) \cup Vals(u, k) \cup {writes + 1}
        BY <2>1, <3>2 DEF ToCome
      <4>2. \A x \in Vals(queue, k) \cup Vals(u, k) : x \in Nat /\ x <= writes
        BY <1>n, ValsAre
      <4>3. \A x \in {root[k]} \cup Vals(queue, k) \cup Vals(u, k) \cup {writes + 1} :
              x <= writes + 1
        BY <1>t, <1>n, <4>2
      <4> QED
        BY <4>1, <4>3
    <3> QED
      BY <1>z, <3>3, <3>4 DEF Shows
  <2> QED
    BY <2>4, <2>5, <2>6
<1>3. ASSUME NEW r \in Replicas, Receive(r)
      PROVE  Shown(q, k)'
  <2>1. ReceiveAck(r) \/ ReceiveReplicated(r)
    BY <1>3, NoReconnects DEF Receive
  <2>2. /\ down[r] # <<>> /\ Pop(r) /\ UNCHANGED <<root, queue, up>>
        /\ state' = [state EXCEPT ![r] = Deliver(@, Head(down[r]))]
    BY <2>1 DEF ReceiveAck, ReceiveReplicated, dbVars
  <2>3. Settled(q)' = s
    BY <1>t, <2>2, ReceivedSettles DEF s
  <2> QED
    BY <1>k, <2>2, <2>3 DEF u
<1>4. ASSUME NEW r \in Replicas, DbConnect(r)
      PROVE  Shown(q, k)'
  <2> DEFINE a == Head(up[r]).await
             sid == <<r, a.req>>
             m == [kind |-> "connected", await |-> a, sid |-> sid, root |-> root]
  <2>1. /\ up[r] # <<>> /\ up' = [up EXCEPT ![r] = Tail(@)] /\ Post(Only(r, m))
        /\ Head(up[r]).kind = "connect" /\ UNCHANGED <<root, queue, state, open>>
    BY <1>4 DEF DbConnect, Arrives
  <2>2. m \in DownMessages
    <3>1. a \in Awaits
      BY <1>4, <1>t, ArrivesTypes, UpKinds DEF DbConnect
    <3>2. sid \in Sids
      BY <3>1 DEF Awaits, Sids
    <3> QED
      BY <1>t, <3>1, <3>2, Built DEF TypeOK
  <2>3. Settled(q)' = IF q = r THEN Deliver(s, m) ELSE s
    BY <1>t, <2>1, <2>2, OnlySettles DEF s
  <2>4. CASE q # r
    <3>1. up'[q] = u
      BY <1>t, <2>1, <2>4 DEF TypeOK, u
    <3> QED
      BY <1>k, <2>1, <2>3, <2>4, <3>1
  <2>5. CASE q = r
    <3>1. up'[q] = Tail(u) /\ u # <<>> /\ Head(u).kind = "connect"
      BY <1>t, <2>1, <2>5 DEF TypeOK, u
    <3>2. 1 \in 1 .. Len(u) /\ u[1] = Head(u)
      BY <1>t, <3>1, Taken, LenProperties
    <3>3. NoneOf(q, queue) /\ NoneOf(q, u)
      BY <3>1, <3>2 DEF Path, OnTheirWay, NoneBegins, u
    <3>4. Vals(queue, k) = {} /\ Vals(u, k) = {}
      <4>1. /\ \A i \in 1 .. Len(queue) : ~Of(queue[i], k)
            /\ \A i \in 1 .. Len(u) : ~Of(u[i], k)
        BY <1>t, <3>3, OfWritten DEF NoneOf, u
      <4> QED
        BY <4>1, ValsAre
    <3>5. Vals(Tail(u), k) = {}
      BY <1>t, <3>1, <3>4, ValsTaken
    <3>6. ToCome(root', queue', up'[q], k) = {root[k]}
      BY <2>1, <3>1, <3>4, <3>5 DEF ToCome
    <3>7. Settled(q)' = Connected(sid, root)
      BY <2>3, <2>5 DEF Deliver
    <3>8. Settled(q)'.root[k] = root[k]
      BY <3>7 DEF Connected
    <3> QED
      BY <1>t, <1>z, <3>6, <3>8 DEF Shows
  <2> QED
    BY <2>4, <2>5
<1>5. ASSUME NEW r \in Replicas, DbDisconnect(r)
      PROVE  Shown(q, k)'
  <2> DEFINE h == Head(up[r])
             m == [kind |-> "ack", await |-> h.await, ok |-> h.sid \in sessions]
  <2>1. /\ up[r] # <<>> /\ up' = [up EXCEPT ![r] = Tail(@)] /\ Post(Only(r, m))
        /\ h.kind = "disconnect" /\ UNCHANGED <<root, queue, state, open>>
    BY <1>5 DEF DbDisconnect, Arrives
  <2>2. m \in DownMessages
    <3>1. h.await \in Awaits
      BY <1>5, <1>t, ArrivesTypes, UpKinds DEF DbDisconnect
    <3> DEFINE ok == h.sid \in sessions
    <3>2. ok \in BOOLEAN
      OBVIOUS
    <3> HIDE DEF ok, h
    <3> QED
      BY <3>1, <3>2, Built DEF ok
  <2>3. Settled(q)' = IF q = r THEN Deliver(s, m) ELSE s
    BY <1>t, <2>1, <2>2, OnlySettles DEF s
  <2>4. Deliver(s, m) = s \/ Deliver(s, m) = Disconnected
    BY DEF Deliver
  <2>5. Vals(up'[q], k) = Vals(u, k)
    <3>1. CASE q = r
      <4>1. up'[q] = Tail(u) /\ u # <<>> /\ ~Of(Head(u), k)
        BY <1>t, <2>1, <3>1 DEF TypeOK, u, Of
      <4> QED
        BY <1>t, <4>1, ValsTaken
    <3>2. CASE q # r
      BY <1>t, <2>1, <3>2 DEF TypeOK, u
    <3> QED
      BY <3>1, <3>2
  <2>6. CASE Settled(q)' = s
    BY <1>k, <2>1, <2>5, <2>6
  <2>7. CASE Settled(q)' = Disconnected
    <3>1. Settled(q)'.kind # "connected"
      BY <2>7 DEF Disconnected
    <3> QED
      BY <1>z, <3>1 DEF Shows
  <2> QED
    BY <2>3, <2>4, <2>6, <2>7
<1>6. ASSUME NEW r \in Replicas, DbWrite(r)
      PROVE  Shown(q, k)'
  <2> DEFINE w == Head(up[r])
             refused == WriteAck(w, FALSE)
  <2>1. /\ Arrives(r, "write") /\ UNCHANGED <<sessions, state, open>>
        /\ \/ /\ Post(Only(r, refused)) /\ UNCHANGED <<root, queue>>
              /\ w.sid \notin sessions
           \/ queue' = Append(queue, w) /\ UNCHANGED <<root, down>>
           \/ ApplyWrite(w) /\ queue' = queue
    BY <1>6 DEF DbWrite
  <2>2. /\ w \in WriteMessages /\ w \in UpMessages /\ w.sid[1] = r
        /\ <<w.sid[1], w.key>> \in Writers
        /\ up[r] # <<>> /\ up' = [up EXCEPT ![r] = Tail(@)]
        /\ Of(w, k) <=> w.key = k
    BY <1>t, <2>1, ArrivedWrite, Built DEF Arrives, Of, WriteMessages
  <2>3. In(w, up[r])
    BY <2>2, InArrived
  <2>4. w.key = k => r = q /\ Written(q, w)
    BY <1>t, <2>2, OfWritten DEF Written
  <2>5. r = q => u # <<>> /\ w = Head(u) /\ up'[q] = Tail(u)
    BY <1>t, <2>2 DEF u, TypeOK
  <2>6. r # q => up'[q] = u
    BY <1>t, <2>2 DEF u, TypeOK
  <2> HIDE DEF w, refused
  <2>7. Vals(u, k) = IF w.key = k THEN Vals(up'[q], k) \cup {w.val}
                                  ELSE Vals(up'[q], k)
    <3>1. CASE r = q
      BY <1>t, <2>2, <2>5, <3>1, ValsTaken
    <3>2. CASE r # q
      BY <2>4, <2>6, <3>2
    <3> QED
      BY <3>1, <3>2
  <2>8. CASE /\ Post(Only(r, refused)) /\ UNCHANGED <<root, queue>>
             /\ w.sid \notin sessions
    <3>1. refused \in DownMessages
      <4>1. [then |-> "write", req |-> w.val] \in Awaits
        BY <2>2, BoundsAssumption DEF WriteMessages, Awaits, Values
      <4> QED
        BY <4>1, Built DEF WriteAck, refused
    <3>2. Deliver(s, refused) = s
      BY DEF Deliver, WriteAck, refused
    <3>3. Settled(q)' = s
      BY <1>t, <2>1, <2>8, <3>1, <3>2, OnlySettles DEF s
    <3>4. CASE w.key # k
      BY <1>k, <2>7, <2>8, <3>3, <3>4
    <3>5. CASE w.key = k
      <4>1. \A x \in sessions : x[1] = q => x = w.sid
        BY <2>3, <2>4, <3>5, OwnWriteSession DEF Path
      <4>2. s.kind # "connected"
        BY <2>8, <4>1 DEF Level, s
      <4> QED
        BY <1>z, <3>3, <4>2 DEF Shows
    <3> QED
      BY <3>4, <3>5
  <2>9. CASE queue' = Append(queue, w) /\ UNCHANGED <<root, down>>
    <3>1. Vals(queue', k) = IF w.key = k THEN Vals(queue, k) \cup {w.val}
                                         ELSE Vals(queue, k)
      BY <1>t, <2>2, <2>9, ValsSent
    <3>2. ToCome(root', queue', up'[q], k) = T
      BY <2>7, <2>9, <3>1 DEF ToCome, T
    <3>3. Settled(q)' = s
      BY <1>p, <2>1, <2>9
    <3> QED
      BY <1>w, <1>z, <3>2, <3>3
  <2>10. CASE ApplyWrite(w) /\ queue' = queue
    <3> DEFINE rest == Vals(queue, k) \cup Vals(up'[q], k)
    <3>1. rest \in SUBSET Nat
      BY <1>m, <2>7
    <3>2. T = IF w.key = k THEN {root[k]} \cup rest \cup {w.val}
                           ELSE {root[k]} \cup rest
      BY <2>7 DEF ToCome, T
    <3>3. w.key = k => root[k] < w.val
      <4>1. ASSUME w.key = k
            PROVE  root[k] < w.val
        <5>1. w.val \in Vals(u, k)
          BY <2>7, <4>1
        <5> QED
          BY <1>n, <5>1, ValsAre
      <4> QED
        BY <4>1
    <3>4. ToCome(root', queue', up'[q], k) = {root'[k]} \cup rest
      BY <2>10 DEF ToCome
    <3> HIDE DEF rest
    <3>5. Shows(Settled(q)', k, {root'[k]} \cup rest)
      BY <1>w, <2>1, <2>2, <2>3, <2>10, <3>1, <3>2, <3>3, ApplyShows DEF s
    <3> QED
      BY <1>z, <3>4, <3>5
  <2> QED
    BY <2>1, <2>8, <2>9, <2>10
<1>7. CASE DbGrant
  <2> DEFINE w == Head(queue)
             rest == Vals(Tail(queue), k) \cup Vals(u, k)
  <2>1. /\ queue # <<>> /\ ApplyWrite(w) /\ queue' = Tail(queue)
        /\ UNCHANGED <<state, up, open>>
    BY <1>7 DEF DbGrant
  <2>2. /\ w \in WriteMessages /\ w = queue[1] /\ 1 \in 1 .. Len(queue)
        /\ In(w, queue)
    BY <1>t, <2>1, Taken, InTaken, LenProperties
  <2>3. <<w.sid[1], w.key>> \in Writers /\ (Of(w, k) <=> w.key = k)
    BY <2>2 DEF Mine, WriteMessages, Of
  <2>4. Vals(queue, k) = IF w.key = k THEN Vals(Tail(queue), k) \cup {w.val}
                                      ELSE Vals(Tail(queue), k)
    BY <1>t, <2>1, <2>3, ValsTaken
  <2> HIDE DEF w
  <2>5. rest \in SUBSET Nat
    BY <1>m, <2>4
  <2>6. T = IF w.key = k THEN {root[k]} \cup rest \cup {w.val}
                         ELSE {root[k]} \cup rest
    BY <2>4 DEF ToCome, T
  <2>7. w.key = k => root[k] < w.val
    BY <1>n, <2>2, <2>3
  <2>8. ToCome(root', queue', up'[q], k) = {root'[k]} \cup rest
    BY <2>1 DEF ToCome, u
  <2> HIDE DEF rest
  <2>9. Shows(Settled(q)', k, {root'[k]} \cup rest)
    BY <1>w, <2>1, <2>2, <2>3, <2>5, <2>6, <2>7, ApplyShows DEF s
  <2> QED
    BY <1>z, <2>8, <2>9
<1>8. ASSUME NEW r \in Replicas, Close(r)
      PROVE  Shown(q, k)'
  <2>1. q # r /\ UNCHANGED <<root, queue, state>>
    BY <1>8 DEF Close, dbVars
  <2>2. up'[q] = u /\ down'[q] = down[q]
    BY <1>8, <1>t, <2>1 DEF Close, TypeOK, u
  <2> QED
    BY <1>k, <1>p, <2>1, <2>2
<1>9. CASE FlushTakes \/ FlushReturns \/ UNCHANGED vars
  <2>1. UNCHANGED <<root, queue, up, down, state>>
    BY <1>9 DEF FlushTakes, FlushReturns, vars
  <2> QED
    BY <1>k, <1>p, <2>1 DEF u
<1> QED
  BY <1>1, <1>2, <1>3, <1>4, <1>5, <1>6, <1>7, <1>8, <1>9, NoReconnects
  DEF Next, DbHandle

------------------------------------------------------------------------------
(* The theorem *)

LEMMA InitWInv == Init => WInv
<1> SUFFICES ASSUME Init
             PROVE  WInv
  OBVIOUS
<1>1. FInv /\ OInv
  BY InitFInv, InitOInv
<1>2. Len(<<>>) = 0
  OBVIOUS
<1>3. /\ Len(queue) = 0
      /\ \A r \in Replicas :
           /\ Len(up[r]) = 0 /\ Len(down[r]) = 0 /\ down[r] = <<>>
           /\ state[r] = Disconnected /\ r \in Replicas
  BY <1>2 DEF Init
<1>4. Plain
  BY <1>3 DEF Plain
<1>5. ASSUME NEW r \in open
      PROVE  /\ Path(r) /\ NoEcho(r, down[r])
             /\ \A k \in Keys : Shown(r, k)
  <2>1. r \in Replicas
    BY DEF Init
  <2>2. Path(r) /\ NoEcho(r, down[r])
    BY <1>3, <2>1, NoneKeeps DEF Path, NoneOf, NoEcho
  <2>3. Settled(r) = Disconnected
    BY <1>3, <2>1, DeliveredFew DEF Settled
  <2> QED
    BY <2>2, <2>3 DEF Shown, Shows, Disconnected
<1> QED
  BY <1>1, <1>4, <1>5 DEF WInv

LEMMA StepWInv ==
  ASSUME MaxReconnects = 0, WInv, [Next]_vars
  PROVE  WInv'
<1>1. FInv'
  BY StepTInv, StepSInv, StepMine, StepLevel DEF WInv, FInv
<1>2. OInv'
  <2>1. TInv /\ TInv'
    BY <1>1 DEF WInv, FInv
  <2>2. \A k \in Keys, r \in Replicas : WritersOf(k) = {r} =>
          OrderOf(k, r, root, queue, up, writes)'
    BY <2>1, StepOrder DEF WInv, OInv
  <2> QED
    BY <2>2 DEF OInv, WritersOf
<1>3. Plain'
  BY <1>1, StepPlain DEF WInv, FInv
<1>4. ASSUME NEW r \in open'
      PROVE  Path(r)' /\ NoEcho(r, down'[r]) /\ \A k \in Keys :
               WritersOf(k) = {r} => Shown(r, k)'
  <2>1. r \in open
    <3>1. open' = open \/ \E q \in Replicas : open' = open \ {q}
      BY DEF Next, Connect, Disconnect, Write, Receive, ReceiveAck,
             ReceiveReconnectAck, ReceiveReplicated, ReceiveReconnect, DbHandle,
             DbConnect, DbDisconnect, DbWrite, Close, DbGrant, FlushTakes,
             FlushReturns, ReconnectClients, vars
    <3> QED
      BY <3>1
  <2>2. /\ FInv /\ OInv /\ Plain /\ Path(r) /\ NoEcho(r, down[r])
        /\ \A k \in Keys : WritersOf(k) = {r} => Shown(r, k)
    BY <2>1 DEF WInv
  <2>3. TInv'
    BY <1>1 DEF FInv
  <2>4. Path(r)' /\ NoEcho(r, down'[r])
    BY <1>3, <2>1, <2>2, <2>3, StepPath
  <2> QED
    BY <1>1, <2>1, <2>2, <2>4, StepShown
<1> QED
  BY <1>1, <1>2, <1>3, <1>4 DEF WInv, WritersOf, NoEcho

\* The last of the writer's writes on the way is what the writer shows.
LEMMA LastIsShown ==
  ASSUME WInv, NEW r \in open, NEW k \in Keys, WritersOf(k) = {r},
         Settled(r).kind = "connected"
  PROVE  LET own == Outstanding(r, Settled(r).sid, k)
         IN  Settled(r).root[k] =
               IF own = {} THEN root[k] ELSE OnWay(r)[Max(own)].val
<1> DEFINE s == Settled(r)
           own == Outstanding(r, s.sid, k)
           way == OnWay(r)
           u == up[r]
<1>t. /\ r \in Replicas /\ TInv /\ SInv /\ Mine
      /\ queue \in Seq(UpMessages) /\ u \in Seq(UpMessages)
      /\ root[k] \in Nat /\ writes \in Nat
  <2>1. root \in [Keys -> Nat] /\ writes \in Nat
    BY BoundsAssumption DEF WInv, FInv, TInv, TypeOK, Roots, Values
  <2> QED
    BY <2>1, Built, SeqMonotonic, Typed DEF WInv, FInv, TInv, TypeOK
<1>o. OrderOf(k, r, root, queue, up, writes)
  BY <1>t DEF WInv, OInv
<1>w. /\ Len(queue) \in Nat /\ Len(u) \in Nat /\ DOMAIN way = 1 .. Len(way)
      /\ Len(way) = Len(queue) + Len(u)
      /\ \A i \in 1 .. Len(queue) + Len(u) :
           way[i] = IF i <= Len(queue) THEN queue[i] ELSE u[i - Len(queue)]
  BY <1>t, ConcatProperties, LenProperties DEF OnWay
<1>1. ASSUME NEW i \in 1 .. Len(way)
      PROVE  \/ i \in 1 .. Len(queue) /\ way[i] = queue[i]
             \/ i - Len(queue) \in 1 .. Len(u) /\ way[i] = u[i - Len(queue)]
  <2>1. CASE i <= Len(queue)
    BY <1>w, <2>1
  <2>2. CASE ~(i <= Len(queue))
    BY <1>w, <2>2
  <2> QED
    BY <2>1, <2>2
<1>2. own = {i \in 1 .. Len(way) : Of(way[i], k)}
  <2>1. ASSUME NEW i \in 1 .. Len(way), Of(way[i], k)
        PROVE  way[i].sid = s.sid
    <3>1. Written(r, way[i]) /\ (In(way[i], queue) \/ In(way[i], u))
      BY <1>t, <1>1, <2>1, OfWritten DEF In
    <3>2. \A x \in sessions : x[1] = r => x = way[i].sid
      BY <1>t, <3>1, OwnWriteSession DEF WInv, Path
    <3> QED
      BY <3>2 DEF WInv, FInv, Level
  <2> QED
    BY <1>w, <2>1 DEF Outstanding, Of
<1>3. \A i \in 1 .. Len(way) : Of(way[i], k) =>
        way[i].val \in Nat /\ root[k] < way[i].val
  <2>1. \A x \in (root[k] + 1) .. writes : x \in Nat /\ root[k] < x
    BY <1>t
  <2>2. \A i \in 1 .. Len(way) :
          Of(way[i], k) => way[i].val \in (root[k] + 1) .. writes
    BY <1>1, <1>o DEF OrderOf, Within
  <2> QED
    BY <2>1, <2>2
<1>4. ASSUME NEW i \in 1 .. Len(way), NEW j \in 1 .. Len(way), i < j,
             Of(way[i], k), Of(way[j], k)
      PROVE  way[i].val < way[j].val
  <2>1. CASE i \in 1 .. Len(queue) /\ way[i] = queue[i]
    <3>1. CASE j \in 1 .. Len(queue) /\ way[j] = queue[j]
      BY <1>4, <1>o, <2>1, <3>1 DEF OrderOf, Rising
    <3>2. CASE j - Len(queue) \in 1 .. Len(u) /\ way[j] = u[j - Len(queue)]
      BY <1>4, <1>o, <2>1, <3>2 DEF OrderOf, Before
    <3> QED
      BY <1>1, <3>1, <3>2
  <2>2. CASE i - Len(queue) \in 1 .. Len(u) /\ way[i] = u[i - Len(queue)]
    <3> DEFINE a == i - Len(queue)
               b == j - Len(queue)
    <3>1. a \in 1 .. Len(u) /\ b \in 1 .. Len(u) /\ a < b /\ way[j] = u[b]
      BY <1>1, <1>4, <1>w, <2>2
    <3>2. way[i] = u[a]
      BY <2>2
    <3> HIDE DEF a, b
    <3>3. Rising(u, k)
      BY <1>o DEF OrderOf
    <3> QED
      BY <1>4, <3>1, <3>2, <3>3 DEF Rising
  <2> QED
    BY <1>1, <2>1, <2>2
<1>5. \A x : x \in Vals(queue, k) \cup Vals(u, k) =>
        \E i \in 1 .. Len(way) : Of(way[i], k) /\ x = way[i].val
  <2>1. ASSUME NEW i \in 1 .. Len(queue)
        PROVE  i \in 1 .. Len(way) /\ way[i] = queue[i]
    BY <1>w
  <2>2. ASSUME NEW i \in 1 .. Len(u)
        PROVE  i + Len(queue) \in 1 .. Len(way) /\ way[i + Len(queue)] = u[i]
    BY <1>w
  <2>3. ASSUME NEW x, x \in Vals(queue, k)
        PROVE  \E i \in 1 .. Len(way) : Of(way[i], k) /\ x = way[i].val
    BY <2>1, <2>3, ValsAre
  <2>4. ASSUME NEW x, x \in Vals(u, k)
        PROVE  \E i \in 1 .. Len(way) : Of(way[i], k) /\ x = way[i].val
    <3>1. PICK i \in 1 .. Len(u) : Of(u[i], k) /\ x = u[i].val
      BY <2>4, ValsAre
    <3> QED
      BY <2>2, <3>1
  <2> QED
    BY <2>3, <2>4
<1>6. ASSUME NEW i \in 1 .. Len(way), Of(way[i], k)
      PROVE  way[i].val \in Vals(queue, k) \cup Vals(u, k)
  BY <1>1, <1>6, ValsAre
<1>7. /\ s.root[k] \in {root[k]} \cup Vals(queue, k) \cup Vals(u, k)
      /\ \A x \in {root[k]} \cup Vals(queue, k) \cup Vals(u, k) : x <= s.root[k]
  BY DEF WInv, Shown, Shows, ToCome
<1> DEFINE shown == s.root[k]
<1> HIDE DEF own, way, u, s, Vals
<1>8. CASE own = {}
  <2>1. shown = root[k]
    BY <1>2, <1>5, <1>7, <1>8
  <2> QED
    BY <1>8, <2>1 DEF own, s
<1>9. CASE own # {}
  <2>1. PICK i \in 1 .. Len(way) : Of(way[i], k)
    BY <1>2, <1>9
  <2>2. shown # root[k]
    <3>1. way[i].val <= shown /\ root[k] < way[i].val /\ way[i].val \in Nat
      BY <1>3, <1>6, <1>7, <2>1
    <3> QED
      BY <1>t, <3>1
  <2>3. PICK j \in 1 .. Len(way) : Of(way[j], k) /\ shown = way[j].val
    BY <1>5, <1>7, <2>2
  <2>4. ASSUME NEW l \in own
        PROVE  j >= l
    <3>1. l \in 1 .. Len(way) /\ Of(way[l], k)
      BY <1>2
    <3>2. way[l].val <= way[j].val /\ way[l].val \in Nat /\ way[j].val \in Nat
      BY <1>3, <1>6, <1>7, <2>3, <3>1
    <3>3. ~(j < l)
      <4>1. j < l => way[j].val < way[l].val
        BY <1>4, <2>3, <3>1
      <4> QED
        BY <3>2, <4>1
    <3> QED
      BY <3>1, <3>3
  <2>5. j \in own
    BY <1>2, <2>3
  <2>6. Max(own) = j
    <3>1. Max(own) \in own /\ \A l \in own : Max(own) >= l
      BY <2>4, <2>5 DEF Max
    <3>2. Max(own) \in 1 .. Len(way)
      BY <1>2, <3>1
    <3> QED
      BY <2>4, <2>5, <3>1, <3>2
  <2> QED
    BY <1>9, <2>3, <2>6 DEF own, s, way
<1> QED
  BY <1>8, <1>9

\* The only writer of a path shows there, once its messages are in, the last of
\* its writes the database has yet to apply, and the database's value when there
\* is none (replica.ts:520, write.ts:43): where nobody calls reconnectClients, for
\* a replica told to reconnect while a write of its own waits does not.
THEOREM SoleWriterKeepsUp ==
  ASSUME MaxReconnects = 0
  PROVE  Spec => []SoleWriterFollows
<1>1. Init => WInv
  BY InitWInv
<1>2. WInv /\ [Next]_vars => WInv'
  BY StepWInv
<1>3. WInv => SoleWriterFollows
  BY LastIsShown DEF SoleWriterFollows, Follows
<1> QED
  BY <1>1, <1>2, <1>3, PTL DEF Spec
===============================================================================
