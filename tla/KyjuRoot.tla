------------------------------- MODULE KyjuRoot -------------------------------
(***************************************************************************)
(* Replication of the root document (packages/kyju/src/v2): sessions,      *)
(* optimistic root.set, acknowledgement, broadcast, reconnect and the loss *)
(* of a connection.                                                        *)
(*                                                                         *)
(* A replica (replica/replica.ts) applies its own write at once, sends it, *)
(* and awaits the ack.  The database (db/handlers) applies writes in the   *)
(* order rootMutex admits them, acks the writer and sends the write to     *)
(* every other session.  rootMutex is also held while the root cache is    *)
(* flushed (KyjuRootCache), so a write may have to queue while connects    *)
(* and disconnects overtake it.  The transport is a FIFO in each direction *)
(* (spec.md, "The transport must deliver events in order"); a message is a *)
(* macrotask of its own, so the fiber an ack resolves runs on before the   *)
(* next message is delivered.                                              *)
(*                                                                         *)
(* The root is a function from paths that do not overlap to the number of  *)
(* the write that set them.  A session id (nanoid) is the pair of the      *)
(* replica and its connect request.                                        *)
(***************************************************************************)
EXTENDS Naturals, Sequences, FiniteSets, SequencesExt

CONSTANTS Replicas,       \* replicas, each behind a connection of its own
          Keys,           \* paths of the root
          Writers,        \* which replica may set which path
          MaxWrites,      \* bound: root.set calls by the replicas' clients
          MaxCalls,       \* bound: a client calls connect or disconnect only
                          \* while its replica has sent fewer requests
          MaxReconnects,  \* bound: reconnectClients() calls
          MaxCloses       \* bound: connections lost

ASSUME WritersAssumption == Writers \subseteq Replicas \X Keys
ASSUME BoundsAssumption == /\ MaxWrites \in Nat
                           /\ MaxCalls \in Nat
                           /\ MaxReconnects \in Nat
                           /\ MaxCloses \in Nat

VARIABLES root,        \* the database's root, as the root cache answers it
          sessions,    \* sessionsRef: the session ids the database knows
          locked,      \* the flusher holds rootMutex
          queue,       \* validated writes waiting for rootMutex, in order
          state,       \* per replica: its ClientState
          awaiting,    \* per replica: requests its fibers await an ack for
          requests,    \* per replica: requests sent so far, writes excluded
          up, down,    \* per replica: messages to and from the database
          open,        \* replicas whose connection is open
          writes,      \* root.set calls so far
          reconnects   \* reconnectClients() calls so far

vars == <<root, sessions, locked, queue, state, awaiting, requests, up, down,
          open, writes, reconnects>>
dbVars == <<root, sessions, locked, queue>>

Values == 0 .. MaxWrites
Sids == Replicas \X Nat
Roots == [Keys -> Values]
Disconnected == [kind |-> "disconnected"]
Connected(sid, r) == [kind |-> "connected", sid |-> sid, root |-> r]

\* What a fiber does when its ack comes: `then` names the branch of
\* replica.postMessage, rcDisconnect being the first half of "reconnect".
\* A write is identified by its number, any other request by its own counter.
Awaits == [then : {"connect", "disconnect", "rcDisconnect", "write"}, req : Nat]

WriteMessages == [kind : {"write"}, sid : Sids, key : Keys, val : Values]

UpMessages ==
  WriteMessages
    \cup [kind : {"connect"}, await : Awaits]
    \cup [kind : {"disconnect"}, await : Awaits, sid : Sids]

DownMessages ==
  [kind : {"ack"}, await : Awaits, ok : BOOLEAN]
    \cup [kind : {"connected"}, await : Awaits, sid : Sids, root : Roots]
    \cup [kind : {"replicated"}, key : Keys, val : Values]
    \cup [kind : {"reconnect"}]

TypeOK ==
  /\ root \in Roots
  /\ sessions \in SUBSET Sids
  /\ locked \in BOOLEAN
  /\ queue \in Seq(WriteMessages)
  /\ state \in [Replicas ->
       {Disconnected} \cup [kind : {"connected"}, sid : Sids, root : Roots]]
  /\ awaiting \in [Replicas -> SUBSET Awaits]
  /\ requests \in [Replicas -> Nat]
  /\ up \in [Replicas -> Seq(UpMessages)]
  /\ down \in [Replicas -> Seq(DownMessages)]
  /\ open \in SUBSET Replicas
  /\ writes \in Values
  /\ reconnects \in 0 .. MaxReconnects

Init ==
  /\ root = [k \in Keys |-> 0]
  /\ sessions = {}
  /\ locked = FALSE
  /\ queue = <<>>
  /\ state = [r \in Replicas |-> Disconnected]
  /\ awaiting = [r \in Replicas |-> {}]
  /\ requests = [r \in Replicas |-> 0]
  /\ up = [r \in Replicas |-> <<>>]
  /\ down = [r \in Replicas |-> <<>>]
  /\ open = Replicas
  /\ writes = 0
  /\ reconnects = 0

------------------------------------------------------------------------------
(* The replica's calls *)

IsConnected(r) == state[r].kind = "connected"

\* A closed socket swallows what is sent on it.
Send(r, m) == up' = IF r \in open THEN [up EXCEPT ![r] = Append(@, m)] ELSE up

\* sendToServer: register with the awaiter, then send.
Request(r, then, m(_)) ==
  LET a == [then |-> then, req |-> requests[r] + 1]
  IN  /\ requests' = [requests EXCEPT ![r] = @ + 1]
      /\ awaiting' = [awaiting EXCEPT ![r] = @ \cup {a}]
      /\ Send(r, m(a))

ConnectMessage(a) == [kind |-> "connect", await |-> a]
DisconnectMessage(sid, a) == [kind |-> "disconnect", await |-> a, sid |-> sid]

\* connectReplica posts "connect" to a fresh replica, once, on an open socket.
Connect(r) ==
  /\ r \in open
  /\ ~IsConnected(r)
  /\ awaiting[r] = {}
  /\ requests[r] < MaxCalls
  /\ Request(r, "connect", ConnectMessage)
  /\ UNCHANGED <<dbVars, state, down, open, writes, reconnects>>

\* The client posts "disconnect"; its state stays connected until the ack.
Disconnect(r) ==
  /\ IsConnected(r)
  /\ requests[r] < MaxCalls
  /\ LET m(a) == DisconnectMessage(state[r].sid, a)
     IN  Request(r, "disconnect", m)
  /\ UNCHANGED <<dbVars, state, down, open, writes, reconnects>>

\* The client posts a root.set: applied locally, then sent and awaited.
Write(r, k) ==
  /\ <<r, k>> \in Writers
  /\ IsConnected(r)
  /\ writes < MaxWrites
  /\ writes' = writes + 1
  /\ state' = [state EXCEPT ![r].root[k] = writes + 1]
  /\ awaiting' = [awaiting EXCEPT ![r] =
                    @ \cup {[then |-> "write", req |-> writes + 1]}]
  /\ Send(r, [kind |-> "write", sid |-> state[r].sid,
              key |-> k, val |-> writes + 1])
  /\ UNCHANGED <<dbVars, requests, down, open, reconnects>>

------------------------------------------------------------------------------
(* The replica's handlers *)

\* The effect on a ClientState of delivering m.
Deliver(s, m) ==
  CASE m.kind = "connected" -> Connected(m.sid, m.root)
    [] m.kind = "ack" /\ m.ok /\ m.await.then \in {"disconnect", "rcDisconnect"}
         -> Disconnected
    [] m.kind = "replicated" /\ s.kind = "connected"
         -> [s EXCEPT !.root[m.key] = m.val]
    [] OTHER -> s

Pop(r) == down' = [down EXCEPT ![r] = Tail(@)]

\* An ack resolves its fiber, which runs on: the second half of connect,
\* disconnect and write.  A negative ack fails the fiber and changes nothing.
ReceiveAck(r) ==
  /\ down[r] # <<>>
  /\ LET m == Head(down[r])
     IN  /\ m.kind \in {"ack", "connected"}
         /\ m.await.then = "rcDisconnect" => ~m.ok
         /\ awaiting' = [awaiting EXCEPT ![r] = @ \ {m.await}]
         /\ state' = [state EXCEPT ![r] = Deliver(@, m)]
  /\ Pop(r)
  /\ UNCHANGED <<dbVars, requests, up, open, writes, reconnects>>

\* "reconnect", second part: disconnected, and a connect is sent at once.
ReceiveReconnectAck(r) ==
  /\ down[r] # <<>>
  /\ LET m == Head(down[r])
         a == [then |-> "connect", req |-> requests[r] + 1]
     IN  /\ m.kind = "ack" /\ m.ok /\ m.await.then = "rcDisconnect"
         /\ state' = [state EXCEPT ![r] = Deliver(@, m)]
         /\ requests' = [requests EXCEPT ![r] = @ + 1]
         /\ awaiting' = [awaiting EXCEPT ![r] = (@ \ {m.await}) \cup {a}]
         /\ Send(r, ConnectMessage(a))
  /\ Pop(r)
  /\ UNCHANGED <<dbVars, open, writes, reconnects>>

\* A replicated write; on a disconnected replica requireConnected dies and the
\* write is lost.
ReceiveReplicated(r) ==
  /\ down[r] # <<>>
  /\ Head(down[r]).kind = "replicated"
  /\ state' = [state EXCEPT ![r] = Deliver(@, Head(down[r]))]
  /\ Pop(r)
  /\ UNCHANGED <<dbVars, awaiting, requests, up, open, writes, reconnects>>

\* Mutation: "reconnect" connects again without giving up the session.
ReceiveReconnect_NoDisconnect(r) ==
  /\ down[r] # <<>>
  /\ Head(down[r]).kind = "reconnect"
  /\ IF IsConnected(r)
     THEN Request(r, "connect", ConnectMessage)
     ELSE UNCHANGED <<requests, awaiting, up>>
  /\ Pop(r)
  /\ UNCHANGED <<dbVars, state, open, writes, reconnects>>

\* "reconnect", first part: give up the session; dies when disconnected.
ReceiveReconnect(r) ==
  /\ down[r] # <<>>
  /\ Head(down[r]).kind = "reconnect"
  /\ IF IsConnected(r)
     THEN LET m(a) == DisconnectMessage(state[r].sid, a)
          IN  Request(r, "rcDisconnect", m)
     ELSE UNCHANGED <<requests, awaiting, up>>
  /\ Pop(r)
  /\ UNCHANGED <<dbVars, state, open, writes, reconnects>>

------------------------------------------------------------------------------
(* The database *)

\* The router hands a message to the replica's connection if it is still there.
Post(out) ==
  down' = [q \in Replicas |-> IF q \in open THEN down[q] \o out[q] ELSE down[q]]

Only(r, m) == [q \in Replicas |-> IF q = r THEN <<m>> ELSE <<>>]

\* Messages are handled as they come, each up to its first real wait; fibers
\* woken by rootMutex run before the next message arrives.
Arrives(r, kind) ==
  /\ locked \/ queue = <<>>
  /\ up[r] # <<>>
  /\ Head(up[r]).kind = kind
  /\ up' = [up EXCEPT ![r] = Tail(@)]

\* Mutation: the connecting replica gets a root that has not seen the writes
\* still to be flushed.
DbConnect_FromDisk(r) ==
  /\ Arrives(r, "connect")
  /\ LET a == Head(up[r]).await
         sid == <<r, a.req>>
     IN  /\ sessions' = sessions \cup {sid}
         /\ Post(Only(r, [kind |-> "connected", await |-> a, sid |-> sid,
                          root |-> [k \in Keys |-> 0]]))
  /\ UNCHANGED <<root, locked, queue, state, awaiting, requests, open, writes,
                 reconnects>>

\* handleConnect: read the cache, register the session, ack with the root.
DbConnect(r) ==
  /\ Arrives(r, "connect")
  /\ LET a == Head(up[r]).await
         sid == <<r, a.req>>
     IN  /\ sessions' = sessions \cup {sid}
         /\ Post(Only(r, [kind |-> "connected", await |-> a,
                          sid |-> sid, root |-> root]))
  /\ UNCHANGED <<root, locked, queue, state, awaiting, requests, open, writes,
                 reconnects>>

\* Mutation: the session is forgotten before it is validated.
DbDisconnect_NoAck(r) ==
  /\ Arrives(r, "disconnect")
  /\ LET m == Head(up[r])
     IN  /\ sessions' = sessions \ {m.sid}
         /\ IF m.sid \in sessions
            THEN Post(Only(r, [kind |-> "ack", await |-> m.await, ok |-> TRUE]))
            ELSE UNCHANGED down
  /\ UNCHANGED <<root, locked, queue, state, awaiting, requests, open, writes,
                 reconnects>>

\* handleDisconnect: an unknown session is answered with an error.
DbDisconnect(r) ==
  /\ Arrives(r, "disconnect")
  /\ LET m == Head(up[r])
     IN  /\ sessions' = sessions \ {m.sid}
         /\ Post(Only(r, [kind |-> "ack", await |-> m.await,
                          ok |-> m.sid \in sessions]))
  /\ UNCHANGED <<root, locked, queue, state, awaiting, requests, open, writes,
                 reconnects>>

WriteAck(w, ok) ==
  [kind |-> "ack", await |-> [then |-> "write", req |-> w.val], ok |-> ok]

\* Mutation: the write is broadcast to its own session as well.
ApplyWrite_Echoes(w) ==
  /\ root' = [root EXCEPT ![w.key] = w.val]
  /\ LET replicated == [kind |-> "replicated", key |-> w.key, val |-> w.val]
         all(q) == {s \in sessions : s[1] = q}
     IN  Post([q \in Replicas |->
           (IF q = w.sid[1] THEN <<WriteAck(w, TRUE)>> ELSE <<>>)
             \o [i \in 1 .. Cardinality(all(q)) |-> replicated]])

\* Mutation: the broadcast ends, where it should go on, at the writer's session.
ApplyWrite_EndsAtWriter(w) ==
  /\ root' = [root EXCEPT ![w.key] = w.val]
  /\ Post([q \in Replicas |->
       IF q = w.sid[1] THEN <<WriteAck(w, TRUE)>> ELSE <<>>])

\* The critical section, then the ack, then broadcastWrite to every session but
\* the writer's: w.sid is the session the write was sent under.
ApplyWrite(w) ==
  /\ root' = [root EXCEPT ![w.key] = w.val]
  /\ LET replicated == [kind |-> "replicated", key |-> w.key, val |-> w.val]
         others(q) == {s \in sessions : s[1] = q /\ s # w.sid}
     IN  Post([q \in Replicas |->
           (IF q = w.sid[1] THEN <<WriteAck(w, TRUE)>> ELSE <<>>)
             \o [i \in 1 .. Cardinality(others(q)) |-> replicated]])

\* Mutation: only the first write waits for rootMutex.
DbWrite_Overtakes(r) ==
  /\ Arrives(r, "write")
  /\ LET w == Head(up[r])
     IN  IF w.sid \notin sessions
         THEN /\ Post(Only(r, WriteAck(w, FALSE)))
              /\ UNCHANGED <<root, queue>>
         ELSE IF locked /\ queue = <<>>
         THEN queue' = Append(queue, w) /\ UNCHANGED <<root, down>>
         ELSE ApplyWrite(w) /\ UNCHANGED queue
  /\ UNCHANGED <<sessions, locked, state, awaiting, requests, open, writes,
                 reconnects>>

\* handleWrite, root.set: validateSession, then rootMutex.
DbWrite(r) ==
  /\ Arrives(r, "write")
  /\ LET w == Head(up[r])
     IN  IF w.sid \notin sessions
         THEN /\ Post(Only(r, WriteAck(w, FALSE)))
              /\ UNCHANGED <<root, queue>>
         ELSE IF locked
         THEN queue' = Append(queue, w) /\ UNCHANGED <<root, down>>
         ELSE ApplyWrite(w) /\ UNCHANGED queue
  /\ UNCHANGED <<sessions, locked, state, awaiting, requests, open, writes,
                 reconnects>>

\* rootMutex passes to the write that has waited longest.
DbGrant ==
  /\ ~locked
  /\ queue # <<>>
  /\ ApplyWrite(Head(queue))
  /\ queue' = Tail(queue)
  /\ UNCHANGED <<sessions, locked, state, awaiting, requests, up, open, writes,
                 reconnects>>

\* The root cache's runner takes and returns rootMutex (KyjuRootCache); there
\* is something to flush only after a write.
FlushTakes ==
  /\ ~locked
  /\ \E k \in Keys : root[k] # 0
  /\ locked' = TRUE
  /\ UNCHANGED <<root, sessions, queue, state, awaiting, requests, up, down,
                 open, writes, reconnects>>

FlushReturns ==
  /\ locked
  /\ locked' = FALSE
  /\ UNCHANGED <<root, sessions, queue, state, awaiting, requests, up, down,
                 open, writes, reconnects>>

\* Db.reconnectClients: broadcast to every session.
ReconnectClients ==
  /\ reconnects < MaxReconnects
  /\ reconnects' = reconnects + 1
  /\ LET of(q) == {s \in sessions : s[1] = q}
     IN  Post([q \in Replicas |->
           [i \in 1 .. Cardinality(of(q)) |-> [kind |-> "reconnect"]]])
  /\ UNCHANGED <<dbVars, state, awaiting, requests, up, open, writes>>

------------------------------------------------------------------------------
\* The socket closes: the database gets some prefix of what was on its way, the
\* replica nothing more.  close() forgets the route; the session stays.
Close(r) ==
  /\ r \in open
  /\ Cardinality(Replicas \ open) < MaxCloses
  /\ open' = open \ {r}
  /\ \E n \in 0 .. Len(up[r]) : up' = [up EXCEPT ![r] = SubSeq(@, 1, n)]
  /\ down' = [down EXCEPT ![r] = <<>>]
  /\ UNCHANGED <<dbVars, state, awaiting, requests, writes, reconnects>>

------------------------------------------------------------------------------
Receive(r) == \/ ReceiveAck(r)
              \/ ReceiveReconnectAck(r)
              \/ ReceiveReplicated(r)
              \/ ReceiveReconnect(r)

DbHandle(r) == DbConnect(r) \/ DbDisconnect(r) \/ DbWrite(r)

Next ==
  \/ \E r \in Replicas : \/ Connect(r)
                         \/ Disconnect(r)
                         \/ \E k \in Keys : Write(r, k)
                         \/ Receive(r)
                         \/ DbHandle(r)
                         \/ Close(r)
  \/ DbGrant
  \/ FlushTakes
  \/ FlushReturns
  \/ ReconnectClients

Spec == Init /\ [][Next]_vars

\* Messages in a channel are delivered, the flusher's file operations end, and
\* a waiting write gets the mutex although flushes may take it in between.
Fairness ==
  /\ \A r \in Replicas : WF_vars(Receive(r)) /\ SF_vars(DbHandle(r))
  /\ SF_vars(DbGrant)
  /\ WF_vars(FlushReturns)

FairSpec == Spec /\ Fairness

------------------------------------------------------------------------------
(* Properties *)

\* What a ClientState becomes when the messages are delivered one by one.
Delivered(s, messages) ==
  LET after[n \in 0 .. Len(messages)] ==
        IF n = 0 THEN s ELSE Deliver(after[n - 1], messages[n])
  IN  after[Len(messages)]

\* What a replica's state becomes once everything on its way is delivered.
Settled(r) == Delivered(state[r], down[r])

SessionsOf(r) == {s \in sessions : s[1] = r}

\* Messages on their way to r that will begin or end a session.
Turns(m) == \/ m.kind = "connected"
            \/ m.kind = "ack" /\ m.ok /\ m.await.then \in {"disconnect", "rcDisconnect"}

Turning(r) == {i \in DOMAIN down[r] : Turns(down[r][i])}

\* The session, if any, that r will be in once its messages are delivered.
SessionAhead(r) ==
  IF Turning(r) = {}
  THEN IF IsConnected(r) THEN {state[r].sid} ELSE {}
  ELSE {down[r][i].sid : i \in {i \in Turning(r) :
                                 /\ down[r][i].kind = "connected"
                                 /\ \A j \in Turning(r) : j <= i}}

\* Both ends agree on the session: the database knows exactly the session that
\* an open replica will find itself in when its messages are in, whatever
\* disconnects, reconnects and failed second disconnects raced before.
SessionsAgree == \A r \in open : SessionsOf(r) = SessionAhead(r)

\* What the database has yet to apply of what r sent, in the order it will.
OnWay(r) == queue \o up[r]

\* Where among it are the writes of path k in session sid.
Outstanding(r, sid, k) ==
  {i \in DOMAIN OnWay(r) : LET m == OnWay(r)[i]
                           IN  m.kind = "write" /\ m.sid = sid /\ m.key = k}

\* Once its messages are in, r shows at k what the database holds, or its own
\* latest write if the database has not seen it yet.
Follows(r, k) ==
  LET s == Settled(r)
  IN  s.kind = "connected" =>
        LET own == Outstanding(r, s.sid, k)
        IN  s.root[k] = IF own = {} THEN root[k] ELSE OnWay(r)[Max(own)].val

WritersOf(k) == {r \in Replicas : <<r, k>> \in Writers}

\* A replica that does not itself write k is never left behind at k, however
\* many others write it and whatever sessions begin and end meanwhile.
ReadersFollow ==
  \A r \in open, k \in Keys : r \notin WritersOf(k) => Follows(r, k)

\* The only writer of k keeps its optimistic value and ends level with the
\* database.
SoleWriterFollows ==
  \A r \in open, k \in Keys : WritersOf(k) = {r} => Follows(r, k)

\* Where a path has one writer the database takes its writes in the order they
\* were made, although rootMutex makes some of them wait.
WritesInOrder ==
  [][\A k \in Keys :
       (\E r \in Replicas : WritersOf(k) = {r}) => root'[k] >= root[k]]_vars

Quiet == /\ queue = <<>>
         /\ \A r \in Replicas : up[r] = <<>> /\ down[r] = <<>>

\* "concurrent root.set - last writer wins, both replicas converge"
\* (replica.test.ts:65) and "All writes are eventually consistent"
\* (spec.md:3): with nothing on its way every connected replica shows the
\* database's root.
Converged ==
  Quiet => \A r \in open : IsConnected(r) => state[r].root = root

\* Left alone, the open replicas come to show the database's root and keep it.
EventuallyConsistent ==
  <>[](\A r \in open : IsConnected(r) => state[r].root = root)

\* Every request of a replica whose connection stays open is answered.
Answered ==
  \A r \in Replicas :
    (awaiting[r] # {}) ~> (awaiting[r] = {} \/ r \notin open)
===============================================================================
