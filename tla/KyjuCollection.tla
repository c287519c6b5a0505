---------------------------- MODULE KyjuCollection ----------------------------
(***************************************************************************)
(* Replication of one collection (packages/kyju/src/v2): subscribe,        *)
(* unsubscribe, collection.concat, collection.read and collection.delete.  *)
(*                                                                         *)
(* The database keeps a collection as pages of items and serialises        *)
(* subscribe, concat, read and delete by collectionMutex, each of which    *)
(* waits for files while it holds the mutex; unsubscribe does not take it. *)
(* A replica applies its own concat and delete at once and is left out of  *)
(* their broadcast.  Every replica keeps the one session it has connected  *)
(* with (KyjuRoot is about sessions); the collection exists from the start,*)
(* as createDb makes those of the schema.                                  *)
(*                                                                         *)
(* Items are the numbers of the concats that appended them, a page's size  *)
(* in bytes is the number of its items.  Acknowledgements that change      *)
(* nothing at the replica are left out.                                    *)
(***************************************************************************)
EXTENDS Naturals, Sequences, FiniteSets, SequencesExt

CONSTANTS Replicas,      \* connected replicas
          Writers,       \* those whose clients concat and delete
          PageSize,      \* maxPageSize
          BatchSizes,    \* items a concat may carry
          Referenced,    \* checkReferences is on and the root refers to it
          Overlapping,   \* a client makes calls while its own subscribe or
                         \* unsubscribe is on its way
          MaxConcats,    \* bound: concats
          MaxCalls,      \* bound: subscribe and unsubscribe calls
          MaxReads,      \* bound: collection.read calls
          MaxDeletes     \* bound: collection.delete calls

ASSUME WritersAssumption == Writers \subseteq Replicas
ASSUME BoundsAssumption == /\ PageSize \in Nat \ {0}
                           /\ BatchSizes \subseteq Nat
                           /\ {Referenced, Overlapping} \subseteq BOOLEAN
                           /\ {MaxConcats, MaxCalls, MaxReads, MaxDeletes}
                                \subseteq Nat

VARIABLES store,       \* the collection's directory: [made, pages], made being
                       \* how often it was created and pages <<>> if it is gone
          subscribed,  \* replicas whose session is subscribed
          queue,       \* jobs for collectionMutex, the first one holding it ...
          phase,       \* ... once it is not "waiting" any more
          coll,        \* per replica: its ClientCollection; not `held`
                        \* if state.collections has no entry for it
          wants,       \* per replica: its client has subscribers
          up, down,    \* per replica: messages to and from the database
          concats, calls, reads, deletes   \* calls made so far

vars == <<store, subscribed, queue, phase, coll, wants, up, down,
          concats, calls, reads, deletes>>
dbVars == <<store, subscribed, queue, phase>>
counters == <<concats, calls, reads, deletes>>

None == [held |-> FALSE, pages |-> <<>>, count |-> 0]
Exists == store.pages # <<>>
Log == FlattenSeq(store.pages)             \* the items, in the database's order
ItemsOf(pages) == FlattenSeq([i \in DOMAIN pages |-> pages[i].items])
Shown(c) == ItemsOf(c.pages)

Items == 1 .. MaxConcats
PageIds == (Nat \X Nat) \cup {<<>>}        \* <<>>: a page the replica made up
Pages == [id : PageIds, size : Nat, items : Seq(Items)]
Calls ==
  [kind : {"subscribe", "unsubscribe", "delete"}, from : Replicas]
    \cup [kind : {"concat"}, from : Replicas, items : Seq(Items)]
    \cup [kind : {"read"}, from : Replicas, first : Nat \ {0}, last : Nat]
Messages ==
  [kind : {"subscribed", "read"}, pages : Seq(Pages)]
    \cup [kind : {"unsubscribed", "deleted"}]
    \cup [kind : {"concat"}, items : Seq(Items), start : Nat]
    \cup [kind : {"metadata"}, id : PageIds, size : Nat]

TypeOK ==
  /\ store \in [made : Nat, pages : Seq(Seq(Items))]
  /\ subscribed \in SUBSET Replicas
  /\ queue \in Seq(Calls)
  /\ phase \in {"waiting", "opening", "reading"}
  /\ coll \in [Replicas -> [held : BOOLEAN, pages : Seq(Pages), count : Nat]]
  /\ wants \in [Replicas -> BOOLEAN]
  /\ up \in [Replicas -> Seq(Calls)]
  /\ down \in [Replicas -> Seq(Messages)]
  /\ concats \in 0 .. MaxConcats
  /\ calls \in 0 .. MaxCalls
  /\ reads \in 0 .. MaxReads
  /\ deletes \in 0 .. MaxDeletes

Init ==
  /\ store \in {[made |-> 0, pages |-> <<>>], [made |-> 1, pages |-> <<<<>>>>]}
  /\ subscribed = {}
  /\ queue = <<>>
  /\ phase = "waiting"
  /\ coll = [r \in Replicas |-> None]
  /\ wants = [r \in Replicas |-> FALSE]
  /\ up = [r \in Replicas |-> <<>>]
  /\ down = [r \in Replicas |-> <<>>]
  /\ concats = 0
  /\ calls = 0
  /\ reads = 0
  /\ deletes = 0

------------------------------------------------------------------------------
(* The replica's copy *)

\* Mutation: a page that is full is replaced by the one that follows it.
ConcatTo_Replaces(c, items) ==
  IF items = <<>> \/ c.pages = <<>> THEN c
  ELSE LET n == Len(c.pages)
           pages == IF c.pages[n].size >= PageSize
                    THEN [c.pages EXCEPT ![n] =
                            [id |-> <<>>, size |-> 0, items |-> items]]
                    ELSE [c.pages EXCEPT ![n].items = @ \o items]
       IN  [c EXCEPT !.pages = pages, !.count = @ + Len(items)]

\* concatToCollection: a full last page is followed by a page with an id of the
\* replica's own, whose size nobody will ever update.
ConcatTo(c, items) ==
  IF items = <<>> \/ c.pages = <<>> THEN c
  ELSE LET n == Len(c.pages)
           pages == IF c.pages[n].size >= PageSize
                    THEN Append(c.pages,
                                [id |-> <<>>, size |-> 0, items |-> items])
                    ELSE [c.pages EXCEPT ![n].items = @ \o items]
       IN  [c EXCEPT !.pages = pages, !.count = @ + Len(items)]

AtLeast(n, m) == IF n >= m THEN n ELSE m

\* A replicated concat; totalCount trusts the authority's start index.
Replicate(c, m) ==
  IF ~c.held THEN c
  ELSE LET d == ConcatTo(c, m.items)
       IN  [d EXCEPT !.count = AtLeast(@, m.start + Len(m.items))]

CountItems(pages) == Len(ItemsOf(pages))

\* Mutation: the pages of a collection.read are taken for new ones.
MergePage_AsNew(pages, p) == Append(pages, p)

\* Pages of a collection.read replace the copies of the same id, others go last.
MergePage(pages, p) ==
  IF \E i \in DOMAIN pages : pages[i].id = p.id
  THEN [i \in DOMAIN pages |-> IF pages[i].id = p.id THEN p ELSE pages[i]]
  ELSE Append(pages, p)

MergePages(pages, others) ==
  LET after[n \in 0 .. Len(others)] ==
        IF n = 0 THEN pages ELSE MergePage(after[n - 1], others[n])
  IN  after[Len(others)]

MergeRead(c, pages) ==
  LET merged == MergePages(c.pages, pages)
  IN  [held |-> TRUE, pages |-> merged,
       count |-> IF c.held THEN c.count ELSE CountItems(merged)]

Resize(c, id, size) ==
  [c EXCEPT !.pages = [i \in DOMAIN @ |->
     IF @[i].id = id THEN [@[i] EXCEPT !.size = size] ELSE @[i]]]

\* Mutation: an unsubscribe leaves the entry behind.
Deliver_KeepsEntry(c, m) ==
  CASE m.kind = "subscribed" ->
         [held |-> TRUE, pages |-> m.pages, count |-> CountItems(m.pages)]
    [] m.kind = "read" -> MergeRead(c, m.pages)
    [] m.kind = "concat" -> Replicate(c, m)
    [] m.kind = "metadata" -> Resize(c, m.id, m.size)
    [] OTHER -> c

\* The effect of a message, or of the ack a fiber was waiting for.
Deliver(c, m) ==
  CASE m.kind = "subscribed" ->
         [held |-> TRUE, pages |-> m.pages, count |-> CountItems(m.pages)]
    [] m.kind = "read" -> MergeRead(c, m.pages)
    [] m.kind = "concat" -> Replicate(c, m)
    [] m.kind = "metadata" -> Resize(c, m.id, m.size)
    [] OTHER -> None

Receive(r) ==
  /\ down[r] # <<>>
  /\ coll' = [coll EXCEPT ![r] = Deliver(@, Head(down[r]))]
  /\ down' = [down EXCEPT ![r] = Tail(@)]
  /\ UNCHANGED <<dbVars, wants, up, counters>>

------------------------------------------------------------------------------
(* The client's calls *)

Send(r, m) == up' = [up EXCEPT ![r] = Append(@, m)]

\* r has sent a call of one of these kinds and has not seen the answer.
Underway(r, kinds, answers) ==
  \/ \E i \in DOMAIN up[r] : up[r][i].kind \in kinds
  \/ \E i \in DOMAIN queue : queue[i].from = r /\ queue[i].kind \in kinds
  \/ \E i \in DOMAIN down[r] : down[r][i].kind \in answers

MayCall(r) ==
  Overlapping \/ ~Underway(r, {"subscribe", "unsubscribe"},
                              {"subscribed", "unsubscribed"})

\* The first subscriber of the client (subscribeData with no other active).
Subscribe(r) ==
  /\ ~wants[r]
  /\ calls < MaxCalls
  /\ MayCall(r)
  /\ calls' = calls + 1
  /\ wants' = [wants EXCEPT ![r] = TRUE]
  /\ Send(r, [kind |-> "subscribe", from |-> r])
  /\ UNCHANGED <<dbVars, coll, down, concats, reads, deletes>>

\* The last subscriber of the client goes.
Unsubscribe(r) ==
  /\ wants[r]
  /\ calls < MaxCalls
  /\ MayCall(r)
  /\ calls' = calls + 1
  /\ wants' = [wants EXCEPT ![r] = FALSE]
  /\ Send(r, [kind |-> "unsubscribe", from |-> r])
  /\ UNCHANGED <<dbVars, coll, down, concats, reads, deletes>>

\* collection.concat: applied to the copy at once, then sent.
Concat(r, n) ==
  LET items == [i \in 1 .. n |-> concats + 1]
  IN  /\ r \in Writers
      /\ concats < MaxConcats
      /\ MayCall(r)
      /\ concats' = concats + 1
      /\ coll' = [coll EXCEPT ![r] = ConcatTo(@, items)]
      /\ Send(r, [kind |-> "concat", from |-> r, items |-> items])
      /\ UNCHANGED <<dbVars, wants, down, calls, reads, deletes>>

\* collection.read of a range of pages.
Read(r, first, last) ==
  /\ reads < MaxReads
  /\ MayCall(r)
  /\ reads' = reads + 1
  /\ Send(r, [kind |-> "read", from |-> r, first |-> first, last |-> last])
  /\ UNCHANGED <<dbVars, coll, wants, down, concats, calls, deletes>>

\* collection.delete: the copy goes at once.
Delete(r) ==
  /\ r \in Writers
  /\ deletes < MaxDeletes
  /\ deletes' = deletes + 1
  /\ coll' = [coll EXCEPT ![r] = None]
  /\ Send(r, [kind |-> "delete", from |-> r])
  /\ UNCHANGED <<dbVars, wants, down, concats, calls, reads>>

------------------------------------------------------------------------------
(* The database *)

\* A message is handled as it comes, up to its first wait; a job that gets the
\* mutex goes on before the next message arrives.
Arrives(r) ==
  /\ phase # "waiting" \/ queue = <<>>
  /\ up[r] # <<>>
  /\ up' = [up EXCEPT ![r] = Tail(@)]

\* handleUnsubscribe takes no mutex.
DbUnsubscribe(r) ==
  /\ Arrives(r)
  /\ Head(up[r]).kind = "unsubscribe"
  /\ subscribed' = subscribed \ {r}
  /\ down' = [down EXCEPT ![r] = Append(@, [kind |-> "unsubscribed"])]
  /\ UNCHANGED <<store, queue, phase, coll, wants, counters>>

\* Any other handler: collectionMutex.withPermits(1).
DbEnqueue(r) ==
  /\ Arrives(r)
  /\ Head(up[r]).kind # "unsubscribe"
  /\ queue' = Append(queue, Head(up[r]))
  /\ UNCHANGED <<store, subscribed, phase, coll, wants, down, counters>>

DbGrant ==
  /\ phase = "waiting"
  /\ queue # <<>>
  /\ phase' = "opening"
  /\ UNCHANGED <<store, subscribed, queue, coll, wants, up, down, counters>>

\* The job at the head is of this kind and has come this far.
Running(kind, ph) == phase = ph /\ Head(queue).kind = kind
Done == phase' = "waiting" /\ queue' = Tail(queue)

Recreated == IF Exists THEN store
             ELSE [made |-> store.made + 1, pages |-> <<<<>>>>]

\* handleSubscribe: the collection is created if need be, then subscribed to ...
DbSubscribeAdds ==
  /\ Running("subscribe", "opening")
  /\ store' = Recreated
  /\ subscribed' = subscribed \cup {Head(queue).from}
  /\ phase' = "reading"
  /\ UNCHANGED <<queue, coll, wants, up, down, counters>>

\* The pages first to last in order, as an answer.
Snapshot(first, last) ==
  LET n == Len(store.pages)
      page(i) == [id |-> <<store.made, i>>, size |-> Len(store.pages[i]),
                  items |-> store.pages[i]]
      all == [i \in 1 .. n |-> page(i)]
  IN  SubSeq(all, first, IF last < n THEN last ELSE n)

\* ... and its pages are read and sent: all of them, in their order, where
\* spec.md:128 has a subscribe without pageIds return the last one only.
DbSubscribeAnswers ==
  /\ Running("subscribe", "reading")
  /\ down' = [down EXCEPT ![Head(queue).from] =
       Append(@, [kind |-> "subscribed",
                  pages |-> Snapshot(1, Len(store.pages))])]
  /\ Done
  /\ UNCHANGED <<store, subscribed, coll, wants, up, counters>>

DbRead ==
  /\ Running("read", "opening")
  /\ LET job == Head(queue)
     IN  down' = IF Exists
                 THEN [down EXCEPT ![job.from] =
                        Append(@, [kind |-> "read",
                                   pages |-> Snapshot(job.first, job.last)])]
                 ELSE down
  /\ Done
  /\ UNCHANGED <<store, subscribed, coll, wants, up, counters>>

Broadcast(out(_)) ==
  down' = [r \in Replicas |->
             IF r \in subscribed THEN down[r] \o out(r) ELSE down[r]]

\* Nothing to append: acked at once.
DbConcatNothing ==
  /\ Running("concat", "opening")
  /\ Head(queue).items = <<>>
  /\ Done
  /\ UNCHANGED <<store, subscribed, coll, wants, up, down, counters>>

\* Appended to the active page, or to a new one if that is full; the writer is
\* left out of the broadcast, not of the metadata update.
DbConcat ==
  /\ Running("concat", "opening")
  /\ Head(queue).items # <<>>
  /\ LET job    == Head(queue)
         before == Recreated.pages
         n      == Len(before)
         pages  == IF Len(before[n]) >= PageSize
                   THEN Append(before, job.items)
                   ELSE [before EXCEPT ![n] = @ \o job.items]
         concat == [kind |-> "concat", items |-> job.items, start |-> Len(Log)]
         update == [kind |-> "metadata",
                    id |-> <<Recreated.made, Len(pages)>>,
                    size |-> Len(Last(pages))]
     IN  /\ store' = [Recreated EXCEPT !.pages = pages]
         /\ Broadcast(LAMBDA r : IF r = job.from THEN <<update>>
                                 ELSE <<concat, update>>)
  /\ Done
  /\ UNCHANGED <<subscribed, coll, wants, up, counters>>

\* NotFoundError or ReferenceExistsError.
DbDeleteFails ==
  /\ Running("delete", "opening")
  /\ ~Exists \/ Referenced
  /\ Done
  /\ UNCHANGED <<store, subscribed, coll, wants, up, down, counters>>

\* Mutation: the sessions stay subscribed to what is gone.
DbDelete_KeepsSubscriptions ==
  /\ Running("delete", "opening")
  /\ Exists /\ ~Referenced
  /\ store' = [store EXCEPT !.pages = <<>>]
  /\ Broadcast(LAMBDA r : IF r = Head(queue).from THEN <<>>
                          ELSE <<[kind |-> "deleted"]>>)
  /\ Done
  /\ UNCHANGED <<subscribed, coll, wants, up, counters>>

\* The directory goes, the subscribers are told and are none any more.
DbDelete ==
  /\ Running("delete", "opening")
  /\ Exists /\ ~Referenced
  /\ store' = [store EXCEPT !.pages = <<>>]
  /\ Broadcast(LAMBDA r : IF r = Head(queue).from THEN <<>>
                          ELSE <<[kind |-> "deleted"]>>)
  /\ subscribed' = {}
  /\ Done
  /\ UNCHANGED <<coll, wants, up, counters>>

------------------------------------------------------------------------------
Job == DbSubscribeAdds \/ DbSubscribeAnswers \/ DbRead
         \/ DbConcatNothing \/ DbConcat \/ DbDeleteFails \/ DbDelete

Handle(r) == DbUnsubscribe(r) \/ DbEnqueue(r)

Next ==
  \/ \E r \in Replicas :
       \/ Subscribe(r)
       \/ Unsubscribe(r)
       \/ \E n \in BatchSizes : Concat(r, n)
       \/ \E first, last \in 1 .. MaxConcats + 1 : Read(r, first, last)
       \/ Delete(r)
       \/ Handle(r)
       \/ Receive(r)
  \/ DbGrant
  \/ Job

Spec == Init /\ [][Next]_vars

\* Messages are delivered, file operations end, a waiting job gets its turn.
Fairness ==
  /\ \A r \in Replicas : WF_vars(Receive(r)) /\ SF_vars(Handle(r))
  /\ WF_vars(DbGrant)
  /\ WF_vars(Job)

FairSpec == Spec /\ Fairness

------------------------------------------------------------------------------
(* Properties *)

\* What a copy becomes as the messages are delivered one by one.
Course(c, messages) ==
  LET after[n \in 0 .. Len(messages)] ==
        IF n = 0 THEN c ELSE Deliver(after[n - 1], messages[n])
  IN  after

\* The copy of r once everything on its way has been delivered.
Settled(r) == Course(coll[r], down[r])[Len(down[r])]

PagesFit == Len(store.pages) <= 1     \* no page has filled

\* "a concurrent collection.concat either completes before the subscribe (so
\* the returned pages include the new data) or waits until after (so the concat
\* broadcast reaches the newly subscribed session)" (spec.md:130): a subscribed
\* replica that does not write will show exactly the database's items, in its
\* order, with the right totalCount, whatever calls of its own overlap.  That it
\* shows what lies before the last page too is what the code does, and not what
\* spec.md:128 says.  (Once a page has filled, a collection.read shows its
\* successor's items twice: the replica's own page of them has an id the
\* database does not know.)
SubscribersFollow ==
  \A r \in subscribed \ Writers :
    LET s == Settled(r)
        answering == queue # <<>> /\ Running("subscribe", "reading")
                       /\ Head(queue).from = r
    IN  ~answering /\ (PagesFit \/ reads = 0) =>
          s.held /\ Shown(s) = Log /\ s.count = Len(Log)

\* What a reading replica shows is a beginning of what the database holds and
\* only ever grows at its end, as long as its entry stays: a second
\* subscription or a read of pages never takes an item back, repeats it or
\* moves it.  (For whole-page reads of a collection that is not deleted and
\* whose page has not filled.)
ReadersAppendOnly ==
  [][\A r \in Replicas \ Writers :
       PagesFit /\ deletes = 0 /\ coll[r].held /\ coll'[r].held =>
         /\ IsPrefix(Shown(coll[r]), Shown(coll'[r]))
         /\ IsPrefix(Shown(coll'[r]), Log)]_vars

Quiet == /\ queue = <<>>
         /\ \A r \in Replicas : up[r] = <<>> /\ down[r] = <<>>

\* "concurrent subscribe + concat - no data missed" (replica.test.ts:226): with
\* nothing on its way every subscribed replica shows each item once, those of
\* the earlier pages too (which spec.md:128 has no subscribe return), and its
\* totalCount is the database's (replica.test.ts:78).  In which order two
\* writers' items are shown is left open: each replica shows its own first.
NothingMissed ==
  Quiet => \A r \in subscribed :
             /\ ToBag(Shown(coll[r])) = ToBag(Log)
             /\ coll[r].count = Len(Log)

\* Left alone, the clients that have subscribers come to show each of the
\* database's items once and for good, those of the earlier pages included as in
\* NothingMissed, the others nothing.
EventuallyFollows ==
  <>[](\A r \in Replicas :
         /\ wants[r] => coll[r].held
                         /\ ToBag(Shown(coll[r])) = ToBag(Log)
         /\ ~wants[r] => ~coll[r].held)
===============================================================================
