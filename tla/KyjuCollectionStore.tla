------------------------ MODULE KyjuCollectionStore ------------------------
(***************************************************************************)
(* The files of one collection of the kyju database, and the handlers that *)
(* change and read them: packages/kyju/src/v2/db/handlers/write.ts,        *)
(* read.ts, subscribe.ts and createCollection of helpers.ts.               *)
(*                                                                         *)
(* A collection is a directory with an index (which page is active, how    *)
(* many pages and entries there are) and one directory per page with an    *)
(* index (its order) and a file of entries.  JSON files are replaced by a  *)
(* rename, so each is missing or whole; the entries are appended to, and a *)
(* crash may tear what is being appended.  Each handler is a fiber; a step *)
(* is one file operation that other fibers or a crash can see the effects  *)
(* of.  All of them but collection.create take the collection mutex.       *)
(*                                                                         *)
(* A page has the number of its making.  Left out: the temporary files,    *)
(* the sessions and broadcasts (KyjuCollection has those), the refusal of  *)
(* a deletion while the root still refers to the collection.               *)
(***************************************************************************)
EXTENDS Naturals, Sequences, FiniteSets, SequencesExt

CONSTANTS
  Concats,      \* the concats
  Creator,      \* the collection.create
  Readers,      \* the reads and subscribes
  Deleter,      \* the collection.delete
  Batch,        \* Batch[f]: the entries a concat or the creation brings
  MaxPageSize,  \* entries from which on a page is full
  Overlapping,  \* the fibers that may run beside collection.create
  MaxCrashes    \* bound: process deaths

Writers == Concats \cup {Creator}
Fibers == Writers \cup Readers \cup {Deleter}
Pages == 1 .. 2 * Cardinality(Fibers)    \* each fiber makes two at most
Entries == UNION {Range(Batch[f]) : f \in Writers}

ASSUME StoreAssumption ==
  /\ IsFiniteSet(Fibers)
  /\ Creator \notin Concats /\ Deleter \notin Writers
  /\ Readers \cap (Writers \cup {Deleter}) = {}
  /\ \A f \in Writers : Batch[f] \in Seq(Entries)
  /\ \A c \in Concats : Batch[c] # <<>>
  /\ Overlapping \subseteq Fibers
  /\ MaxPageSize \in Nat \ {0} /\ MaxCrashes \in Nat

VARIABLES
  dir,       \* the collection's directory is there
  index,     \* its index file
  pages,     \* its pages: directory, index file and entries
  born,      \* how many pages were made
  pc,        \* where each fiber stands
  at,        \* the page a fiber makes or appends to
  known,     \* the index a concat read
  holder,    \* the fiber with the collection mutex
  acked,     \* history: the batches acknowledged, in order
  starts,    \* history: the startIndex broadcast for each of them
  answer,    \* what each reader was answered
  torn,      \* history: a crash tore an entry
  halfMade,  \* history: what a death left half-made, and whether
             \* collection.create ran beside another handler
  crashes    \* how many process deaths there were

files == <<dir, index, pages, born>>
history == <<acked, starts, answer>>
vars == <<files, pc, at, known, holder, history, torn, halfMade, crashes>>

NoIndex == [active |-> 0, total |-> 0, count |-> 0]
NoPage == [dir |-> FALSE, idx |-> FALSE, order |-> 0, data |-> FALSE,
           entries |-> <<>>, cut |-> FALSE]

Init ==
  /\ dir = FALSE /\ index = NoIndex /\ pages = [p \in Pages |-> NoPage]
  /\ born = 0
  /\ pc = [f \in Fibers |-> "idle"]
  /\ at = [f \in Fibers |-> 0]
  /\ known = [c \in Concats |-> NoIndex]
  /\ holder = {}
  /\ acked = <<>> /\ starts = <<>>
  /\ answer = [r \in Readers |-> <<>>]
  /\ torn = FALSE /\ halfMade = {}
  /\ crashes = 0

\* A page can be read: its index and its entries are there.
Whole(p) == pages[p].idx /\ pages[p].data

\* The entries in the files, in the order the pages were made.
Contents == FlattenSeq([p \in Pages |-> pages[p].entries])

-----------------------------------------------------------------------------
(* createCollection, as run by collection.create, by a concat or by a      *)
(* subscribe: the directories, then the three files one after another.     *)

Go(f, where) == pc' = [pc EXCEPT ![f] = where]

InitialEntries(f) == IF f = Creator THEN Batch[f] ELSE <<>>

MakeDirectory(f) ==
  /\ dir' = TRUE
  /\ born' = born + 1
  /\ pages' = [pages EXCEPT ![born + 1].dir = TRUE]
  /\ at' = [at EXCEPT ![f] = born + 1]
  /\ UNCHANGED index

\* A step of the creation fails when a deletion took the directories away.
Gone(f) ==
  /\ pc[f] \in {"createIndex", "createPageIndex", "createData"}
  /\ ~pages[at[f]].dir
  /\ Go(f, "failed")
  /\ holder' = holder \ {f}
  /\ UNCHANGED <<files, at, known, history, torn, halfMade, crashes>>

CreateIndex(f) ==
  /\ pc[f] = "createIndex" /\ pages[at[f]].dir
  /\ index' = [active |-> at[f], total |-> 1, count |-> Len(InitialEntries(f))]
  /\ Go(f, "createPageIndex")
  /\ UNCHANGED <<dir, pages, born, at, known, holder, history, torn, halfMade,
                 crashes>>

CreatePageIndex(f) ==
  /\ pc[f] = "createPageIndex" /\ pages[at[f]].dir
  /\ pages' = [pages EXCEPT ![at[f]].idx = TRUE, ![at[f]].order = 0]
  /\ Go(f, "createData")
  /\ UNCHANGED <<dir, index, born, at, known, holder, history, torn, halfMade,
                 crashes>>

CreateData(f) ==
  /\ pc[f] = "createData" /\ pages[at[f]].dir
  /\ pages' = [pages EXCEPT ![at[f]].data = TRUE,
                            ![at[f]].entries = InitialEntries(f)]
  /\ Go(f, IF f = Creator THEN "created" ELSE "opened")
  /\ UNCHANGED <<dir, index, born, at, known, holder, history, torn, halfMade,
                 crashes>>

Creating == {f \in Fibers :
               pc[f] \in {"createIndex", "createPageIndex", "createData"}}
CreatorAtWork == Creator \in Creating \/ pc[Creator] = "created"

-----------------------------------------------------------------------------
(* collection.create: no mutex.                                            *)

Create ==
  /\ pc[Creator] = "idle"
  /\ holder \subseteq Overlapping /\ (dir => holder # {})
  /\ MakeDirectory(Creator)
  /\ Go(Creator, "createIndex")
  /\ halfMade' = halfMade \cup (IF dir \/ holder # {} THEN {"overlap"} ELSE {})
  /\ UNCHANGED <<known, holder, history, torn, crashes>>

Acknowledge(f, start) ==
  /\ acked' = Append(acked, Batch[f])
  /\ starts' = Append(starts, start)

CreateAck ==
  /\ pc[Creator] = "created"
  /\ IF Batch[Creator] # <<>> THEN Acknowledge(Creator, 0)
                              ELSE UNCHANGED <<acked, starts>>
  /\ Go(Creator, "done")
  /\ UNCHANGED <<files, at, known, holder, answer, torn, halfMade, crashes>>

-----------------------------------------------------------------------------
(* collection.concat                                                       *)

\* The mutex is taken by one fiber at a time; collection.create ignores it.
Lock(f) ==
  /\ pc[f] = "idle" /\ holder = {}
  /\ CreatorAtWork => f \in Overlapping
  /\ holder' = {f}
  /\ halfMade' = halfMade \cup (IF CreatorAtWork THEN {"overlap"} ELSE {})

\* A file that should be there is not: the handler's error is logged and no
\* answer is sent.
Fail(f) == /\ Go(f, "failed")
           /\ holder' = holder \ {f}

ConcatBegin(c) ==
  /\ Lock(c)
  /\ IF dir THEN Go(c, "opened") /\ UNCHANGED <<files, at>>
            ELSE MakeDirectory(c) /\ Go(c, "createIndex")
  /\ UNCHANGED <<known, history, torn, crashes>>

\* The index is read, and the size of its active page tells where to write.
ConcatRead(c) ==
  LET p == index.active IN
  /\ pc[c] = "opened"
  /\ IF index = NoIndex \/ ~pages[p].data
       THEN Fail(c) /\ UNCHANGED <<at, known>>
       ELSE /\ known' = [known EXCEPT ![c] = index]
            /\ at' = [at EXCEPT ![c] = p]
            /\ Go(c, IF Len(pages[p].entries) >= MaxPageSize
                       THEN "newPage" ELSE "append")
            /\ UNCHANGED holder
  /\ UNCHANGED <<files, history, torn, halfMade, crashes>>

\* The entries a file holds once a batch is appended: a line that was cut
\* takes the first entry with it.
Joined(p, batch) ==
  pages[p].entries \o IF pages[p].cut THEN Tail(batch) ELSE batch

\* Mutation: the page file is written anew.
ConcatAppend_Overwrites(c) ==
  /\ pc[c] = "append"
  /\ pages' = [pages EXCEPT ![at[c]].entries = Batch[c]]
  /\ Go(c, "writeIndex")
  /\ UNCHANGED <<dir, index, born, at, known, holder, history, torn, halfMade,
                 crashes>>

ConcatAppend(c) ==
  /\ pc[c] = "append"
  /\ pages' = [pages EXCEPT ![at[c]].entries = Joined(at[c], Batch[c])]
  /\ Go(c, "writeIndex")
  /\ UNCHANGED <<dir, index, born, at, known, holder, history, torn, halfMade,
                 crashes>>

ConcatNewPage(c) ==
  /\ pc[c] = "newPage"
  /\ MakeDirectory(c)
  /\ Go(c, "newPageIndex")
  /\ UNCHANGED <<known, holder, history, torn, halfMade, crashes>>

\* Mutation: every page gets the order of the first.
ConcatNewPageIndex_First(c) ==
  /\ pc[c] = "newPageIndex"
  /\ pages' = [pages EXCEPT ![at[c]].idx = TRUE, ![at[c]].order = 0]
  /\ Go(c, "newPageData")
  /\ UNCHANGED <<dir, index, born, at, known, holder, history, torn, halfMade,
                 crashes>>

ConcatNewPageIndex(c) ==
  /\ pc[c] = "newPageIndex"
  /\ pages' = [pages EXCEPT ![at[c]].idx = TRUE,
                            ![at[c]].order = known[c].total]
  /\ Go(c, "newPageData")
  /\ UNCHANGED <<dir, index, born, at, known, holder, history, torn, halfMade,
                 crashes>>

ConcatNewPageData(c) ==
  /\ pc[c] = "newPageData"
  /\ pages' = [pages EXCEPT ![at[c]].data = TRUE, ![at[c]].entries = Batch[c]]
  /\ Go(c, "writeIndex")
  /\ UNCHANGED <<dir, index, born, at, known, holder, history, torn, halfMade,
                 crashes>>

\* Mutation: a concat counts for one entry.
ConcatWriteIndex_CountsCalls(c) ==
  /\ pc[c] = "writeIndex"
  /\ index' = [active |-> at[c],
               total |-> known[c].total +
                           (IF at[c] = known[c].active THEN 0 ELSE 1),
               count |-> known[c].count + 1]
  /\ Go(c, "written")
  /\ UNCHANGED <<dir, pages, born, at, known, holder, history, torn, halfMade,
                 crashes>>

ConcatWriteIndex(c) ==
  /\ pc[c] = "writeIndex"
  /\ index' = [active |-> at[c],
               total |-> known[c].total +
                           (IF at[c] = known[c].active THEN 0 ELSE 1),
               count |-> known[c].count + Len(Batch[c])]
  /\ Go(c, "written")
  /\ UNCHANGED <<dir, pages, born, at, known, holder, history, torn, halfMade,
                 crashes>>

\* Mutation: the mutex is not released.
ConcatAck_KeepsMutex(c) ==
  /\ pc[c] = "written"
  /\ Acknowledge(c, known[c].count)
  /\ Go(c, "done")
  /\ UNCHANGED <<files, at, known, holder, answer, torn, halfMade, crashes>>

\* The answer to the caller and the broadcast with the startIndex.
ConcatAck(c) ==
  /\ pc[c] = "written"
  /\ Acknowledge(c, known[c].count)
  /\ Go(c, "done")
  /\ holder' = holder \ {c}
  /\ UNCHANGED <<files, at, known, answer, torn, halfMade, crashes>>

-----------------------------------------------------------------------------
(* collection.read and subscribe, which makes the collection if need be    *)

ReadBegin(r) ==
  /\ Lock(r)
  /\ IF dir THEN Go(r, "opened") /\ UNCHANGED <<files, at>>
            ELSE MakeDirectory(r) /\ Go(r, "createIndex")
  /\ UNCHANGED <<known, history, torn, crashes>>

ReadRefused(r) ==      \* a read answers NotFoundError
  /\ pc[r] = "idle" /\ holder = {} /\ ~dir
  /\ Go(r, "done")
  /\ UNCHANGED <<files, at, known, holder, history, torn, halfMade, crashes>>

Present == {p \in Pages : pages[p].dir}
Readable == \A p \in Present : Whole(p) /\ ~pages[p].cut

\* All pages by their order; pages of one order come as the directory lists
\* them.
ReadAnswer(r) ==
  /\ pc[r] = "opened"
  /\ IF ~Readable THEN Fail(r) /\ UNCHANGED answer
     ELSE /\ \E seq \in SetToSeqs(Present) :
               /\ \A i, j \in DOMAIN seq : i < j =>
                    pages[seq[i]].order <= pages[seq[j]].order
               /\ answer' = [answer EXCEPT ![r] =
                    FlattenSeq([i \in DOMAIN seq |-> pages[seq[i]].entries])]
          /\ Go(r, "done")
          /\ holder' = holder \ {r}
  /\ UNCHANGED <<files, at, known, acked, starts, torn, halfMade, crashes>>

-----------------------------------------------------------------------------
(* collection.delete: the directory is removed file by file.               *)

DeleteBegin ==
  /\ Lock(Deleter) /\ dir
  /\ \/ index' = NoIndex /\ UNCHANGED pages
     \/ pages' = [p \in Pages |-> NoPage] /\ UNCHANGED index
  /\ acked' = <<>> /\ starts' = <<>>
  /\ Go(Deleter, "deleting")
  /\ UNCHANGED <<dir, born, at, known, answer, torn, crashes>>

DeleteEnd ==
  /\ pc[Deleter] = "deleting"
  /\ dir' = FALSE /\ index' = NoIndex /\ pages' = [p \in Pages |-> NoPage]
  /\ Go(Deleter, "done")
  /\ holder' = holder \ {Deleter}
  /\ UNCHANGED <<born, at, known, history, torn, halfMade, crashes>>

DeleteRefused ==       \* NotFoundError
  /\ pc[Deleter] = "idle" /\ holder = {} /\ ~dir
  /\ Go(Deleter, "done")
  /\ UNCHANGED <<files, at, known, holder, history, torn, halfMade, crashes>>

-----------------------------------------------------------------------------
(* The process dies and is started again: the handlers under way are gone, *)
(* the files are as they were left.                                        *)

Ended == {"idle", "done", "failed", "dead"}
Running == {f \in Fibers : pc[f] \notin Ended}

\* What the death leaves half-made: the collection, or one page of it.
Left == (IF \E f \in Running : f \in Creating \/ f = Deleter
           THEN {"collection"} ELSE {})
        \cup (IF \E c \in Concats : \/ pc[c] \in {"newPageIndex", "newPageData"}
                                    \/ pc[c] = "writeIndex" /\ at[c] # known[c].active
                THEN {"page"} ELSE {})

\* What file p of entries may be when the append of fiber f is cut short.
Cuts(f) ==
  LET p == at[f]
      batch == IF f = Creator THEN InitialEntries(f) ELSE Batch[f]
      whole == IF pc[f] = "append" THEN pages[p].entries ELSE <<>>
  IN  {[pages[p] EXCEPT !.data = TRUE, !.cut = TRUE,
                        !.entries = whole \o SubSeq(batch, 1, n)] :
         n \in 0 .. Len(batch) - 1}

Crash ==
  /\ crashes < MaxCrashes
  /\ \/ UNCHANGED <<pages, torn>>
     \/ \E f \in Writers :
          /\ pc[f] \in {"append", "newPageData", "createData"}
          /\ \E page \in Cuts(f) : pages' = [pages EXCEPT ![at[f]] = page]
          /\ torn' = TRUE
  /\ pc' = [f \in Fibers |-> IF f \in Running THEN "dead" ELSE pc[f]]
  /\ holder' = {}
  /\ halfMade' = halfMade \cup Left
  /\ crashes' = crashes + 1
  /\ UNCHANGED <<dir, index, born, at, known, history>>

-----------------------------------------------------------------------------
Making(f) == CreateIndex(f) \/ CreatePageIndex(f) \/ CreateData(f) \/ Gone(f)
Concat(c) == \/ ConcatBegin(c) \/ ConcatRead(c) \/ ConcatAppend(c)
             \/ ConcatNewPage(c) \/ ConcatNewPageIndex(c)
             \/ ConcatNewPageData(c) \/ ConcatWriteIndex(c) \/ ConcatAck(c)
Read(r) == ReadBegin(r) \/ ReadRefused(r) \/ ReadAnswer(r)

Next ==
  \/ \E f \in Fibers : Making(f)
  \/ Create \/ CreateAck
  \/ \E c \in Concats : Concat(c)
  \/ \E r \in Readers : Read(r)
  \/ DeleteBegin \/ DeleteEnd \/ DeleteRefused
  \/ Crash

Spec == Init /\ [][Next]_vars

(* Every file operation ends, and the semaphore lets every waiter through.  *)
Fairness == /\ \A f \in Fibers : WF_vars(Making(f))
            /\ \A c \in Concats : WF_vars(Concat(c))
            /\ \A r \in Readers : WF_vars(ReadAnswer(r))
            /\ WF_vars(CreateAck) /\ WF_vars(DeleteEnd)
FairSpec == Spec /\ Fairness

-----------------------------------------------------------------------------
(* Properties                                                              *)

Places == {"createIndex", "createPageIndex", "createData", "created", "opened",
           "append", "newPage", "newPageIndex", "newPageData", "writeIndex",
           "written", "deleting"}

Indexes == [active : {0} \cup Pages, total : Nat, count : Nat]
PageFiles == [dir : BOOLEAN, idx : BOOLEAN, order : Nat, data : BOOLEAN,
              entries : Seq(Entries), cut : BOOLEAN]

\* The types of the files and of the handlers.
TypeOK ==
  /\ dir \in BOOLEAN /\ born \in 0 .. Cardinality(Pages)
  /\ index \in Indexes /\ pages \in [Pages -> PageFiles]
  /\ pc \in [Fibers -> Ended \cup Places]
  /\ at \in [Fibers -> {0} \cup Pages]
  /\ known \in [Concats -> Indexes]
  /\ holder \subseteq Fibers /\ Cardinality(holder) <= 1
  /\ acked \in Seq(Seq(Entries)) /\ starts \in Seq(Nat)
  /\ Len(starts) = Len(acked)
  /\ answer \in [Readers -> Seq(Entries)]
  /\ torn \in BOOLEAN /\ halfMade \subseteq {"collection", "page", "overlap"}
  /\ crashes \in 0 .. MaxCrashes

AtRest == Running = {}
CollectionMade == halfMade \cap {"collection", "overlap"} = {}

\* The index counts what is in the pages: exactly when no process has died,
\* and never more than there is when one has, even in the middle of a concat.
CountsAgree ==
  CollectionMade /\ ~torn /\ AtRest /\ index # NoIndex =>
    /\ index.count <= Len(Contents) /\ index.total <= Cardinality(Present)
    /\ crashes = 0 => /\ index.count = Len(Contents)
                      /\ index.total = Cardinality(Present)

\* The index never names an active page that is not there to append to, so
\* that a death in the middle of a concat never bars the concats after it.
ActivePageThere ==
  CollectionMade /\ AtRest /\ index # NoIndex => Whole(index.active)

\* The startIndex each concat is broadcast with is where its entries stand.
StartsWhereItStands ==
  crashes = 0 /\ CollectionMade => \A n \in DOMAIN acked :
    LET end == starts[n] + Len(acked[n]) IN
    end <= Len(Contents) /\ acked[n] = SubSeq(Contents, starts[n] + 1, end)

\* While no process has died every handler answers its caller.
NobodyFails == crashes = 0 /\ CollectionMade => \A f \in Fibers : pc[f] # "failed"

\* The indexes and the pages agree, between any two file operations and after
\* a death there, so that no handler trips over them.
IndexAgrees ==
  CountsAgree /\ ActivePageThere /\ StartsWhereItStands /\ NobodyFails

\* A read answers with all entries, in the order they were appended, whatever
\* pages they are spread over.
ReadsAnswerAll ==
  [][\A r \in Readers : halfMade = {} /\ pc[r] = "opened" /\ pc'[r] = "done"
       => answer'[r] = Contents]_vars

\* Every concat ends, whoever waits for the mutex with it.
ConcatsEnd == \A c \in Concats : <>(pc[c] \in Ended \ {"idle"})

\* The files implement the append-only log, through deaths that do not tear.
Log == INSTANCE AppendLog
         WITH entries <- Contents, acked <- acked, sound <- ~torn /\ "overlap" \notin halfMade,
              Batches <- {Batch[f] : f \in Writers} \ {<<>>}
ImplementsAppendLog == Log!Spec
=============================================================================
