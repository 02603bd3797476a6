---------------------------- MODULE ChunkSearch ----------------------------
(***************************************************************************)
(* The fan-out of a query over the index chunks (src/src/Index.cpp).       *)
(*                                                                         *)
(* Index::searchIndexChunks creates NUM_THREADS worker threads, pushes the *)
(* chunk file names on threadQueue, clears filesToPush and joins the       *)
(* workers.  Each worker (rankChunk) takes chunk names off the queue,      *)
(* ranks the chunk and merges its results into topTen.  The two mutexes    *)
(* and the condition variable notEmpty are globals, shared by the workers  *)
(* and the main threads of every Index in the process (the query node has  *)
(* one Index for each connection it is answering).                         *)
(*                                                                         *)
(* A main thread is named by its Index, and notEmpty is the set of workers *)
(* whose wpc is "waiting".                                                 *)
(***************************************************************************)
EXTENDS Integers, Sequences, FiniteSets

CONSTANTS
  Indexes,          \* the Index objects alive in the process
  Workers,          \* the worker threads of all of them
  indexOf,          \* the Index a worker works for (rankArgs::index)
  Chunks,           \* the chunk files
  chunkFileNames,   \* what listdir returned, the same for every Index
  K,                \* topTen.size(), 10 in the code
  Urls, NoUrl,      \* urls, and the empty url of a default RankedEntry
  NaN,              \* the rank log() returns for a negative number
  Queries,          \* the query lines searchIndexChunks is called with
  Found,            \* the result lists a Ranker may return for a query and chunk
  Unrankable,       \* the chunks that kill the process, for a query
  None,
  MaxSearches,      \* bound: calls of searchIndexChunks on one Index
  MaxSpurious       \* bound: spurious returns of pthread_cond_wait

Ranks == Int \cup {NaN}
Entry == [url : Urls, rank : Ranks]

ASSUME ThreadsAssumption ==
  /\ indexOf \in [Workers -> Indexes]
  /\ Indexes \cap Workers = {}
  /\ None \notin Indexes \cup Workers \cup Chunks \cup Queries
  /\ \A i \in Indexes : \E w \in Workers : indexOf[w] = i

ASSUME ChunksAssumption ==
  /\ chunkFileNames \in Seq(Chunks)
  /\ \A j, k \in 1..Len(chunkFileNames) :
       chunkFileNames[j] = chunkFileNames[k] => j = k
  /\ Chunks = {chunkFileNames[j] : j \in 1..Len(chunkFileNames)}
  /\ Unrankable \in [Queries -> SUBSET Chunks]

ASSUME EntriesAssumption ==
  /\ K \in Nat \ {0}
  /\ NoUrl \in Urls
  /\ NaN \notin Int
  /\ Found \in [Queries -> [Chunks -> SUBSET Seq(Entry)]]

ASSUME BoundsAssumption == MaxSearches \in Nat /\ MaxSpurious \in Nat

VARIABLES
  searches,     \* how many times searchIndexChunks was called on the Index
  query,        \* the query of the current search (rankArgs::query)
  mpc,          \* where its main thread is
  next,         \* the next position of chunkFileNames to push
  threadQueue,
  filesToPush,
  topTen,
  wpc,          \* where a worker is
  file,         \* the chunk it took off the queue
  results,      \* the results of that chunk it has still to merge
  queueLock,    \* the thread that holds the mutex, or None
  resultsLock,
  spurious,     \* spurious wake-ups so far
  aborted,      \* an assert or a null dereference ended the process
  ranked,       \* history: the chunks ranked in the current search
  found         \* history: the entries those chunks gave

mainVars   == <<searches, query, mpc, next, filesToPush>>
workerVars == <<wpc, file, results>>
history    == <<ranked, found>>
vars == <<mainVars, threadQueue, topTen, workerVars, queueLock, resultsLock,
          spurious, aborted, history>>

Mpcs == {"idle", "create", "push", "close", "join"}
Wpcs == {"none", "lock", "check", "waiting", "ranking", "ranked", "merging",
         "exited"}

WorkersOf(i) == {w \in Workers : indexOf[w] = i}
Pushed(i)    == {chunkFileNames[j] : j \in 1..(next[i] - 1)}
Blank        == [url |-> NoUrl, rank |-> 0]
EntriesOf(s) == {s[j] : j \in DOMAIN s}

-----------------------------------------------------------------------------
(* topTen: comparisons of doubles, and the bubble that places an entry *)

\* a <= b and a < b on doubles: no comparison with NaN is true.
AtMost(a, b) == a # NaN /\ b # NaN /\ a <= b
Below(a, b)  == a # NaN /\ b # NaN /\ a < b

\* Where the bubble from the back stops: everything behind is below rank r
\* and the entry just before is not.
Slot(t, r) == CHOOSE p \in 1..K : /\ p = 1 \/ ~Below(t[p - 1].rank, r)
                                  /\ \A j \in p..(K - 1) : Below(t[j].rank, r)

\* Variant: the new entry is added and the last one is not dropped.
InsertGrows(t, e) ==
  LET p == Slot(t, e.rank)
  IN  [j \in 1..(K + 1) |-> IF j < p THEN t[j] ELSE IF j = p THEN e ELSE t[j - 1]]

\* e takes the place of the last entry and is swapped forward to its slot.
Insert(t, e) ==
  LET p == Slot(t, e.rank)
  IN  [j \in 1..K |-> IF j < p THEN t[j] ELSE IF j = p THEN e ELSE t[j - 1]]

\* Variant: a result is compared with the best entry, not with the last.
MergeFront(t, e) == IF AtMost(e.rank, t[1].rank) THEN t ELSE Insert(t, e)

Merge(t, e) == IF AtMost(e.rank, t[K].rank) THEN t ELSE Insert(t, e)

-----------------------------------------------------------------------------
Init ==
  /\ searches = [i \in Indexes |-> 0]
  /\ query = [i \in Indexes |-> None]
  /\ mpc = [i \in Indexes |-> "idle"]
  /\ next = [i \in Indexes |-> 1]
  /\ threadQueue = [i \in Indexes |-> << >>]
  /\ filesToPush = [i \in Indexes |-> TRUE]
  /\ topTen = [i \in Indexes |-> [j \in 1..K |-> Blank]]
  /\ wpc = [w \in Workers |-> "none"]
  /\ file = [w \in Workers |-> None]
  /\ results = [w \in Workers |-> << >>]
  /\ queueLock = None
  /\ resultsLock = None
  /\ spurious = 0
  /\ aborted = FALSE
  /\ ranked = [i \in Indexes |-> {}]
  /\ found = [i \in Indexes |-> {}]

-----------------------------------------------------------------------------
(* Variants of the actions below, each with one mistake in it; no run of the *)
(* specification takes them.                                                 *)

\* The mutex is a member of Index, and does not exclude other Indexes' threads.
MainLocksQueueOfIndex(i) ==
  /\ mpc[i] \in {"push", "close"}
  /\ queueLock \notin WorkersOf(i) \cup {i}
  /\ queueLock' = i
  /\ UNCHANGED <<mainVars, threadQueue, topTen, workerVars, resultsLock,
                 spurious, aborted, history>>

\* while (threadQueue.empty()) pthread_cond_wait
WaitAlways(w) ==
  /\ wpc[w] = "check"
  /\ threadQueue[indexOf[w]] = << >>
  /\ queueLock' = None
  /\ wpc' = [wpc EXCEPT ![w] = "waiting"]
  /\ UNCHANGED <<mainVars, threadQueue, topTen, file, results, resultsLock,
                 spurious, aborted, history>>

\* if (!filesToPush) leave the loop
ExitWhenClosed(w) ==
  /\ wpc[w] = "check"
  /\ ~filesToPush[indexOf[w]]
  /\ queueLock' = None
  /\ wpc' = [wpc EXCEPT ![w] = "exited"]
  /\ UNCHANGED <<mainVars, threadQueue, topTen, file, results, resultsLock,
                 spurious, aborted, history>>

\* A pop that takes n names off the queue: none (front() alone), or two.
PopDropping(w, n) ==
  /\ wpc[w] = "check"
  /\ threadQueue[indexOf[w]] # << >>
  /\ file' = [file EXCEPT ![w] = Head(threadQueue[indexOf[w]])]
  /\ threadQueue' = [threadQueue EXCEPT ![indexOf[w]] = SubSeq(@, n + 1, Len(@))]
  /\ queueLock' = None
  /\ wpc' = [wpc EXCEPT ![w] = "ranking"]
  /\ UNCHANGED <<mainVars, topTen, results, resultsLock, spurious, aborted,
                 history>>
PopNothing(w) == PopDropping(w, 0)
PopTwice(w)   == PopDropping(w, 2)

\* An early return between lock and unlock.
UnlockForgotten(w) ==
  /\ wpc[w] = "merging"
  /\ results[w] = << >>
  /\ wpc' = [wpc EXCEPT ![w] = "lock"]
  /\ file' = [file EXCEPT ![w] = None]
  /\ UNCHANGED <<mainVars, threadQueue, topTen, results, queueLock, resultsLock,
                 spurious, aborted, history>>

-----------------------------------------------------------------------------
(* The main thread of a search: Index::searchIndexChunks *)

\* searchIndexChunks is called and resets topTen, and nothing else.
StartSearch(i, q) ==
  /\ mpc[i] = "idle"
  /\ searches[i] < MaxSearches
  /\ searches' = [searches EXCEPT ![i] = @ + 1]
  /\ query' = [query EXCEPT ![i] = q]
  /\ mpc' = [mpc EXCEPT ![i] = "create"]
  /\ next' = [next EXCEPT ![i] = 1]
  /\ topTen' = [topTen EXCEPT ![i] = [j \in 1..K |-> Blank]]
  /\ ranked' = [ranked EXCEPT ![i] = {}]
  /\ found' = [found EXCEPT ![i] = {}]
  /\ UNCHANGED <<filesToPush, threadQueue, workerVars, queueLock, resultsLock,
                 spurious, aborted>>

\* pthread_create: the new worker heads for queueLock.
CreateWorker(w) ==
  /\ mpc[indexOf[w]] = "create"
  /\ wpc[w] = "none"
  /\ wpc' = [wpc EXCEPT ![w] = "lock"]
  /\ UNCHANGED <<mainVars, threadQueue, topTen, file, results, queueLock,
                 resultsLock, spurious, aborted, history>>

\* All the workers exist: the loop over chunkFileNames starts, or is empty.
StartPushing(i) ==
  /\ mpc[i] = "create"
  /\ \A w \in WorkersOf(i) : wpc[w] # "none"
  /\ mpc' = [mpc EXCEPT ![i] = IF chunkFileNames = << >> THEN "close"
                                                         ELSE "push"]
  /\ UNCHANGED <<searches, query, next, filesToPush, threadQueue, topTen, workerVars,
                 queueLock, resultsLock, spurious, aborted, history>>

MainLocksQueue(i) ==
  /\ mpc[i] \in {"push", "close"}
  /\ queueLock = None
  /\ queueLock' = i
  /\ UNCHANGED <<mainVars, threadQueue, topTen, workerVars, resultsLock,
                 spurious, aborted, history>>

\* Push a chunk name, wake the waiters among S (they go back to wait for
\* queueLock) and unlock.
PushWaking(i, S) ==
  /\ mpc[i] = "push"
  /\ queueLock = i
  /\ threadQueue' = [threadQueue EXCEPT ![i] = Append(@, chunkFileNames[next[i]])]
  /\ wpc' = [w \in Workers |-> IF w \in S /\ wpc[w] = "waiting" THEN "lock" ELSE wpc[w]]
  /\ queueLock' = None
  /\ next' = [next EXCEPT ![i] = @ + 1]
  /\ mpc' = [mpc EXCEPT ![i] = IF next[i] = Len(chunkFileNames) THEN "close"
                                                               ELSE "push"]
  /\ UNCHANGED <<searches, query, filesToPush, topTen, file, results, resultsLock,
                 spurious, aborted, history>>

\* Variants: no broadcast, and a notEmpty of each Index.
PushSilently(i)  == PushWaking(i, {})
PushWakingOwn(i) == PushWaking(i, WorkersOf(i))

\* pthread_cond_broadcast(&notEmpty) wakes the waiters of every Index.
Push(i) == PushWaking(i, Workers)

\* filesToPush is cleared under the lock and no one is told.
Close(i) ==
  /\ mpc[i] = "close"
  /\ queueLock = i
  /\ filesToPush' = [filesToPush EXCEPT ![i] = FALSE]
  /\ queueLock' = None
  /\ mpc' = [mpc EXCEPT ![i] = "join"]
  /\ UNCHANGED <<searches, query, next, threadQueue, topTen, workerVars, resultsLock,
                 spurious, aborted, history>>

\* Every pthread_join has returned, and so does searchIndexChunks.
Join(i) ==
  /\ mpc[i] = "join"
  /\ \A w \in WorkersOf(i) : wpc[w] = "exited"
  /\ mpc' = [mpc EXCEPT ![i] = "idle"]
  /\ wpc' = [w \in Workers |-> IF indexOf[w] = i THEN "none" ELSE wpc[w]]
  /\ UNCHANGED <<searches, query, next, filesToPush, threadQueue, topTen, file,
                 results, queueLock, resultsLock, spurious, aborted, history>>

-----------------------------------------------------------------------------
(* A worker: rankChunk *)

\* pthread_mutex_lock, or the re-acquisition inside pthread_cond_wait.
LockQueue(w) ==
  /\ wpc[w] = "lock"
  /\ queueLock = None
  /\ queueLock' = w
  /\ wpc' = [wpc EXCEPT ![w] = "check"]
  /\ UNCHANGED <<mainVars, threadQueue, topTen, file, results, resultsLock,
                 spurious, aborted, history>>

\* while (threadQueue.empty() && filesToPush) pthread_cond_wait
Wait(w) ==
  /\ wpc[w] = "check"
  /\ threadQueue[indexOf[w]] = << >>
  /\ filesToPush[indexOf[w]]
  /\ queueLock' = None
  /\ wpc' = [wpc EXCEPT ![w] = "waiting"]
  /\ UNCHANGED <<mainVars, threadQueue, topTen, file, results, resultsLock,
                 spurious, aborted, history>>

\* if (!filesToPush && threadQueue.empty()) unlock and leave the loop
Exit(w) ==
  /\ wpc[w] = "check"
  /\ threadQueue[indexOf[w]] = << >>
  /\ ~filesToPush[indexOf[w]]
  /\ queueLock' = None
  /\ wpc' = [wpc EXCEPT ![w] = "exited"]
  /\ UNCHANGED <<mainVars, threadQueue, topTen, file, results, resultsLock,
                 spurious, aborted, history>>

Pop(w) ==
  /\ wpc[w] = "check"
  /\ threadQueue[indexOf[w]] # << >>
  /\ file' = [file EXCEPT ![w] = Head(threadQueue[indexOf[w]])]
  /\ threadQueue' = [threadQueue EXCEPT ![indexOf[w]] = Tail(@)]
  /\ queueLock' = None
  /\ wpc' = [wpc EXCEPT ![w] = "ranking"]
  /\ UNCHANGED <<mainVars, topTen, results, resultsLock, spurious, aborted,
                 history>>

\* The chunk is opened and verified, and a Ranker returns its results.
Rank(w) ==
  /\ wpc[w] = "ranking"
  /\ file[w] \notin Unrankable[query[indexOf[w]]]
  /\ \E l \in Found[query[indexOf[w]]][file[w]] :
       /\ results' = [results EXCEPT ![w] = l]
       /\ found' = [found EXCEPT ![indexOf[w]] = @ \cup EntriesOf(l)]
  /\ ranked' = [ranked EXCEPT ![indexOf[w]] = @ \cup {file[w]}]
  /\ wpc' = [wpc EXCEPT ![w] = "ranked"]
  /\ UNCHANGED <<mainVars, threadQueue, topTen, file, queueLock, resultsLock,
                 spurious, aborted>>

\* assert(chunk->verifyIndexBlob()) fails, or the query has no parse tree and
\* getTopTen dereferences the null compiledTree: the process ends.
Abort(w) ==
  /\ wpc[w] = "ranking"
  /\ file[w] \in Unrankable[query[indexOf[w]]]
  /\ aborted' = TRUE
  /\ UNCHANGED <<mainVars, threadQueue, topTen, workerVars, queueLock,
                 resultsLock, spurious, history>>

LockResults(w) ==
  /\ wpc[w] = "ranked"
  /\ resultsLock = None
  /\ resultsLock' = w
  /\ wpc' = [wpc EXCEPT ![w] = "merging"]
  /\ UNCHANGED <<mainVars, threadQueue, topTen, file, results, queueLock,
                 spurious, aborted, history>>

\* One turn of the loop over the results of the chunk.
MergeOne(w) ==
  /\ wpc[w] = "merging"
  /\ results[w] # << >>
  /\ topTen' = [topTen EXCEPT ![indexOf[w]] = Merge(@, Head(results[w]))]
  /\ results' = [results EXCEPT ![w] = Tail(@)]
  /\ UNCHANGED <<mainVars, threadQueue, wpc, file, queueLock, resultsLock,
                 spurious, aborted, history>>

UnlockResults(w) ==
  /\ wpc[w] = "merging"
  /\ results[w] = << >>
  /\ resultsLock' = None
  /\ wpc' = [wpc EXCEPT ![w] = "lock"]
  /\ file' = [file EXCEPT ![w] = None]
  /\ UNCHANGED <<mainVars, threadQueue, topTen, results, queueLock, spurious,
                 aborted, history>>

\* POSIX lets pthread_cond_wait return without a broadcast.
SpuriousWake(w) ==
  /\ wpc[w] = "waiting"
  /\ spurious < MaxSpurious
  /\ spurious' = spurious + 1
  /\ wpc' = [wpc EXCEPT ![w] = "lock"]
  /\ UNCHANGED <<mainVars, threadQueue, topTen, file, results, queueLock,
                 resultsLock, aborted, history>>

-----------------------------------------------------------------------------
MainStep(i) ==
  /\ ~aborted
  /\ \/ StartPushing(i) \/ MainLocksQueue(i) \/ Push(i) \/ Close(i) \/ Join(i)
     \/ \E w \in WorkersOf(i) : CreateWorker(w)

WorkerStep(w) ==
  /\ ~aborted
  /\ \/ LockQueue(w) \/ Wait(w) \/ Exit(w) \/ Pop(w) \/ Rank(w) \/ Abort(w)
     \/ LockResults(w) \/ MergeOne(w) \/ UnlockResults(w)

Next ==
  \/ \E i \in Indexes : \E q \in Queries : ~aborted /\ StartSearch(i, q)
  \/ \E i \in Indexes : MainStep(i)
  \/ \E w \in Workers : WorkerStep(w)
  \/ \E w \in Workers : ~aborted /\ SpuriousWake(w)

Spec == Init /\ [][Next]_vars

\* The scheduler runs every thread that can run.  Nobody promises a query, a
\* spurious wake-up, or that a free mutex goes to a given thread for ever.
Fairness == /\ \A i \in Indexes : WF_vars(MainStep(i))
            /\ \A w \in Workers : WF_vars(WorkerStep(w))

FairSpec == Spec /\ Fairness

-----------------------------------------------------------------------------
(* What the search promises *)

\* Every variable holds a value of its type.
TypeOK ==
  /\ searches \in [Indexes -> Nat]
  /\ query \in [Indexes -> Queries \cup {None}]
  /\ mpc \in [Indexes -> Mpcs]
  /\ next \in [Indexes -> 1..(Len(chunkFileNames) + 1)]
  /\ threadQueue \in [Indexes -> Seq(Chunks)]
  /\ filesToPush \in [Indexes -> BOOLEAN]
  /\ topTen \in [Indexes -> [1..K -> Entry]]
  /\ wpc \in [Workers -> Wpcs]
  /\ file \in [Workers -> Chunks \cup {None}]
  /\ results \in [Workers -> Seq(Entry)]
  /\ queueLock \in Workers \cup Indexes \cup {None}
  /\ resultsLock \in Workers \cup {None}
  /\ spurious \in Nat
  /\ aborted \in BOOLEAN
  /\ ranked \in [Indexes -> SUBSET Chunks]
  /\ found \in [Indexes -> SUBSET Entry]

\* The sections of rankChunk and searchIndexChunks that read or write
\* threadQueue, filesToPush and topTen exclude each other: the thread inside
\* one is the holder of the mutex, whatever Index it works for.
MutualExclusion ==
  /\ \A w \in Workers : wpc[w] = "check" <=> queueLock = w
  /\ \A w \in Workers : wpc[w] = "merging" <=> resultsLock = w
  /\ \A i \in Indexes : queueLock = i => mpc[i] \in {"push", "close"}

\* No worker sleeps on notEmpty while its queue holds a chunk: the broadcast
\* of Push is enough to hand over every chunk, in spite of spurious wake-ups
\* and of the wake-ups meant for the workers of another Index.
NoSleeperBesideWork ==
  \A w \in Workers : wpc[w] = "waiting" => threadQueue[indexOf[w]] = << >>

\* A chunk pushed in the current search is in the queue, in the hands of a
\* worker, or ranked: no interleaving of the pops loses it.
PushedAccounted ==
  \A i \in Indexes : \A c \in Pushed(i) :
    \/ c \in EntriesOf(threadQueue[i])
    \/ \E w \in WorkersOf(i) : wpc[w] = "ranking" /\ file[w] = c
    \/ c \in ranked[i]

\* In the first search of an Index no chunk is handed out twice: a chunk a
\* worker is about to rank is not ranked, not queued, and no other worker's.
FirstSearchRanksOnce ==
  \A w \in Workers :
    searches[indexOf[w]] = 1 /\ wpc[w] = "ranking" =>
      /\ file[w] \notin ranked[indexOf[w]]
      /\ file[w] \notin EntriesOf(threadQueue[indexOf[w]])
      /\ \A v \in WorkersOf(indexOf[w]) :
           wpc[v] = "ranking" /\ file[v] = file[w] => v = w

\* When the first searchIndexChunks of an Index returns, every chunk file has
\* been ranked: no worker left the loop of rankChunk too early.
FirstSearchComplete ==
  \A i \in Indexes :
    searches[i] = 1 /\ mpc[i] = "idle" => Chunks = ranked[i]

\* topTen is in order and holds the best entries found so far: an entry a
\* Ranker returned is waiting to be merged, is in topTen, or ranks no higher
\* than the last of topTen.
Pending(i) == UNION {EntriesOf(results[w]) : w \in WorkersOf(i)}
Sorted(t) == \A j \in 1..(K - 1) : AtMost(t[j + 1].rank, t[j].rank)
Keeps(t, e) == (\E j \in 1..K : t[j] = e) \/ AtMost(e.rank, t[K].rank)
TopTenIsBest ==
  \A i \in Indexes :
    /\ Sorted(topTen[i])
    /\ \A e \in found[i] \ Pending(i) : Keeps(topTen[i], e)

\* The only way a search can fail to return is a worker asleep on notEmpty.
EndsUnlessSleeper ==
  \A i \in Indexes :
    mpc[i] = "join" ~> \/ mpc[i] = "idle"
                       \/ \E w \in WorkersOf(i) : wpc[w] = "waiting"
                       \/ aborted

\* Once filesToPush is FALSE, from the second search on, no worker waits, and
\* every searchIndexChunks returns.
LaterSearchesReturn ==
  \A i \in Indexes : mpc[i] = "create" /\ ~filesToPush[i] ~> mpc[i] = "idle" \/ aborted

\* notEmpty is shared: a search that is past Close returns as soon as a search
\* of another Index pushes a chunk, whose broadcast wakes its sleepers too.
RescuedByAnotherSearch ==
  \A i, j \in Indexes :
    i # j /\ mpc[i] = "join" /\ mpc[j] = "push" ~> mpc[i] = "idle" \/ aborted

\* Every chunk pushed in the first search is ranked in the end, even when
\* that search never returns.
PushedIsRanked ==
  \A i \in Indexes : \A c \in Chunks :
    searches[i] = 1 /\ c \in Pushed(i) ~> c \in ranked[i] \/ aborted

\* Refuted: a search returns (Index.h:637, "Given a search query, search the
\* index chunks for matching documents and rank them").
SearchReturns == \A i \in Indexes : mpc[i] = "create" ~> mpc[i] = "idle" \/ aborted

\* Refuted: every search of an Index searches the index chunks.
EverySearchComplete ==
  \A i \in Indexes :
    searches[i] > 0 /\ mpc[i] = "idle" => Chunks = ranked[i]
=============================================================================
