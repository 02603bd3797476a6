------------------------- MODULE ChunkSearchProofs -------------------------
(***************************************************************************)
(* Proofs about ChunkSearch, for any number of Indexes, workers, chunks,   *)
(* results and searches, and that the first search of an Index implements  *)
(* SearchAnswer.                                                           *)
(***************************************************************************)
EXTENDS SearchRefinement, WellFoundedInduction, TLAPS

-----------------------------------------------------------------------------
(* Lemmas about topTen *)

\* Every set of natural numbers that is not empty has a least element.
LEMMA LeastNat ==
  ASSUME NEW S, S \subseteq Nat, S # {}
  PROVE  \E n \in S : \A m \in S : n <= m
<1> DEFINE R == {p \in Nat \X Nat : p[1] < p[2]}
<1>1. IsWellFoundedOn(R, Nat)
  BY NatLessThanWellFounded, Zenon DEF OpToRel
<1> HIDE DEF R
<1>2. PICK n \in S : \A m \in S : <<m, n>> \notin R
  BY <1>1, WFMin, Zenon
<1>3. \A m \in S : ~(m < n)
  BY <1>2 DEF R
<1> QED
  BY <1>3

\* The bubble of rankChunk stops inside topTen, and only where it should.
LEMMA SlotStops ==
  ASSUME NEW t \in [1..K -> Entry], NEW r \in Ranks
  PROVE  /\ Slot(t, r) \in 1..K
         /\ Slot(t, r) = 1 \/ ~Below(t[Slot(t, r) - 1].rank, r)
         /\ \A j \in Slot(t, r)..(K - 1) : Below(t[j].rank, r)
<1> DEFINE Passes(p) == \A j \in p..(K - 1) : Below(t[j].rank, r)
           S == {p \in 1..K : Passes(p)}
<1>1. K \in Nat \ {0}
  BY EntriesAssumption
<1>2. K \in S /\ S \subseteq Nat
  BY <1>1
<1> HIDE DEF S
<1>3. PICK p \in S : \A m \in S : p <= m
  BY <1>2, LeastNat
<1> USE DEF S
<1>4. ASSUME p # 1 PROVE ~Below(t[p - 1].rank, r)
  <2>1. SUFFICES ASSUME Below(t[p - 1].rank, r) PROVE FALSE
    OBVIOUS
  <2>2. Passes(p - 1)
    <3>1. SUFFICES ASSUME NEW j \in (p - 1)..(K - 1) PROVE Below(t[j].rank, r)
      OBVIOUS
    <3>2. j = p - 1 \/ j \in p..(K - 1)
      BY <1>1
    <3> QED
      BY <2>1, <3>2
  <2>3. p - 1 \in S
    BY <1>1, <1>4, <2>2
  <2> QED
    BY <1>3, <2>3, <1>1
<1>5. p \in 1..K /\ (p = 1 \/ ~Below(t[p - 1].rank, r)) /\ Passes(p)
  BY <1>4
<1> QED
  BY <1>5 DEF Slot

\* Merging an entry keeps the size and the type of topTen.
LEMMA MergeType ==
  ASSUME NEW t \in [1..K -> Entry], NEW e \in Entry
  PROVE  Merge(t, e) \in [1..K -> Entry]
<1>1. K \in Nat \ {0}
  BY EntriesAssumption
<1>2. Slot(t, e.rank) \in 1..K
  BY SlotStops DEF Entry
<1>3. Insert(t, e) \in [1..K -> Entry]
  BY <1>1, <1>2 DEF Insert
<1> QED
  BY <1>3 DEF Merge

-----------------------------------------------------------------------------
(* Type correctness *)

\* Head, Tail and Append keep a sequence over its set, and tell what is in the
\* result.
LEMMA SeqFacts ==
  ASSUME NEW S, NEW s \in Seq(S)
  PROVE  /\ s # << >> => Head(s) \in S /\ Tail(s) \in Seq(S)
         /\ s # << >> => EntriesOf(s) = EntriesOf(Tail(s)) \cup {Head(s)}
         /\ \A x \in S : Append(s, x) \in Seq(S)
         /\ \A x \in S : EntriesOf(Append(s, x)) = EntriesOf(s) \cup {x}
         /\ EntriesOf(s) \subseteq S
<1>1. ASSUME s # << >>
      PROVE  /\ Head(s) \in S /\ Tail(s) \in Seq(S)
             /\ EntriesOf(s) = EntriesOf(Tail(s)) \cup {Head(s)}
  <2>1. Head(s) \in S /\ Tail(s) \in Seq(S)
    BY <1>1
  <2>2. /\ Len(s) \in Nat \ {0} /\ Head(s) = s[1] /\ DOMAIN s = 1..Len(s)
        /\ DOMAIN Tail(s) = 1..(Len(s) - 1)
        /\ \A j \in 1..(Len(s) - 1) : Tail(s)[j] = s[j + 1]
    BY <1>1
  <2>3. ASSUME NEW j \in 1..Len(s), j # 1 PROVE s[j] \in EntriesOf(Tail(s))
    <3>1. j - 1 \in 1..(Len(s) - 1) /\ s[j] = Tail(s)[j - 1]
      BY <2>2, <2>3
    <3> QED
      BY <3>1, <2>2 DEF EntriesOf
  <2>4. ASSUME NEW j \in 1..(Len(s) - 1) PROVE Tail(s)[j] \in EntriesOf(s)
    <3>1. j + 1 \in 1..Len(s) /\ Tail(s)[j] = s[j + 1]
      BY <2>2
    <3> QED
      BY <3>1, <2>2 DEF EntriesOf
  <2> QED
    BY <2>1, <2>2, <2>3, <2>4 DEF EntriesOf
<1>2. ASSUME NEW x \in S
      PROVE  /\ Append(s, x) \in Seq(S)
             /\ EntriesOf(Append(s, x)) = EntriesOf(s) \cup {x}
  <2>1. /\ Append(s, x) \in Seq(S) /\ Len(s) \in Nat /\ DOMAIN s = 1..Len(s)
        /\ DOMAIN Append(s, x) = 1..(Len(s) + 1)
        /\ \A j \in 1..Len(s) : Append(s, x)[j] = s[j]
        /\ Append(s, x)[Len(s) + 1] = x
    OBVIOUS
  <2>2. \A j \in 1..(Len(s) + 1) : j \in 1..Len(s) \/ j = Len(s) + 1
    BY <2>1
  <2> QED
    BY <2>1, <2>2 DEF EntriesOf
<1>3. EntriesOf(s) \subseteq S
  BY DEF EntriesOf
<1> QED
  BY <1>1, <1>2, <1>3

LEMMA ConstantTypes ==
  /\ Len(chunkFileNames) \in Nat
  /\ \A j \in 1..Len(chunkFileNames) : chunkFileNames[j] \in Chunks
  /\ chunkFileNames = << >> <=> Len(chunkFileNames) = 0
  /\ Blank \in Entry
  /\ \A w \in Workers : indexOf[w] \in Indexes /\ w # None /\ w \notin Indexes
  /\ \A i \in Indexes : i # None /\ i \notin Workers
<1>1. /\ Len(chunkFileNames) \in Nat
      /\ \A j \in 1..Len(chunkFileNames) : chunkFileNames[j] \in Chunks
      /\ chunkFileNames = << >> <=> Len(chunkFileNames) = 0
  BY ChunksAssumption
<1>2. Blank \in Entry
  BY EntriesAssumption DEF Blank, Entry, Ranks
<1> QED
  BY <1>1, <1>2, ThreadsAssumption

\* How far the main thread has got with chunkFileNames, which workers exist
\* meanwhile, and what a worker that ranks has in hand.
Progress ==
  /\ \A i \in Indexes :
       /\ mpc[i] = "create" => next[i] = 1
       /\ mpc[i] = "push" => next[i] <= Len(chunkFileNames)
       /\ mpc[i] \in {"close", "join"} => next[i] = Len(chunkFileNames) + 1
       /\ mpc[i] = "idle" /\ searches[i] > 0 => next[i] = Len(chunkFileNames) + 1
       /\ mpc[i] # "idle" => query[i] \in Queries /\ searches[i] > 0
  /\ \A w \in Workers :
       /\ mpc[indexOf[w]] = "idle" => wpc[w] = "none"
       /\ mpc[indexOf[w]] \in {"push", "close", "join"} => wpc[w] # "none"
       /\ wpc[w] = "ranking" => file[w] \in Chunks

\* One step keeps the types, and the progress of the main threads.
LEMMA TypeStep ==
  ASSUME TypeOK, Progress, [Next]_vars
  PROVE  TypeOK' /\ Progress'
<1> USE ConstantTypes DEF mainVars, workerVars, history
<1> DEFINE Goal == TypeOK' /\ Progress'
<1>1. ASSUME NEW i \in Indexes, NEW q \in Queries, StartSearch(i, q) PROVE Goal
  BY <1>1, TypeOK, Progress DEF StartSearch, TypeOK, Mpcs, Wpcs, Progress
<1>2. ASSUME NEW w \in Workers, CreateWorker(w) PROVE Goal
  BY <1>2, TypeOK, Progress DEF CreateWorker, TypeOK, Mpcs, Wpcs, Progress
<1>3. ASSUME NEW i \in Indexes, StartPushing(i) PROVE Goal
  BY <1>3, TypeOK, Progress DEF StartPushing, WorkersOf, TypeOK, Mpcs, Wpcs, Progress
<1>4. ASSUME NEW i \in Indexes, MainLocksQueue(i) PROVE Goal
  BY <1>4, TypeOK, Progress DEF MainLocksQueue, TypeOK, Mpcs, Wpcs, Progress
<1>5. ASSUME NEW i \in Indexes, Push(i) PROVE Goal
  <2>1. next[i] \in 1..Len(chunkFileNames) /\ chunkFileNames[next[i]] \in Chunks
    BY <1>5 DEF Push, PushWaking, TypeOK, Progress
  <2>2. threadQueue'[i] \in Seq(Chunks)
    BY <1>5, <2>1, SeqFacts DEF Push, PushWaking, TypeOK
  <2>3. TypeOK'
    BY <1>5, <2>1, <2>2 DEF Push, PushWaking, TypeOK, Mpcs, Wpcs
  <2>4. Progress'
    BY <1>5, <2>1 DEF Push, PushWaking, TypeOK, Progress
  <2> QED
    BY <2>3, <2>4
<1>6. ASSUME NEW i \in Indexes, Close(i) PROVE Goal
  BY <1>6, TypeOK, Progress DEF Close, TypeOK, Mpcs, Wpcs, Progress
<1>7. ASSUME NEW i \in Indexes, Join(i) PROVE Goal
  BY <1>7, TypeOK, Progress DEF Join, WorkersOf, TypeOK, Mpcs, Wpcs, Progress
<1>8. ASSUME NEW w \in Workers, LockQueue(w) PROVE Goal
  BY <1>8, TypeOK, Progress DEF LockQueue, TypeOK, Mpcs, Wpcs, Progress
<1>9. ASSUME NEW w \in Workers, Wait(w) PROVE Goal
  BY <1>9, TypeOK, Progress DEF Wait, TypeOK, Mpcs, Wpcs, Progress
<1>10. ASSUME NEW w \in Workers, Exit(w) PROVE Goal
  BY <1>10, TypeOK, Progress DEF Exit, TypeOK, Mpcs, Wpcs, Progress
<1>11. ASSUME NEW w \in Workers, Pop(w) PROVE Goal
  <2>1. /\ Head(threadQueue[indexOf[w]]) \in Chunks
        /\ Tail(threadQueue[indexOf[w]]) \in Seq(Chunks)
    BY <1>11, SeqFacts DEF Pop, TypeOK
  <2>2. TypeOK'
    BY <1>11, <2>1 DEF Pop, TypeOK, Wpcs
  <2> QED
    BY <1>11, <2>1, <2>2 DEF Pop, Progress, TypeOK
<1>12. ASSUME NEW w \in Workers, Rank(w) PROVE Goal
  <2>1. file[w] \in Chunks /\ query[indexOf[w]] \in Queries
    BY <1>12 DEF Rank, Progress
  <2>2. PICK l \in Found[query[indexOf[w]]][file[w]] :
             /\ results' = [results EXCEPT ![w] = l]
             /\ found' = [found EXCEPT ![indexOf[w]] = @ \cup EntriesOf(l)]
    BY <1>12 DEF Rank
  <2>3. l \in Seq(Entry) /\ EntriesOf(l) \subseteq Entry
    BY <2>1, <2>2, EntriesAssumption, SeqFacts
  <2>4. TypeOK'
    BY <1>12, <2>1, <2>2, <2>3 DEF Rank, TypeOK, Wpcs
  <2> QED
    BY <1>12, <2>4, SMTT(30) DEF Rank, Progress, TypeOK
<1>13. ASSUME NEW w \in Workers, Abort(w) PROVE Goal
  BY <1>13, TypeOK, Progress DEF Abort, TypeOK, Mpcs, Wpcs, Progress
<1>14. ASSUME NEW w \in Workers, LockResults(w) PROVE Goal
  BY <1>14, TypeOK, Progress DEF LockResults, TypeOK, Mpcs, Wpcs, Progress
<1>15. ASSUME NEW w \in Workers, MergeOne(w) PROVE Goal
  <2>1. Head(results[w]) \in Entry /\ Tail(results[w]) \in Seq(Entry)
    BY <1>15, SeqFacts DEF MergeOne, TypeOK
  <2>2. Merge(topTen[indexOf[w]], Head(results[w])) \in [1..K -> Entry]
    BY <2>1, MergeType DEF TypeOK
  <2>3. TypeOK'
    BY <1>15, <2>1, <2>2 DEF MergeOne, TypeOK
  <2> QED
    BY <1>15, <2>3 DEF MergeOne, Progress, TypeOK
<1>16. ASSUME NEW w \in Workers, UnlockResults(w) PROVE Goal
  BY <1>16, TypeOK, Progress DEF UnlockResults, TypeOK, Mpcs, Wpcs, Progress
<1>17. ASSUME NEW w \in Workers, SpuriousWake(w) PROVE Goal
  BY <1>17, TypeOK, Progress DEF SpuriousWake, TypeOK, Mpcs, Wpcs, Progress
<1>18. CASE UNCHANGED vars
  BY <1>18 DEF vars, TypeOK, Progress
<1> QED
  BY <1>1, <1>2, <1>3, <1>4, <1>5, <1>6, <1>7, <1>8, <1>9, <1>10, <1>11, <1>12, <1>13, <1>14,
     <1>15, <1>16, <1>17, <1>18 DEF Next, MainStep, WorkerStep, WorkersOf

LEMMA TypeAndProgress == Spec => [](TypeOK /\ Progress)
<1>1. Init => TypeOK /\ Progress
  <2>1. << >> \in Seq(Chunks) /\ << >> \in Seq(Entry)
    OBVIOUS
  <2>2. [j \in 1..K |-> Blank] \in [1..K -> Entry] /\ 1 \in 1..(Len(chunkFileNames) + 1)
    BY ConstantTypes
  <2>3. Init => TypeOK
    <3>1. SUFFICES ASSUME Init PROVE TypeOK
      OBVIOUS
    <3>2. /\ threadQueue \in [Indexes -> Seq(Chunks)]
          /\ results \in [Workers -> Seq(Entry)]
      BY <2>1, <3>1 DEF Init
    <3>3. /\ topTen \in [Indexes -> [1..K -> Entry]]
          /\ next \in [Indexes -> 1..(Len(chunkFileNames) + 1)]
      BY <2>2, <3>1 DEF Init
    <3>4. /\ mpc \in [Indexes -> Mpcs]
          /\ wpc \in [Workers -> Wpcs]
      BY <3>1 DEF Init, Mpcs, Wpcs
    <3>5. /\ searches \in [Indexes -> Nat]
          /\ query \in [Indexes -> Queries \cup {None}]
          /\ filesToPush \in [Indexes -> BOOLEAN]
          /\ file \in [Workers -> Chunks \cup {None}]
          /\ queueLock \in Workers \cup Indexes \cup {None}
          /\ resultsLock \in Workers \cup {None}
          /\ spurious \in Nat
          /\ aborted \in BOOLEAN
          /\ ranked \in [Indexes -> SUBSET Chunks]
          /\ found \in [Indexes -> SUBSET Entry]
      BY <3>1 DEF Init
    <3> QED
      BY <3>2, <3>3, <3>4, <3>5 DEF TypeOK
  <2>4. Init => Progress
    BY ConstantTypes DEF Init, Progress
  <2> QED
    BY <2>3, <2>4
<1> QED
  BY <1>1, TypeStep, PTL DEF Spec

\* Every reachable state has the types TypeOK states.
THEOREM TypeCorrect == Spec => []TypeOK
BY TypeAndProgress, PTL

-----------------------------------------------------------------------------
(* The mutexes and the condition variable *)

\* One step keeps the holders of the mutexes in their sections.
LEMMA ExclusionStep ==
  ASSUME TypeOK, MutualExclusion, [Next]_vars
  PROVE  MutualExclusion'
<1> USE ConstantTypes DEF mainVars, workerVars, history
<1>1. ASSUME NEW i \in Indexes, NEW q \in Queries, StartSearch(i, q) PROVE MutualExclusion'
  BY <1>1 DEF StartSearch, MutualExclusion, TypeOK
<1>2. ASSUME NEW w \in Workers, CreateWorker(w) PROVE MutualExclusion'
  BY <1>2 DEF CreateWorker, MutualExclusion, TypeOK
<1>3. ASSUME NEW i \in Indexes, StartPushing(i) PROVE MutualExclusion'
  BY <1>3 DEF StartPushing, MutualExclusion, TypeOK
<1>4. ASSUME NEW i \in Indexes, MainLocksQueue(i) PROVE MutualExclusion'
  BY <1>4 DEF MainLocksQueue, MutualExclusion, TypeOK
<1>5. ASSUME NEW i \in Indexes, Push(i) PROVE MutualExclusion'
  BY <1>5 DEF Push, PushWaking, MutualExclusion, TypeOK
<1>6. ASSUME NEW i \in Indexes, Close(i) PROVE MutualExclusion'
  BY <1>6 DEF Close, MutualExclusion, TypeOK
<1>7. ASSUME NEW i \in Indexes, Join(i) PROVE MutualExclusion'
  BY <1>7 DEF Join, WorkersOf, MutualExclusion, TypeOK
<1>8. ASSUME NEW w \in Workers, LockQueue(w) PROVE MutualExclusion'
  BY <1>8 DEF LockQueue, MutualExclusion, TypeOK
<1>9. ASSUME NEW w \in Workers, Wait(w) PROVE MutualExclusion'
  BY <1>9 DEF Wait, MutualExclusion, TypeOK
<1>10. ASSUME NEW w \in Workers, Exit(w) PROVE MutualExclusion'
  BY <1>10 DEF Exit, MutualExclusion, TypeOK
<1>11. ASSUME NEW w \in Workers, Pop(w) PROVE MutualExclusion'
  BY <1>11 DEF Pop, MutualExclusion, TypeOK
<1>12. ASSUME NEW w \in Workers, Rank(w) PROVE MutualExclusion'
  BY <1>12 DEF Rank, MutualExclusion, TypeOK
<1>13. ASSUME NEW w \in Workers, Abort(w) PROVE MutualExclusion'
  BY <1>13 DEF Abort, MutualExclusion, TypeOK
<1>14. ASSUME NEW w \in Workers, LockResults(w) PROVE MutualExclusion'
  BY <1>14 DEF LockResults, MutualExclusion, TypeOK
<1>15. ASSUME NEW w \in Workers, MergeOne(w) PROVE MutualExclusion'
  BY <1>15 DEF MergeOne, MutualExclusion, TypeOK
<1>16. ASSUME NEW w \in Workers, UnlockResults(w) PROVE MutualExclusion'
  BY <1>16 DEF UnlockResults, MutualExclusion, TypeOK
<1>17. ASSUME NEW w \in Workers, SpuriousWake(w) PROVE MutualExclusion'
  BY <1>17 DEF SpuriousWake, MutualExclusion, TypeOK
<1>18. CASE UNCHANGED vars
  BY <1>18 DEF vars, MutualExclusion, TypeOK
<1> QED
  BY <1>1, <1>2, <1>3, <1>4, <1>5, <1>6, <1>7, <1>8, <1>9, <1>10, <1>11, <1>12, <1>13, <1>14,
     <1>15, <1>16, <1>17, <1>18 DEF Next, MainStep, WorkerStep, WorkersOf

\* The sections under queueLock and under resultsLock exclude each other, for
\* the threads of all Indexes together.
THEOREM LocksExclude == Spec => []MutualExclusion
<1>1. Init => MutualExclusion
  BY ConstantTypes DEF Init, MutualExclusion
<1> QED
  BY <1>1, ExclusionStep, TypeCorrect, PTL DEF Spec

\* Only Push puts a chunk in an empty queue, and it leaves no one asleep.
LEMMA SleeperStep ==
  ASSUME TypeOK, NoSleeperBesideWork, [Next]_vars
  PROVE  NoSleeperBesideWork'
<1> USE ConstantTypes DEF mainVars, workerVars, history
<1>1. ASSUME NEW i \in Indexes, NEW q \in Queries, StartSearch(i, q) PROVE NoSleeperBesideWork'
  BY <1>1 DEF StartSearch, NoSleeperBesideWork, TypeOK
<1>2. ASSUME NEW w \in Workers, CreateWorker(w) PROVE NoSleeperBesideWork'
  BY <1>2 DEF CreateWorker, NoSleeperBesideWork, TypeOK
<1>3. ASSUME NEW i \in Indexes, StartPushing(i) PROVE NoSleeperBesideWork'
  BY <1>3 DEF StartPushing, NoSleeperBesideWork, TypeOK
<1>4. ASSUME NEW i \in Indexes, MainLocksQueue(i) PROVE NoSleeperBesideWork'
  BY <1>4 DEF MainLocksQueue, NoSleeperBesideWork, TypeOK
<1>5. ASSUME NEW i \in Indexes, Push(i) PROVE NoSleeperBesideWork'
  BY <1>5 DEF Push, PushWaking, NoSleeperBesideWork, TypeOK
<1>6. ASSUME NEW i \in Indexes, Close(i) PROVE NoSleeperBesideWork'
  BY <1>6 DEF Close, NoSleeperBesideWork, TypeOK
<1>7. ASSUME NEW i \in Indexes, Join(i) PROVE NoSleeperBesideWork'
  BY <1>7 DEF Join, WorkersOf, NoSleeperBesideWork, TypeOK
<1>8. ASSUME NEW w \in Workers, LockQueue(w) PROVE NoSleeperBesideWork'
  BY <1>8 DEF LockQueue, NoSleeperBesideWork, TypeOK
<1>9. ASSUME NEW w \in Workers, Wait(w) PROVE NoSleeperBesideWork'
  BY <1>9 DEF Wait, NoSleeperBesideWork, TypeOK
<1>10. ASSUME NEW w \in Workers, Exit(w) PROVE NoSleeperBesideWork'
  BY <1>10 DEF Exit, NoSleeperBesideWork, TypeOK
<1>11. ASSUME NEW w \in Workers, Pop(w) PROVE NoSleeperBesideWork'
  BY <1>11 DEF Pop, NoSleeperBesideWork, TypeOK
<1>12. ASSUME NEW w \in Workers, Rank(w) PROVE NoSleeperBesideWork'
  BY <1>12 DEF Rank, NoSleeperBesideWork, TypeOK
<1>13. ASSUME NEW w \in Workers, Abort(w) PROVE NoSleeperBesideWork'
  BY <1>13 DEF Abort, NoSleeperBesideWork, TypeOK
<1>14. ASSUME NEW w \in Workers, LockResults(w) PROVE NoSleeperBesideWork'
  BY <1>14 DEF LockResults, NoSleeperBesideWork, TypeOK
<1>15. ASSUME NEW w \in Workers, MergeOne(w) PROVE NoSleeperBesideWork'
  BY <1>15 DEF MergeOne, NoSleeperBesideWork, TypeOK
<1>16. ASSUME NEW w \in Workers, UnlockResults(w) PROVE NoSleeperBesideWork'
  BY <1>16 DEF UnlockResults, NoSleeperBesideWork, TypeOK
<1>17. ASSUME NEW w \in Workers, SpuriousWake(w) PROVE NoSleeperBesideWork'
  BY <1>17 DEF SpuriousWake, NoSleeperBesideWork, TypeOK
<1>18. CASE UNCHANGED vars
  BY <1>18 DEF vars, NoSleeperBesideWork, TypeOK
<1> QED
  BY <1>1, <1>2, <1>3, <1>4, <1>5, <1>6, <1>7, <1>8, <1>9, <1>10, <1>11, <1>12, <1>13, <1>14,
     <1>15, <1>16, <1>17, <1>18 DEF Next, MainStep, WorkerStep, WorkersOf

\* No worker is asleep while its queue holds a chunk.
THEOREM NoLostChunkWakeup == Spec => []NoSleeperBesideWork
<1>1. Init => NoSleeperBesideWork
  BY DEF Init, NoSleeperBesideWork
<1> QED
  BY <1>1, SleeperStep, TypeCorrect, PTL DEF Spec

-----------------------------------------------------------------------------
(* No chunk is lost *)

\* One step keeps a pushed chunk queued, in hand, or ranked.
LEMMA AccountedStep ==
  ASSUME TypeOK, Progress, PushedAccounted, [Next]_vars
  PROVE  PushedAccounted'
<1> USE ConstantTypes DEF mainVars, workerVars, history
<1>1. ASSUME NEW i \in Indexes, NEW q \in Queries, StartSearch(i, q) PROVE PushedAccounted'
  <2>1. Pushed(i)' = {} /\ \A j \in Indexes : j # i => Pushed(j)' = Pushed(j)
    BY <1>1 DEF StartSearch, Pushed, TypeOK
  <2> QED
    BY <1>1, <2>1 DEF StartSearch, PushedAccounted, WorkersOf, TypeOK
<1>2. ASSUME NEW w \in Workers, CreateWorker(w) PROVE PushedAccounted'
  BY <1>2 DEF CreateWorker, PushedAccounted, WorkersOf, Pushed, TypeOK
<1>3. ASSUME NEW i \in Indexes, StartPushing(i) PROVE PushedAccounted'
  BY <1>3 DEF StartPushing, PushedAccounted, WorkersOf, Pushed, TypeOK
<1>4. ASSUME NEW i \in Indexes, MainLocksQueue(i) PROVE PushedAccounted'
  BY <1>4 DEF MainLocksQueue, PushedAccounted, WorkersOf, Pushed, TypeOK
<1>5. ASSUME NEW i \in Indexes, Push(i) PROVE PushedAccounted'
  <2>1. /\ chunkFileNames[next[i]] \in Chunks /\ next[i] \in 1..Len(chunkFileNames)
    BY <1>5 DEF Push, PushWaking, Progress, TypeOK
  <2>2. /\ EntriesOf(threadQueue'[i]) = EntriesOf(threadQueue[i]) \cup {chunkFileNames[next[i]]}
        /\ \A j \in Indexes : j # i => threadQueue'[j] = threadQueue[j]
    BY <1>5, <2>1, SeqFacts DEF Push, PushWaking, TypeOK
  <2>3. /\ Pushed(i)' = Pushed(i) \cup {chunkFileNames[next[i]]}
        /\ \A j \in Indexes : j # i => Pushed(j)' = Pushed(j)
    BY <1>5, <2>1 DEF Push, PushWaking, Pushed, TypeOK
  <2> QED
    BY <1>5, <2>2, <2>3 DEF Push, PushWaking, PushedAccounted, WorkersOf, TypeOK
<1>6. ASSUME NEW i \in Indexes, Close(i) PROVE PushedAccounted'
  BY <1>6 DEF Close, PushedAccounted, WorkersOf, Pushed, TypeOK
<1>7. ASSUME NEW i \in Indexes, Join(i) PROVE PushedAccounted'
  BY <1>7 DEF Join, PushedAccounted, WorkersOf, Pushed, TypeOK
<1>8. ASSUME NEW w \in Workers, LockQueue(w) PROVE PushedAccounted'
  BY <1>8 DEF LockQueue, PushedAccounted, WorkersOf, Pushed, TypeOK
<1>9. ASSUME NEW w \in Workers, Wait(w) PROVE PushedAccounted'
  BY <1>9 DEF Wait, PushedAccounted, WorkersOf, Pushed, TypeOK
<1>10. ASSUME NEW w \in Workers, Exit(w) PROVE PushedAccounted'
  BY <1>10 DEF Exit, PushedAccounted, WorkersOf, Pushed, TypeOK
<1>11. ASSUME NEW w \in Workers, Pop(w) PROVE PushedAccounted'
  <2>1. /\ EntriesOf(threadQueue[indexOf[w]]) =
             EntriesOf(threadQueue'[indexOf[w]]) \cup {Head(threadQueue[indexOf[w]])}
        /\ \A j \in Indexes : j # indexOf[w] => threadQueue'[j] = threadQueue[j]
    BY <1>11, SeqFacts DEF Pop, TypeOK
  <2>2. \A j \in Indexes : Pushed(j)' = Pushed(j)
    BY <1>11 DEF Pop, Pushed
  <2>3. /\ wpc[w] = "check" /\ wpc' = [wpc EXCEPT ![w] = "ranking"]
        /\ file' = [file EXCEPT ![w] = Head(threadQueue[indexOf[w]])]
        /\ ranked' = ranked
    BY <1>11 DEF Pop
  <2>4. SUFFICES ASSUME NEW j \in Indexes, NEW c \in Pushed(j),
                        c \notin EntriesOf(threadQueue'[j]), c \notin ranked[j]
                 PROVE  \E v \in WorkersOf(j) : wpc'[v] = "ranking" /\ file'[v] = c
    BY <2>2, <2>3 DEF PushedAccounted, WorkersOf
  <2>5. CASE c \in EntriesOf(threadQueue[j])
    <3>1. j = indexOf[w] /\ c = Head(threadQueue[indexOf[w]])
      BY <2>1, <2>4, <2>5
    <3> QED
      BY <2>3, <3>1 DEF WorkersOf, TypeOK
  <2>6. CASE \E v \in WorkersOf(j) : wpc[v] = "ranking" /\ file[v] = c
    BY <2>3, <2>6 DEF WorkersOf, TypeOK
  <2> QED
    BY <2>4, <2>5, <2>6 DEF PushedAccounted
<1>12. ASSUME NEW w \in Workers, Rank(w) PROVE PushedAccounted'
  <2>1. /\ ranked' = [ranked EXCEPT ![indexOf[w]] = @ \cup {file[w]}]
        /\ wpc' = [wpc EXCEPT ![w] = "ranked"]
        /\ UNCHANGED <<next, file, threadQueue>>
    BY <1>12 DEF Rank
  <2> QED
    BY <2>1 DEF PushedAccounted, WorkersOf, Pushed, TypeOK
<1>13. ASSUME NEW w \in Workers, Abort(w) PROVE PushedAccounted'
  BY <1>13 DEF Abort, PushedAccounted, WorkersOf, Pushed, TypeOK
<1>14. ASSUME NEW w \in Workers, LockResults(w) PROVE PushedAccounted'
  BY <1>14 DEF LockResults, PushedAccounted, WorkersOf, Pushed, TypeOK
<1>15. ASSUME NEW w \in Workers, MergeOne(w) PROVE PushedAccounted'
  BY <1>15 DEF MergeOne, PushedAccounted, WorkersOf, Pushed, TypeOK
<1>16. ASSUME NEW w \in Workers, UnlockResults(w) PROVE PushedAccounted'
  BY <1>16 DEF UnlockResults, PushedAccounted, WorkersOf, Pushed, TypeOK
<1>17. ASSUME NEW w \in Workers, SpuriousWake(w) PROVE PushedAccounted'
  BY <1>17 DEF SpuriousWake, PushedAccounted, WorkersOf, Pushed, TypeOK
<1>18. CASE UNCHANGED vars
  BY <1>18 DEF vars, PushedAccounted, WorkersOf, Pushed, TypeOK
<1> QED
  BY <1>1, <1>2, <1>3, <1>4, <1>5, <1>6, <1>7, <1>8, <1>9, <1>10, <1>11, <1>12, <1>13, <1>14,
     <1>15, <1>16, <1>17, <1>18 DEF Next, MainStep, WorkerStep, WorkersOf

\* No interleaving of the workers loses a chunk that was pushed.
THEOREM NoChunkLost == Spec => []PushedAccounted
<1>1. Init => PushedAccounted
  BY DEF Init, PushedAccounted, Pushed
<1> QED
  BY <1>1, AccountedStep, TypeAndProgress, PTL DEF Spec

-----------------------------------------------------------------------------
(* The first search of an Index ranks every chunk, once *)

\* filesToPush is TRUE until the first search closes the queue; a worker that
\* has left found the queue closed and empty, and then nothing is pushed again.
FirstSearchInv ==
  /\ \A i \in Indexes :
       /\ searches[i] = 0 => filesToPush[i] /\ threadQueue[i] = << >> /\ mpc[i] = "idle"
       /\ searches[i] = 1 /\ mpc[i] \in {"create", "push", "close"} => filesToPush[i]
       /\ searches[i] = 1 /\ mpc[i] = "idle" => Chunks = ranked[i]
  /\ \A w \in Workers : searches[indexOf[w]] = 1 /\ wpc[w] = "exited" =>
       ~filesToPush[indexOf[w]] /\ threadQueue[indexOf[w]] = << >>

\* One step keeps it.
LEMMA FirstSearchStep ==
  ASSUME TypeOK, Progress, PushedAccounted, FirstSearchInv, [Next]_vars
  PROVE  FirstSearchInv'
<1> USE ConstantTypes DEF mainVars, workerVars, history
<1>1. ASSUME NEW i \in Indexes, NEW q \in Queries, StartSearch(i, q) PROVE FirstSearchInv'
  BY <1>1, SMTT(30) DEF StartSearch, FirstSearchInv, Progress, TypeOK
<1>2. ASSUME NEW w \in Workers, CreateWorker(w) PROVE FirstSearchInv'
  BY <1>2 DEF CreateWorker, FirstSearchInv, Progress, TypeOK
<1>3. ASSUME NEW i \in Indexes, StartPushing(i) PROVE FirstSearchInv'
  BY <1>3 DEF StartPushing, FirstSearchInv, Progress, TypeOK
<1>4. ASSUME NEW i \in Indexes, MainLocksQueue(i) PROVE FirstSearchInv'
  BY <1>4 DEF MainLocksQueue, FirstSearchInv, Progress, TypeOK
<1>5. ASSUME NEW i \in Indexes, Push(i) PROVE FirstSearchInv'
  BY <1>5 DEF Push, PushWaking, FirstSearchInv, Progress, TypeOK
<1>6. ASSUME NEW i \in Indexes, Close(i) PROVE FirstSearchInv'
  BY <1>6 DEF Close, FirstSearchInv, Progress, TypeOK
<1>7. ASSUME NEW i \in Indexes, Join(i) PROVE FirstSearchInv'
  <2>1. ASSUME searches[i] = 1 PROVE Chunks \subseteq ranked[i]
    <3>1. Pushed(i) = Chunks
      BY <1>7, ChunksAssumption DEF Join, Progress, Pushed
    <3>2. EntriesOf(threadQueue[i]) = {}
      <4>1. PICK w \in Workers : indexOf[w] = i
        BY ThreadsAssumption
      <4>2. threadQueue[i] = << >>
        BY <1>7, <2>1, <4>1 DEF Join, WorkersOf, FirstSearchInv
      <4> QED
        BY <4>2 DEF EntriesOf
    <3>3. \A w \in WorkersOf(i) : wpc[w] # "ranking"
      BY <1>7 DEF Join
    <3> QED
      BY <3>1, <3>2, <3>3 DEF PushedAccounted
  <2>2. ranked[i] \subseteq Chunks
    BY DEF TypeOK
  <2>3. searches[i] = 1 => Chunks = ranked[i]
    BY <2>1, <2>2
  <2>4. /\ mpc' = [mpc EXCEPT ![i] = "idle"] /\ mpc[i] = "join"
        /\ UNCHANGED <<searches, filesToPush, threadQueue, ranked>>
        /\ \A w \in Workers : wpc'[w] = "exited" => wpc[w] = "exited"
    BY <1>7 DEF Join, TypeOK
  <2> QED
    BY <2>3, <2>4 DEF FirstSearchInv, TypeOK
<1>8. ASSUME NEW w \in Workers, LockQueue(w) PROVE FirstSearchInv'
  BY <1>8 DEF LockQueue, FirstSearchInv, Progress, TypeOK
<1>9. ASSUME NEW w \in Workers, Wait(w) PROVE FirstSearchInv'
  BY <1>9 DEF Wait, FirstSearchInv, Progress, TypeOK
<1>10. ASSUME NEW w \in Workers, Exit(w) PROVE FirstSearchInv'
  BY <1>10 DEF Exit, FirstSearchInv, Progress, TypeOK
<1>11. ASSUME NEW w \in Workers, Pop(w) PROVE FirstSearchInv'
  BY <1>11 DEF Pop, FirstSearchInv, Progress, TypeOK
<1>12. ASSUME NEW w \in Workers, Rank(w) PROVE FirstSearchInv'
  BY <1>12 DEF Rank, FirstSearchInv, Progress, TypeOK
<1>13. ASSUME NEW w \in Workers, Abort(w) PROVE FirstSearchInv'
  BY <1>13 DEF Abort, FirstSearchInv, Progress, TypeOK
<1>14. ASSUME NEW w \in Workers, LockResults(w) PROVE FirstSearchInv'
  BY <1>14 DEF LockResults, FirstSearchInv, Progress, TypeOK
<1>15. ASSUME NEW w \in Workers, MergeOne(w) PROVE FirstSearchInv'
  BY <1>15 DEF MergeOne, FirstSearchInv, Progress, TypeOK
<1>16. ASSUME NEW w \in Workers, UnlockResults(w) PROVE FirstSearchInv'
  BY <1>16 DEF UnlockResults, FirstSearchInv, Progress, TypeOK
<1>17. ASSUME NEW w \in Workers, SpuriousWake(w) PROVE FirstSearchInv'
  BY <1>17 DEF SpuriousWake, FirstSearchInv, Progress, TypeOK
<1>18. CASE UNCHANGED vars
  BY <1>18 DEF vars, FirstSearchInv, Progress, TypeOK
<1> QED
  BY <1>1, <1>2, <1>3, <1>4, <1>5, <1>6, <1>7, <1>8, <1>9, <1>10, <1>11, <1>12, <1>13, <1>14,
     <1>15, <1>16, <1>17, <1>18 DEF Next, MainStep, WorkerStep, WorkersOf

\* The first search of an Index that returns has ranked every chunk.
THEOREM FirstSearchRanksAll == Spec => []FirstSearchComplete
<1>1. Init => FirstSearchInv
  BY DEF Init, FirstSearchInv
<1>2. FirstSearchInv => FirstSearchComplete
  BY DEF FirstSearchInv, FirstSearchComplete
<1> QED
  BY <1>1, <1>2, FirstSearchStep, TypeAndProgress, NoChunkLost, PTL DEF Spec

\* A sequence without repetitions stays one when its head is taken, and the
\* head is then gone, or when a new element is added.
NoRepeat(s) == \A j, k \in DOMAIN s : s[j] = s[k] => j = k

LEMMA NoRepeatFacts ==
  ASSUME NEW S, NEW s \in Seq(S), NoRepeat(s)
  PROVE  /\ s # << >> => NoRepeat(Tail(s)) /\ Head(s) \notin EntriesOf(Tail(s))
         /\ \A x \in S : x \notin EntriesOf(s) => NoRepeat(Append(s, x))
<1>1. Len(s) \in Nat /\ DOMAIN s = 1..Len(s)
  OBVIOUS
<1>2. ASSUME s # << >>
      PROVE  NoRepeat(Tail(s)) /\ Head(s) \notin EntriesOf(Tail(s))
  <2>1. /\ Len(s) > 0 /\ Head(s) = s[1]
        /\ DOMAIN Tail(s) = 1..(Len(s) - 1)
        /\ \A j \in 1..(Len(s) - 1) : Tail(s)[j] = s[j + 1]
    BY <1>2
  <2>2. ASSUME NEW j \in 1..(Len(s) - 1), NEW k \in 1..(Len(s) - 1),
               Tail(s)[j] = Tail(s)[k]
        PROVE  j = k
    <3>1. j + 1 \in 1..Len(s) /\ k + 1 \in 1..Len(s) /\ s[j + 1] = s[k + 1]
      BY <1>1, <2>1, <2>2
    <3>2. j + 1 = k + 1
      BY <1>1, <3>1 DEF NoRepeat
    <3> QED
      BY <3>2
  <2>3. ASSUME NEW j \in 1..(Len(s) - 1) PROVE Tail(s)[j] # Head(s)
    BY <1>1, <2>1 DEF NoRepeat
  <2> QED
    BY <2>1, <2>2, <2>3 DEF NoRepeat, EntriesOf
<1>3. ASSUME NEW x \in S, x \notin EntriesOf(s) PROVE NoRepeat(Append(s, x))
  <2>1. /\ DOMAIN Append(s, x) = 1..(Len(s) + 1)
        /\ \A j \in 1..Len(s) : Append(s, x)[j] = s[j] /\ s[j] # x
        /\ Append(s, x)[Len(s) + 1] = x
    BY <1>1, <1>3 DEF EntriesOf
  <2>2. \A j \in 1..(Len(s) + 1) : j \in 1..Len(s) \/ j = Len(s) + 1
    BY <1>1
  <2> QED
    BY <1>1, <2>1, <2>2 DEF NoRepeat
<1> QED
  BY <1>2, <1>3

\* In the first search the queue, the hands of the workers and the ranked
\* chunks hold different pushed chunks.
OnceInv ==
  /\ \A i \in Indexes : searches[i] <= 1 =>
       /\ NoRepeat(threadQueue[i])
       /\ EntriesOf(threadQueue[i]) \subseteq Pushed(i)
       /\ ranked[i] \subseteq Pushed(i)
       /\ EntriesOf(threadQueue[i]) \cap ranked[i] = {}
  /\ \A w \in Workers : searches[indexOf[w]] <= 1 /\ wpc[w] = "ranking" =>
       /\ file[w] \in Pushed(indexOf[w])
       /\ file[w] \notin ranked[indexOf[w]]
       /\ file[w] \notin EntriesOf(threadQueue[indexOf[w]])
       /\ \A v \in WorkersOf(indexOf[w]) :
            wpc[v] = "ranking" /\ file[v] = file[w] => v = w

\* One step keeps them different.
LEMMA OnceStep ==
  ASSUME TypeOK, Progress, FirstSearchInv, OnceInv, [Next]_vars
  PROVE  OnceInv'
<1> USE ConstantTypes DEF mainVars, workerVars, history
<1>1. ASSUME NEW i \in Indexes, NEW q \in Queries, StartSearch(i, q) PROVE OnceInv'
  <2>1. /\ searches' = [searches EXCEPT ![i] = @ + 1]
        /\ ranked' = [ranked EXCEPT ![i] = {}]
        /\ UNCHANGED <<threadQueue, wpc, file>>
        /\ \A j \in Indexes : j # i => Pushed(j)' = Pushed(j)
    BY <1>1 DEF StartSearch, Pushed, TypeOK
  <2>2. searches'[i] <= 1 => threadQueue[i] = << >>
    BY <1>1 DEF StartSearch, FirstSearchInv, TypeOK
  <2>3. threadQueue[i] = << >> => NoRepeat(threadQueue[i]) /\ EntriesOf(threadQueue[i]) = {}
    BY DEF NoRepeat, EntriesOf
  <2>4. \A w \in Workers : indexOf[w] = i => wpc[w] # "ranking"
    BY <1>1 DEF StartSearch, Progress
  <2> QED
    BY <2>1, <2>2, <2>3, <2>4 DEF OnceInv, WorkersOf, TypeOK
<1>2. ASSUME NEW w \in Workers, CreateWorker(w) PROVE OnceInv'
  BY <1>2, SMTT(30) DEF CreateWorker, OnceInv, WorkersOf, Pushed, TypeOK
<1>3. ASSUME NEW i \in Indexes, StartPushing(i) PROVE OnceInv'
  BY <1>3 DEF StartPushing, OnceInv, WorkersOf, Pushed, TypeOK
<1>4. ASSUME NEW i \in Indexes, MainLocksQueue(i) PROVE OnceInv'
  BY <1>4 DEF MainLocksQueue, OnceInv, WorkersOf, Pushed, TypeOK
<1>5. ASSUME NEW i \in Indexes, Push(i) PROVE OnceInv'
  <2> DEFINE c == chunkFileNames[next[i]]
  <2>1. c \in Chunks /\ next[i] \in 1..Len(chunkFileNames)
    BY <1>5 DEF Push, PushWaking, Progress, TypeOK
  <2>2. c \notin Pushed(i)
    <3>1. SUFFICES ASSUME NEW j \in 1..(next[i] - 1), chunkFileNames[j] = c PROVE FALSE
      BY DEF Pushed
    <3>2. j \in 1..Len(chunkFileNames) /\ j # next[i]
      BY <2>1
    <3> QED
      BY <2>1, <3>1, <3>2, ChunksAssumption
  <2>3. /\ threadQueue' = [threadQueue EXCEPT ![i] = Append(@, c)]
        /\ UNCHANGED <<searches, ranked, file>>
        /\ \A w \in Workers : wpc'[w] = "ranking" <=> wpc[w] = "ranking"
    BY <1>5 DEF Push, PushWaking, TypeOK
  <2>4. /\ Pushed(i)' = Pushed(i) \cup {c}
        /\ \A j \in Indexes : j # i => Pushed(j)' = Pushed(j)
    BY <1>5, <2>1 DEF Push, PushWaking, Pushed, TypeOK
  <2>5. /\ EntriesOf(threadQueue'[i]) = EntriesOf(threadQueue[i]) \cup {c}
        /\ searches[i] <= 1 => NoRepeat(threadQueue'[i])
    BY <2>1, <2>2, <2>3, SeqFacts, NoRepeatFacts DEF OnceInv, TypeOK
  <2> HIDE DEF c
  <2>6. searches[i] <= 1 => c \notin ranked[i] /\ c \notin EntriesOf(threadQueue[i])
    BY <2>2 DEF OnceInv
  <2>7. ASSUME NEW j \in Indexes, searches'[j] <= 1
        PROVE  /\ NoRepeat(threadQueue'[j])
               /\ EntriesOf(threadQueue'[j]) \subseteq Pushed(j)'
               /\ ranked'[j] \subseteq Pushed(j)'
               /\ EntriesOf(threadQueue'[j]) \cap ranked'[j] = {}
    <3>1. CASE j = i
      BY <2>3, <2>4, <2>5, <2>6, <2>7, <3>1 DEF OnceInv
    <3>2. CASE j # i
      BY <2>3, <2>4, <2>7, <3>2 DEF OnceInv, TypeOK
    <3> QED
      BY <3>1, <3>2
  <2>8. ASSUME NEW w \in Workers, searches'[indexOf[w]] <= 1, wpc'[w] = "ranking"
        PROVE  /\ file'[w] \in Pushed(indexOf[w])'
               /\ file'[w] \notin ranked'[indexOf[w]]
               /\ file'[w] \notin EntriesOf(threadQueue'[indexOf[w]])
               /\ \A v \in WorkersOf(indexOf[w]) :
                    wpc'[v] = "ranking" /\ file'[v] = file'[w] => v = w
    <3>1. /\ file[w] \in Pushed(indexOf[w])
          /\ file[w] \notin ranked[indexOf[w]]
          /\ file[w] \notin EntriesOf(threadQueue[indexOf[w]])
          /\ \A v \in WorkersOf(indexOf[w]) :
               wpc[v] = "ranking" /\ file[v] = file[w] => v = w
      BY <2>3, <2>8 DEF OnceInv
    <3> QED
      BY <2>2, <2>3, <2>4, <2>5, <3>1, ZenonT(30) DEF WorkersOf, TypeOK
  <2> QED
    BY <2>7, <2>8 DEF OnceInv, WorkersOf
<1>6. ASSUME NEW i \in Indexes, Close(i) PROVE OnceInv'
  BY <1>6 DEF Close, OnceInv, WorkersOf, Pushed, TypeOK
<1>7. ASSUME NEW i \in Indexes, Join(i) PROVE OnceInv'
  BY <1>7 DEF Join, OnceInv, WorkersOf, Pushed, TypeOK
<1>8. ASSUME NEW w \in Workers, LockQueue(w) PROVE OnceInv'
  BY <1>8 DEF LockQueue, OnceInv, WorkersOf, Pushed, TypeOK
<1>9. ASSUME NEW w \in Workers, Wait(w) PROVE OnceInv'
  BY <1>9 DEF Wait, OnceInv, WorkersOf, Pushed, TypeOK
<1>10. ASSUME NEW w \in Workers, Exit(w) PROVE OnceInv'
  BY <1>10 DEF Exit, OnceInv, WorkersOf, Pushed, TypeOK
<1>11. ASSUME NEW w \in Workers, Pop(w) PROVE OnceInv'
  <2> DEFINE c == Head(threadQueue[indexOf[w]])
  <2>1. /\ wpc' = [wpc EXCEPT ![w] = "ranking"] /\ wpc[w] = "check"
        /\ file' = [file EXCEPT ![w] = c]
        /\ threadQueue' = [threadQueue EXCEPT ![indexOf[w]] = Tail(@)]
        /\ threadQueue[indexOf[w]] # << >>
        /\ UNCHANGED <<searches, next, ranked>>
    BY <1>11 DEF Pop
  <2>2. \A j \in Indexes : Pushed(j)' = Pushed(j)
    BY <2>1 DEF Pushed
  <2>3. EntriesOf(threadQueue[indexOf[w]]) = EntriesOf(threadQueue'[indexOf[w]]) \cup {c}
    BY <2>1, SeqFacts DEF TypeOK
  <2>4. searches[indexOf[w]] <= 1 =>
          NoRepeat(threadQueue'[indexOf[w]]) /\ c \notin EntriesOf(threadQueue'[indexOf[w]])
    BY <2>1, NoRepeatFacts DEF OnceInv, TypeOK
  <2> HIDE DEF c
  <2> QED
    BY <2>1, <2>2, <2>3, <2>4, SMTT(30) DEF OnceInv, WorkersOf, TypeOK
<1>12. ASSUME NEW w \in Workers, Rank(w) PROVE OnceInv'
  <2>1. /\ ranked' = [ranked EXCEPT ![indexOf[w]] = @ \cup {file[w]}]
        /\ wpc' = [wpc EXCEPT ![w] = "ranked"] /\ wpc[w] = "ranking"
        /\ UNCHANGED <<searches, next, file, threadQueue>>
    BY <1>12 DEF Rank
  <2>2. \A j \in Indexes : Pushed(j)' = Pushed(j)
    BY <2>1 DEF Pushed
  <2>3. searches[indexOf[w]] <= 1 =>
          /\ file[w] \in Pushed(indexOf[w])
          /\ file[w] \notin EntriesOf(threadQueue[indexOf[w]])
          /\ \A v \in WorkersOf(indexOf[w]) :
               wpc[v] = "ranking" /\ file[v] = file[w] => v = w
    BY <2>1 DEF OnceInv
  <2> QED
    BY <2>1, <2>2, <2>3, SMTT(30) DEF OnceInv, WorkersOf, TypeOK
<1>13. ASSUME NEW w \in Workers, Abort(w) PROVE OnceInv'
  BY <1>13 DEF Abort, OnceInv, WorkersOf, Pushed, TypeOK
<1>14. ASSUME NEW w \in Workers, LockResults(w) PROVE OnceInv'
  BY <1>14 DEF LockResults, OnceInv, WorkersOf, Pushed, TypeOK
<1>15. ASSUME NEW w \in Workers, MergeOne(w) PROVE OnceInv'
  BY <1>15 DEF MergeOne, OnceInv, WorkersOf, Pushed, TypeOK
<1>16. ASSUME NEW w \in Workers, UnlockResults(w) PROVE OnceInv'
  BY <1>16, SMTT(30) DEF UnlockResults, OnceInv, WorkersOf, Pushed, TypeOK
<1>17. ASSUME NEW w \in Workers, SpuriousWake(w) PROVE OnceInv'
  BY <1>17 DEF SpuriousWake, OnceInv, WorkersOf, Pushed, TypeOK
<1>18. CASE UNCHANGED vars
  BY <1>18 DEF vars, OnceInv, WorkersOf, Pushed, TypeOK
<1> QED
  BY <1>1, <1>2, <1>3, <1>4, <1>5, <1>6, <1>7, <1>8, <1>9, <1>10, <1>11, <1>12, <1>13, <1>14,
     <1>15, <1>16, <1>17, <1>18 DEF Next, MainStep, WorkerStep, WorkersOf

\* In the first search of an Index no chunk is handed out a second time.
THEOREM FirstSearchOnce == Spec => []FirstSearchRanksOnce
<1>1. Init => FirstSearchInv /\ OnceInv
  BY DEF Init, FirstSearchInv, OnceInv, NoRepeat, EntriesOf, Pushed
<1>2. OnceInv => FirstSearchRanksOnce
  BY DEF OnceInv, FirstSearchRanksOnce
<1> QED
  BY <1>1, <1>2, OnceStep, FirstSearchStep, TypeAndProgress, NoChunkLost, PTL DEF Spec

-----------------------------------------------------------------------------
(* topTen keeps the best entries *)

\* No Ranker returns an entry whose rank is NaN.
ComparableRanks ==
  \A q \in Queries : \A c \in Chunks : \A l \in Found[q][c] :
    \A x \in EntriesOf(l) : x.rank \in Int

Comparable(t) == \A j \in 1..K : t[j].rank \in Int

\* Merging one more entry keeps topTen in order, puts the entry in it or
\* leaves it out for good reason, and does so with no other entry.
LEMMA MergeKeeps ==
  ASSUME NEW t \in [1..K -> Entry], Comparable(t), Sorted(t),
         NEW e \in Entry, e.rank \in Int
  PROVE  /\ Comparable(Merge(t, e)) /\ Sorted(Merge(t, e)) /\ Keeps(Merge(t, e), e)
         /\ \A x : x.rank \in Int /\ Keeps(t, x) => Keeps(Merge(t, e), x)
<1>1. K \in Nat \ {0} /\ NaN \notin Int
  BY EntriesAssumption
<1>2. CASE AtMost(e.rank, t[K].rank)
  BY <1>2 DEF Merge, Keeps
<1>3. CASE ~AtMost(e.rank, t[K].rank)
  <2> DEFINE p == Slot(t, e.rank)
             u == Insert(t, e)
  <2>1. /\ p \in 1..K
        /\ p = 1 \/ ~Below(t[p - 1].rank, e.rank)
        /\ \A j \in p..(K - 1) : Below(t[j].rank, e.rank)
    BY SlotStops DEF Ranks
  <2>2. /\ \A j \in 1..K : j < p => u[j] = t[j]
        /\ u[p] = e
        /\ \A j \in 1..K : j > p => u[j] = t[j - 1] /\ j - 1 \in 1..K
    BY <1>1, <2>1 DEF Insert
  <2>3. Merge(t, e) = u
    BY <1>3 DEF Merge
  <2>4. t[K].rank < e.rank
    BY <1>1, <1>3 DEF AtMost, Comparable
  <2> HIDE DEF p, u
  <2>5. Comparable(u)
    <3>1. SUFFICES ASSUME NEW j \in 1..K PROVE u[j].rank \in Int
      BY DEF Comparable
    <3>2. j < p \/ j = p \/ j > p
      BY <1>1, <2>1
    <3> QED
      BY <2>2, <3>2 DEF Comparable
  <2>6. Sorted(u)
    <3>1. SUFFICES ASSUME NEW j \in 1..(K - 1) PROVE u[j + 1].rank <= u[j].rank
      <4>1. \A j \in 1..(K - 1) : u[j].rank # NaN /\ u[j + 1].rank # NaN
        BY <1>1, <2>5 DEF Comparable
      <4> QED
        BY <3>1, <4>1 DEF Sorted, AtMost
    <3>2. j \in 1..K /\ j + 1 \in 1..K /\ t[j + 1].rank <= t[j].rank
      BY <1>1 DEF Sorted, AtMost
    <3>3. CASE j + 1 < p
      BY <1>1, <2>1, <2>2, <3>2, <3>3
    <3>4. CASE j + 1 = p
      <4>1. u[j + 1] = e /\ u[j] = t[p - 1]
        BY <1>1, <2>1, <2>2, <3>2, <3>4
      <4>2. t[p - 1].rank \in Int /\ ~(t[p - 1].rank < e.rank)
        BY <1>1, <2>1, <3>2, <3>4 DEF Below, Comparable
      <4> QED
        BY <4>1, <4>2
    <3>5. CASE j = p
      <4>1. u[j + 1] = t[j] /\ u[j] = e
        BY <1>1, <2>1, <2>2, <3>2, <3>5
      <4>2. t[j].rank < e.rank
        BY <1>1, <2>1, <3>5 DEF Below
      <4> QED
        BY <3>2, <4>1, <4>2 DEF Comparable
    <3>6. CASE j > p
      <4>1. u[j + 1] = t[j] /\ u[j] = t[j - 1] /\ j - 1 \in 1..(K - 1)
        BY <1>1, <2>1, <2>2, <3>2, <3>6
      <4>2. t[j].rank <= t[j - 1].rank
        BY <1>1, <4>1 DEF Sorted, AtMost
      <4> QED
        BY <4>1, <4>2
    <3> QED
      BY <1>1, <2>1, <3>2, <3>3, <3>4, <3>5, <3>6
  <2>7. Keeps(u, e)
    BY <2>1, <2>2 DEF Keeps
  <2>8. t[K].rank <= u[K].rank
    <3>1. CASE p = K
      BY <1>1, <2>2, <2>4, <3>1 DEF Comparable
    <3>2. CASE p < K
      <4>1. u[K] = t[K - 1] /\ K - 1 \in 1..(K - 1) /\ (K - 1) + 1 = K
        BY <1>1, <2>1, <2>2, <3>2
      <4> QED
        BY <1>1, <4>1 DEF Sorted, AtMost
    <3> QED
      BY <1>1, <2>1, <3>1, <3>2
  <2>9. ASSUME NEW x, x.rank \in Int, Keeps(t, x) PROVE Keeps(u, x)
    <3>0. K \in 1..K /\ t[K].rank \in Int /\ u[K].rank \in Int
      BY <1>1, <2>5 DEF Comparable
    <3>1. CASE x.rank <= t[K].rank
      <4>1. x.rank <= u[K].rank
        BY <2>8, <2>9, <3>0, <3>1
      <4> QED
        BY <1>1, <2>9, <3>0, <4>1 DEF Keeps, AtMost
    <3>2. CASE ~(x.rank <= t[K].rank)
      <4>1. PICK j \in 1..K : t[j] = x
        BY <2>9, <3>2 DEF Keeps, AtMost
      <4>2. j # K
        BY <2>9, <3>2, <4>1
      <4>3. CASE j < p
        BY <2>2, <4>1, <4>3 DEF Keeps
      <4>4. CASE j >= p
        <5>1. j + 1 \in 1..K /\ u[j + 1] = t[j]
          BY <1>1, <2>1, <2>2, <4>1, <4>2, <4>4
        <5> QED
          BY <4>1, <5>1 DEF Keeps
      <4> QED
        BY <1>1, <2>1, <4>3, <4>4
    <3> QED
      BY <3>1, <3>2
  <2> QED
    BY <2>3, <2>5, <2>6, <2>7, <2>9
<1> QED
  BY <1>2, <1>3

\* topTen is in order and keeps what was found, and only a worker between
\* getTopTen and the end of its merge has results, which were found.
BestInv ==
  /\ \A i \in Indexes :
       /\ Comparable(topTen[i])
       /\ Sorted(topTen[i])
       /\ \A x \in found[i] : x.rank \in Int
       /\ \A x \in found[i] \ Pending(i) : Keeps(topTen[i], x)
  /\ \A w \in Workers :
       /\ EntriesOf(results[w]) \subseteq found[indexOf[w]]
       /\ wpc[w] \notin {"ranked", "merging"} => results[w] = << >>

\* One step keeps it.
LEMMA BestStep ==
  ASSUME ComparableRanks, TypeOK, Progress, BestInv, [Next]_vars
  PROVE  BestInv'
<1> USE ConstantTypes DEF mainVars, workerVars, history
<1>1. ASSUME NEW i \in Indexes, NEW q \in Queries, StartSearch(i, q) PROVE BestInv'
  <2> DEFINE blanks == [j \in 1..K |-> Blank]
  <2>1. Comparable(blanks) /\ Sorted(blanks)
    BY EntriesAssumption DEF Comparable, Sorted, AtMost, Blank
  <2> HIDE DEF blanks
  <2>2. /\ topTen' = [topTen EXCEPT ![i] = blanks]
        /\ found' = [found EXCEPT ![i] = {}]
        /\ UNCHANGED <<wpc, results>>
    BY <1>1 DEF StartSearch, blanks
  <2>3. \A w \in Workers : indexOf[w] = i => results[w] = << >>
    BY <1>1 DEF StartSearch, Progress, BestInv
  <2>4. \A w \in Workers : EntriesOf(results'[w]) \subseteq found'[indexOf[w]]
    BY <2>2, <2>3 DEF BestInv, EntriesOf, TypeOK
  <2> QED
    BY <2>1, <2>2, <2>4 DEF BestInv, Pending, WorkersOf, TypeOK
<1>2. ASSUME NEW w \in Workers, CreateWorker(w) PROVE BestInv'
  BY <1>2 DEF CreateWorker, BestInv, Pending, WorkersOf, TypeOK
<1>3. ASSUME NEW i \in Indexes, StartPushing(i) PROVE BestInv'
  BY <1>3 DEF StartPushing, BestInv, Pending, WorkersOf, TypeOK
<1>4. ASSUME NEW i \in Indexes, MainLocksQueue(i) PROVE BestInv'
  BY <1>4 DEF MainLocksQueue, BestInv, Pending, WorkersOf, TypeOK
<1>5. ASSUME NEW i \in Indexes, Push(i) PROVE BestInv'
  BY <1>5, SMTT(30) DEF Push, PushWaking, BestInv, Pending, WorkersOf, TypeOK
<1>6. ASSUME NEW i \in Indexes, Close(i) PROVE BestInv'
  BY <1>6 DEF Close, BestInv, Pending, WorkersOf, TypeOK
<1>7. ASSUME NEW i \in Indexes, Join(i) PROVE BestInv'
  BY <1>7 DEF Join, BestInv, Pending, WorkersOf, TypeOK
<1>8. ASSUME NEW w \in Workers, LockQueue(w) PROVE BestInv'
  BY <1>8 DEF LockQueue, BestInv, Pending, WorkersOf, TypeOK
<1>9. ASSUME NEW w \in Workers, Wait(w) PROVE BestInv'
  BY <1>9 DEF Wait, BestInv, Pending, WorkersOf, TypeOK
<1>10. ASSUME NEW w \in Workers, Exit(w) PROVE BestInv'
  BY <1>10, SMTT(30) DEF Exit, BestInv, Pending, WorkersOf, TypeOK
<1>11. ASSUME NEW w \in Workers, Pop(w) PROVE BestInv'
  BY <1>11 DEF Pop, BestInv, Pending, WorkersOf, TypeOK
<1>12. ASSUME NEW w \in Workers, Rank(w) PROVE BestInv'
  <2>1. PICK l \in Found[query[indexOf[w]]][file[w]] :
             /\ results' = [results EXCEPT ![w] = l]
             /\ found' = [found EXCEPT ![indexOf[w]] = @ \cup EntriesOf(l)]
    BY <1>12 DEF Rank
  <2>2. /\ wpc' = [wpc EXCEPT ![w] = "ranked"] /\ wpc[w] = "ranking"
        /\ UNCHANGED topTen
    BY <1>12 DEF Rank
  <2>3. \A x \in EntriesOf(l) : x.rank \in Int
    BY <2>1, <2>2 DEF ComparableRanks, Progress
  <2>4. results[w] = << >> /\ EntriesOf(results[w]) = {}
    BY <2>2 DEF BestInv, EntriesOf
  <2>5. /\ Pending(indexOf[w])' = Pending(indexOf[w]) \cup EntriesOf(l)
        /\ \A i \in Indexes : i # indexOf[w] => Pending(i)' = Pending(i)
    <3>1. \A v \in Workers : EntriesOf(results'[v]) =
             IF v = w THEN EntriesOf(l) ELSE EntriesOf(results[v])
      BY <2>1 DEF TypeOK
    <3>2. \A i \in Indexes : Pending(i)' = UNION {EntriesOf(results'[v]) : v \in WorkersOf(i)}
      BY DEF Pending, WorkersOf
    <3> HIDE DEF EntriesOf
    <3> QED
      BY <2>4, <3>1, <3>2 DEF Pending, WorkersOf
  <2>6. ASSUME NEW i \in Indexes
        PROVE  /\ \A x \in found'[i] : x.rank \in Int
               /\ \A x \in found'[i] \ Pending(i)' : Keeps(topTen[i], x)
    BY <2>1, <2>3, <2>5 DEF BestInv, TypeOK
  <2>7. \A v \in Workers :
          /\ EntriesOf(results'[v]) \subseteq found'[indexOf[v]]
          /\ wpc'[v] \notin {"ranked", "merging"} => results'[v] = << >>
    BY <2>1, <2>2 DEF BestInv, TypeOK
  <2> QED
    BY <2>2, <2>6, <2>7 DEF BestInv
<1>13. ASSUME NEW w \in Workers, Abort(w) PROVE BestInv'
  BY <1>13 DEF Abort, BestInv, Pending, WorkersOf, TypeOK
<1>14. ASSUME NEW w \in Workers, LockResults(w) PROVE BestInv'
  BY <1>14 DEF LockResults, BestInv, Pending, WorkersOf, TypeOK
<1>15. ASSUME NEW w \in Workers, MergeOne(w) PROVE BestInv'
  <2> DEFINE i == indexOf[w]
             e == Head(results[w])
  <2>1. /\ wpc[w] = "merging" /\ results[w] # << >>
        /\ topTen' = [topTen EXCEPT ![i] = Merge(@, e)]
        /\ results' = [results EXCEPT ![w] = Tail(@)]
        /\ UNCHANGED <<wpc, found>>
    BY <1>15 DEF MergeOne
  <2>2. /\ e \in Entry
        /\ EntriesOf(results[w]) = EntriesOf(Tail(results[w])) \cup {e}
    BY <2>1, SeqFacts DEF TypeOK
  <2>3. e \in found[i] /\ e.rank \in Int
    BY <2>2 DEF BestInv
  <2>4. topTen[i] \in [1..K -> Entry] /\ i \in Indexes
    BY DEF TypeOK
  <2> HIDE DEF i, e
  <2>5. /\ Comparable(topTen'[i]) /\ Sorted(topTen'[i]) /\ Keeps(topTen'[i], e)
        /\ \A x : x.rank \in Int /\ Keeps(topTen[i], x) => Keeps(topTen'[i], x)
    BY <2>1, <2>2, <2>3, <2>4, MergeKeeps, ZenonT(30) DEF BestInv, TypeOK
  <2>6. /\ Pending(i) \subseteq Pending(i)' \cup {e}
        /\ \A k \in Indexes : k # i => Pending(k)' = Pending(k)
    <3>1. \A v \in Workers : /\ EntriesOf(results[v]) \subseteq EntriesOf(results'[v]) \cup {e}
                             /\ v # w => results'[v] = results[v]
      BY <2>1, <2>2 DEF TypeOK
    <3>2. \A k \in Indexes : Pending(k)' = UNION {EntriesOf(results'[v]) : v \in WorkersOf(k)}
      BY DEF Pending, WorkersOf
    <3>3. indexOf[w] = i
      BY DEF i
    <3> QED
      BY <3>1, <3>2, <3>3 DEF Pending, WorkersOf
  <2>7. ASSUME NEW x \in found[i] \ Pending(i)' PROVE Keeps(topTen'[i], x)
    BY <2>4, <2>5, <2>6 DEF BestInv
  <2>8. \A k \in Indexes : k # i => topTen'[k] = topTen[k]
    BY <2>1 DEF TypeOK
  <2>9. \A v \in Workers :
          /\ EntriesOf(results'[v]) \subseteq found[indexOf[v]]
          /\ wpc[v] \notin {"ranked", "merging"} => results'[v] = << >>
    BY <2>1, <2>2 DEF BestInv, TypeOK
  <2> QED
    BY <2>1, <2>5, <2>6, <2>7, <2>8, <2>9 DEF BestInv
<1>16. ASSUME NEW w \in Workers, UnlockResults(w) PROVE BestInv'
  BY <1>16 DEF UnlockResults, BestInv, Pending, WorkersOf, TypeOK
<1>17. ASSUME NEW w \in Workers, SpuriousWake(w) PROVE BestInv'
  BY <1>17 DEF SpuriousWake, BestInv, Pending, WorkersOf, TypeOK
<1>18. CASE UNCHANGED vars
  BY <1>18 DEF vars, BestInv, Pending, WorkersOf, TypeOK
<1> QED
  BY <1>1, <1>2, <1>3, <1>4, <1>5, <1>6, <1>7, <1>8, <1>9, <1>10, <1>11, <1>12, <1>13, <1>14,
     <1>15, <1>16, <1>17, <1>18 DEF Next, MainStep, WorkerStep, WorkersOf

\* As long as no rank is NaN, topTen is in order and no found entry that
\* deserves a place in it is lost, whatever the order of the merges.
THEOREM TopTenKept ==
  ASSUME ComparableRanks
  PROVE  Spec => []TopTenIsBest
<1>1. Init => BestInv
  <2>1. ASSUME Init PROVE BestInv
    <3> DEFINE blanks == [j \in 1..K |-> Blank]
    <3>1. Comparable(blanks) /\ Sorted(blanks)
      BY EntriesAssumption DEF Comparable, Sorted, AtMost, Blank
    <3> HIDE DEF blanks
    <3>2. \A i \in Indexes : topTen[i] = blanks /\ found[i] = {}
      BY <2>1 DEF Init, blanks
    <3>3. \A w \in Workers : results[w] = << >> /\ EntriesOf(results[w]) = {}
      BY <2>1 DEF Init, EntriesOf
    <3> QED
      BY <3>1, <3>2, <3>3 DEF BestInv
  <2> QED
    BY <2>1
<1>2. BestInv => TopTenIsBest
  BY DEF BestInv, TopTenIsBest
<1>3. TypeOK /\ Progress /\ BestInv /\ [Next]_vars => BestInv'
  BY BestStep
<1> QED
  BY <1>1, <1>2, <1>3, TypeAndProgress, PTL DEF Spec

-----------------------------------------------------------------------------
(* The first search of an Index implements SearchAnswer. *)

\* An entry that ranks above a blank one.
Counts(x) == x.rank > 0

\* The entries of a list that count are in it once.
Single(l) == \A j, k \in DOMAIN l : l[j] = l[k] /\ Counts(l[j]) => j = k

\* No page that counts is in two chunks, or twice in the results of one: what
\* the crawler and Ranker owe to the merge, which compares ranks and not urls.
DistinctEntries ==
  \A q \in Queries : \A c \in Chunks : \A l \in Found[q][c] :
    /\ Single(l)
    /\ \A other \in Chunks \ {c} : \A m \in Found[q][other] :
         \A x \in EntriesOf(l) \cap EntriesOf(m) : ~Counts(x)

-----------------------------------------------------------------------------
(* What the abstract answer needs beyond the invariants of ChunkSearch *)

\* topTen shows an entry once, and only entries of a set that count.
Shows(t, c) ==
  /\ \A j \in 1..K : t[j] = Blank \/ (t[j] \in c /\ Counts(t[j]))
  /\ \A j, k \in 1..K : t[j] = t[k] => j = k \/ t[j] = Blank
  /\ \A j \in 1..K : t[j].rank >= 0

\* An entry of l that counts is new to topTen t.
NewTo(t, l) == \A x \in EntriesOf(l) : Counts(x) => \A j \in 1..K : t[j] # x

\* In the first search of an Index topTen and the results being merged hold
\* different entries, each found in one of the chunks ranked so far.
AnswerInv ==
  /\ \A i \in Indexes : searches[i] = 0 => ranked[i] = {} /\ found[i] = {}
  /\ \A i \in Indexes : searches[i] <= 1 =>
       /\ Shows(topTen[i], found[i])
       /\ \A x \in found[i] : Counts(x) =>
            \E c \in ranked[i] : \E l \in Found[query[i]][c] : x \in EntriesOf(l)
  /\ \A w \in Workers : searches[indexOf[w]] <= 1 =>
       /\ Single(results[w])
       /\ NewTo(topTen[indexOf[w]], results[w])
       /\ \A v \in WorkersOf(indexOf[w]) : v # w =>
            \A x \in EntriesOf(results[v]) \cap EntriesOf(results[w]) : ~Counts(x)

\* Merging an entry that is new shows it, and nothing else that was not shown.
LEMMA MergeShows ==
  ASSUME NEW t \in [1..K -> Entry], Comparable(t), Sorted(t),
         NEW c, Shows(t, c),
         NEW e \in c, e.rank \in Int, Counts(e) => \A j \in 1..K : t[j] # e
  PROVE  /\ Shows(Merge(t, e), c)
         /\ \A x : x # e /\ (\A j \in 1..K : t[j] # x) =>
              \A j \in 1..K : Merge(t, e)[j] # x
<1>1. K \in Nat \ {0} /\ NaN \notin Int /\ K \in 1..K
  BY EntriesAssumption
<1>2. CASE AtMost(e.rank, t[K].rank)
  BY <1>2 DEF Merge
<1>3. CASE ~AtMost(e.rank, t[K].rank)
  <2> DEFINE p == Slot(t, e.rank)
             u == Insert(t, e)
  <2>1. p \in 1..K
    BY <1>3, SlotStops DEF Ranks
  <2>2. /\ \A j \in 1..K : j < p => u[j] = t[j]
        /\ u[p] = e
        /\ \A j \in 1..K : j > p => u[j] = t[j - 1] /\ j - 1 \in 1..K
    BY <1>1, <2>1 DEF Insert
  <2>3. Merge(t, e) = u
    BY <1>3 DEF Merge
  <2>4. Counts(e) /\ e.rank >= 0 /\ \A j \in 1..K : t[j] # e
    <3>1. t[K].rank < e.rank /\ t[K].rank \in Int /\ t[K].rank >= 0
      BY <1>1, <1>3 DEF AtMost, Comparable, Shows
    <3> QED
      BY <3>1 DEF Counts
  <2> HIDE DEF p, u
  <2>5. \A j \in 1..K : j < p \/ j = p \/ j > p
    BY <1>1, <2>1
  <2>6. \A j \in 1..K : u[j] = Blank \/ (u[j] \in c /\ Counts(u[j]))
    BY <2>2, <2>4, <2>5 DEF Shows
  <2>7. \A j \in 1..K : u[j].rank >= 0
    BY <2>2, <2>4, <2>5 DEF Shows
  <2>8. ASSUME NEW j \in 1..K, NEW k \in 1..K, u[j] = u[k], j < k PROVE u[j] = Blank
    <3>1. CASE k < p
      BY <1>1, <2>1, <2>2, <2>8, <3>1 DEF Shows
    <3>2. CASE k = p
      <4>1. t[j] = e
        BY <2>2, <2>8, <3>2
      <4> QED
        BY <2>4, <4>1
    <3>3. CASE j = p
      <4>1. k - 1 \in 1..K /\ t[k - 1] = e
        BY <2>2, <2>8, <3>3
      <4> QED
        BY <2>4, <4>1
    <3>4. CASE k > p /\ j < p
      <4>1. k - 1 \in 1..K /\ u[j] = t[j] /\ t[k - 1] = t[j] /\ j # k - 1
        BY <1>1, <2>1, <2>2, <2>8, <3>4
      <4> QED
        BY <4>1 DEF Shows
    <3>5. CASE j > p
      <4>1. /\ k - 1 \in 1..K /\ j - 1 \in 1..K /\ j - 1 # k - 1
            /\ u[j] = t[j - 1] /\ t[k - 1] = t[j - 1]
        BY <1>1, <2>1, <2>2, <2>8, <3>5
      <4> QED
        BY <4>1 DEF Shows
    <3> QED
      BY <1>1, <2>1, <2>8, <3>1, <3>2, <3>3, <3>4, <3>5
  <2>9. \A j, k \in 1..K : u[j] = u[k] => j = k \/ u[j] = Blank
    <3>1. \A j, k \in 1..K : j = k \/ j < k \/ k < j
      BY <1>1
    <3> QED
      BY <2>8, <3>1
  <2>10. ASSUME NEW x, x # e, \A j \in 1..K : t[j] # x, NEW j \in 1..K PROVE u[j] # x
    BY <2>2, <2>5, <2>10
  <2> QED
    BY <2>3, <2>6, <2>7, <2>9, <2>10 DEF Shows
<1> QED
  BY <1>2, <1>3

\* One step keeps the invariant.
LEMMA AnswerStep ==
  ASSUME ComparableRanks, DistinctEntries,
         TypeOK, Progress, OnceInv, BestInv, AnswerInv, [Next]_vars
  PROVE  AnswerInv'
<1> USE ConstantTypes DEF mainVars, workerVars, history
<1>1. ASSUME NEW i \in Indexes, NEW q \in Queries, StartSearch(i, q) PROVE AnswerInv'
  <2> DEFINE blanks == [j \in 1..K |-> Blank]
  <2>1. /\ searches' = [searches EXCEPT ![i] = @ + 1] /\ searches[i] \in Nat
        /\ topTen' = [topTen EXCEPT ![i] = blanks]
        /\ ranked' = [ranked EXCEPT ![i] = {}]
        /\ found' = [found EXCEPT ![i] = {}]
        /\ \A j \in Indexes : j # i => query'[j] = query[j]
        /\ UNCHANGED <<wpc, results>>
    BY <1>1 DEF StartSearch, TypeOK
  <2>2. \A v \in Workers : indexOf[v] = i => results[v] = << >>
    BY <1>1 DEF StartSearch, Progress, BestInv
  <2>3. Shows(blanks, {})
    BY DEF Shows, Blank
  <2> HIDE DEF blanks
  <2>4. ASSUME NEW j \in Indexes
        PROVE  /\ searches'[j] = 0 => ranked'[j] = {} /\ found'[j] = {}
               /\ searches'[j] <= 1 =>
                    /\ Shows(topTen'[j], found'[j])
                    /\ \A x \in found'[j] : Counts(x) =>
                         \E c \in ranked'[j] : \E l \in Found[query'[j]][c] : x \in EntriesOf(l)
    <3>1. CASE j = i
      BY <2>1, <2>3, <3>1 DEF TypeOK
    <3>2. CASE j # i
      <4>1. /\ searches'[j] = searches[j] /\ topTen'[j] = topTen[j]
            /\ ranked'[j] = ranked[j] /\ found'[j] = found[j] /\ query'[j] = query[j]
        BY <2>1, <3>2 DEF TypeOK
      <4> QED
        BY <4>1 DEF AnswerInv
    <3> QED
      BY <3>1, <3>2
  <2>5. ASSUME NEW w \in Workers, searches'[indexOf[w]] <= 1
        PROVE  /\ Single(results'[w])
               /\ NewTo(topTen'[indexOf[w]], results'[w])
               /\ \A v \in WorkersOf(indexOf[w]) : v # w =>
                    \A x \in EntriesOf(results'[v]) \cap EntriesOf(results'[w]) : ~Counts(x)
    <3>1. CASE indexOf[w] = i
      BY <2>1, <2>2, <3>1 DEF Single, NewTo, EntriesOf
    <3>2. CASE indexOf[w] # i
      <4>1. /\ searches'[indexOf[w]] = searches[indexOf[w]]
            /\ topTen'[indexOf[w]] = topTen[indexOf[w]]
        BY <2>1, <3>2 DEF TypeOK
      <4> QED
        BY <2>1, <2>5, <4>1 DEF AnswerInv
    <3> QED
      BY <3>1, <3>2
  <2> QED
    BY <2>4, <2>5 DEF AnswerInv, WorkersOf
<1>2. ASSUME NEW w \in Workers, Rank(w) PROVE AnswerInv'
  <2> DEFINE i == indexOf[w]
             c == file[w]
  <2>1. PICK l \in Found[query[i]][c] :
             /\ results' = [results EXCEPT ![w] = l]
             /\ found' = [found EXCEPT ![i] = @ \cup EntriesOf(l)]
    BY <1>2 DEF Rank
  <2>2. /\ i \in Indexes /\ c \in Chunks /\ query[i] \in Queries
        /\ ranked' = [ranked EXCEPT ![i] = @ \cup {c}]
        /\ UNCHANGED <<searches, query, topTen>>
        /\ searches[i] <= 1 => c \notin ranked[i]
        /\ searches[i] > 0 /\ ranked[i] \subseteq Chunks
    BY <1>2 DEF Rank, Progress, OnceInv, TypeOK
  <2>3. indexOf[w] = i
    OBVIOUS
  <2> HIDE DEF i, c
  <2>4. Single(l)
    BY <2>1, <2>2 DEF DistinctEntries
  <2>5. ASSUME searches[i] <= 1, NEW x \in EntriesOf(l), Counts(x) PROVE x \notin found[i]
    <3>1. SUFFICES ASSUME x \in found[i] PROVE FALSE
      OBVIOUS
    <3>2. PICK o \in ranked[i] : \E m \in Found[query[i]][o] : x \in EntriesOf(m)
      BY <2>2, <2>5, <3>1 DEF AnswerInv
    <3>3. o \in Chunks \ {c}
      BY <2>2, <2>5
    <3> QED
      BY <2>1, <2>2, <2>5, <3>2, <3>3 DEF DistinctEntries
  <2>6. /\ results'[w] = l
        /\ \A v \in Workers : v # w => results'[v] = results[v]
        /\ found'[i] = found[i] \cup EntriesOf(l)
        /\ ranked'[i] = ranked[i] \cup {c}
        /\ \A j \in Indexes : j # i => found'[j] = found[j] /\ ranked'[j] = ranked[j]
    BY <2>1, <2>2 DEF TypeOK
  <2>7. ASSUME NEW j \in Indexes
        PROVE  /\ searches[j] = 0 => ranked'[j] = {} /\ found'[j] = {}
               /\ searches[j] <= 1 =>
                    /\ Shows(topTen[j], found'[j])
                    /\ \A x \in found'[j] : Counts(x) =>
                         \E o \in ranked'[j] : \E m \in Found[query[j]][o] : x \in EntriesOf(m)
    <3>1. CASE j = i
      <4>1. searches[i] <= 1 => Shows(topTen[i], found'[i])
        BY <2>2, <2>6 DEF AnswerInv, Shows
      <4>2. ASSUME searches[i] <= 1, NEW x \in found'[i], Counts(x)
            PROVE  \E o \in ranked'[i] : \E m \in Found[query[i]][o] : x \in EntriesOf(m)
        BY <2>1, <2>2, <2>6, <4>2 DEF AnswerInv
      <4>3. searches[i] # 0
        BY <2>2 DEF TypeOK
      <4> QED
        BY <3>1, <4>1, <4>2, <4>3
    <3>2. CASE j # i
      BY <2>6, <3>2 DEF AnswerInv
    <3> QED
      BY <3>1, <3>2
  <2>8. ASSUME searches[i] <= 1 PROVE NewTo(topTen[i], l)
    <3>1. SUFFICES ASSUME NEW x \in EntriesOf(l), Counts(x), NEW j \in 1..K, topTen[i][j] = x
                   PROVE  FALSE
      BY DEF NewTo
    <3>2. x # Blank
      BY <3>1 DEF Blank, Counts
    <3>3. x \in found[i]
      BY <2>2, <2>8, <3>1, <3>2 DEF AnswerInv, Shows
    <3> QED
      BY <2>5, <2>8, <3>1, <3>3
  <2>9. ASSUME searches[i] <= 1, NEW v \in Workers, v # w, indexOf[v] = i,
               NEW x \in EntriesOf(results[v]) \cap EntriesOf(l)
        PROVE  ~Counts(x)
    <3>1. x \in found[i]
      BY <2>9 DEF BestInv
    <3> QED
      BY <2>5, <2>9, <3>1
  <2>10. ASSUME NEW o \in Workers, searches[indexOf[o]] <= 1
         PROVE  /\ Single(results'[o])
                /\ NewTo(topTen[indexOf[o]], results'[o])
                /\ \A v \in WorkersOf(indexOf[o]) : v # o =>
                     \A x \in EntriesOf(results'[v]) \cap EntriesOf(results'[o]) : ~Counts(x)
    <3>1. CASE o = w
      BY <2>3, <2>4, <2>6, <2>8, <2>9, <2>10, <3>1 DEF WorkersOf
    <3>2. CASE o # w
      <4>1. /\ results'[o] = results[o] /\ Single(results[o])
            /\ NewTo(topTen[indexOf[o]], results[o])
        BY <2>6, <2>10, <3>2 DEF AnswerInv
      <4>2. ASSUME NEW v \in WorkersOf(indexOf[o]), v # o,
                   NEW x \in EntriesOf(results'[v]) \cap EntriesOf(results'[o])
            PROVE  ~Counts(x)
        <5>1. CASE v = w
          BY <2>3, <2>6, <2>9, <2>10, <3>2, <4>1, <4>2, <5>1 DEF WorkersOf
        <5>2. CASE v # w
          BY <2>6, <2>10, <4>1, <4>2, <5>2 DEF WorkersOf, AnswerInv
        <5> QED
          BY <5>1, <5>2
      <4> QED
        BY <4>1, <4>2
    <3> QED
      BY <3>1, <3>2
  <2> QED
    BY <2>2, <2>7, <2>10 DEF AnswerInv, WorkersOf
<1>3. ASSUME NEW w \in Workers, MergeOne(w) PROVE AnswerInv'
  <2> DEFINE i == indexOf[w]
             e == Head(results[w])
             t == topTen[i]
             u == Merge(t, e)
             rest == Tail(results[w])
  <2>1. /\ i \in Indexes /\ results[w] # << >> /\ results[w] \in Seq(Entry)
        /\ t \in [1..K -> Entry]
        /\ topTen' = [topTen EXCEPT ![i] = u]
        /\ results' = [results EXCEPT ![w] = rest]
        /\ UNCHANGED <<searches, query, ranked, found>>
    BY <1>3 DEF MergeOne, TypeOK
  <2>2. indexOf[w] = i /\ topTen[i] = t
    OBVIOUS
  <2>3. /\ EntriesOf(results[w]) = EntriesOf(rest) \cup {e}
        /\ e \in found[i] /\ e.rank \in Int
        /\ Comparable(t) /\ Sorted(t)
    <3>1. EntriesOf(results[w]) = EntriesOf(rest) \cup {e}
      BY <2>1, SeqFacts
    <3>2. /\ EntriesOf(results[w]) \subseteq found[i]
          /\ \A x \in found[i] : x.rank \in Int
          /\ Comparable(t) /\ Sorted(t)
      BY <2>1 DEF BestInv
    <3> QED
      BY <3>1, <3>2
  <2>4. ASSUME Single(results[w])
        PROVE  /\ Single(rest)
               /\ Counts(e) => e \notin EntriesOf(rest)
    <3>1. /\ Len(results[w]) \in Nat \ {0} /\ e = results[w][1]
          /\ DOMAIN results[w] = 1..Len(results[w])
          /\ DOMAIN rest = 1..(Len(results[w]) - 1)
          /\ \A j \in 1..(Len(results[w]) - 1) : rest[j] = results[w][j + 1]
      BY <2>1
    <3> HIDE DEF e, rest
    <3>2. \A j \in DOMAIN rest :
            j \in Int /\ j + 1 \in DOMAIN results[w] /\ j + 1 # 1 /\ rest[j] = results[w][j + 1]
      BY <3>1
    <3>3. 1 \in DOMAIN results[w]
      BY <3>1
    <3>4. ASSUME NEW j \in DOMAIN rest, rest[j] = e, Counts(e) PROVE FALSE
      <4>1. results[w][j + 1] = results[w][1] /\ Counts(results[w][j + 1])
        BY <3>1, <3>2, <3>4
      <4> QED
        BY <2>4, <3>2, <3>3, <4>1 DEF Single
    <3>5. ASSUME NEW j \in DOMAIN rest, NEW k \in DOMAIN rest, rest[j] = rest[k], Counts(rest[j])
          PROVE  j = k
      <4>1. j + 1 = k + 1
        BY <2>4, <3>2, <3>5 DEF Single
      <4> QED
        BY <3>2, <4>1
    <3> QED
      BY <3>4, <3>5 DEF Single, EntriesOf
  <2> HIDE DEF i, e, t, rest
  <2>5. searches[i] <= 1 =>
          /\ Single(results[w]) /\ Shows(t, found[i])
          /\ Counts(e) => \A j \in 1..K : t[j] # e
    <3>1. SUFFICES ASSUME searches[i] <= 1
                   PROVE  /\ Single(results[w]) /\ Shows(t, found[i])
                          /\ Counts(e) => \A j \in 1..K : t[j] # e
      OBVIOUS
    <3>2. Single(results[w]) /\ NewTo(t, results[w])
      BY <2>2, <3>1 DEF AnswerInv
    <3>3. Shows(t, found[i])
      BY <2>1, <2>2, <3>1 DEF AnswerInv
    <3>4. e \in EntriesOf(results[w])
      BY <2>3
    <3> QED
      BY <3>2, <3>3, <3>4 DEF NewTo
  <2>6. searches[i] <= 1 =>
          /\ Shows(u, found[i])
          /\ \A x : x # e /\ (\A j \in 1..K : t[j] # x) => \A j \in 1..K : u[j] # x
    BY <2>1, <2>3, <2>5, MergeShows
  <2> HIDE DEF u
  <2>7. /\ topTen'[i] = u /\ \A j \in Indexes : j # i => topTen'[j] = topTen[j]
        /\ results'[w] = rest /\ \A v \in Workers : v # w => results'[v] = results[v]
    BY <2>1 DEF TypeOK
  <2>8. \A j \in Indexes : searches[j] <= 1 => Shows(topTen'[j], found[j])
    BY <2>6, <2>7 DEF AnswerInv
  <2>9. ASSUME NEW o \in Workers, searches[indexOf[o]] <= 1
        PROVE  /\ Single(results'[o])
               /\ NewTo(topTen'[indexOf[o]], results'[o])
               /\ \A v \in WorkersOf(indexOf[o]) : v # o =>
                    \A x \in EntriesOf(results'[v]) \cap EntriesOf(results'[o]) : ~Counts(x)
    <3>1. \A v \in Workers : EntriesOf(results'[v]) \subseteq EntriesOf(results[v])
      BY <2>3, <2>7
    <3>2. \A v \in WorkersOf(indexOf[o]) : v # o =>
            \A x \in EntriesOf(results'[v]) \cap EntriesOf(results'[o]) : ~Counts(x)
      BY <2>9, <3>1 DEF AnswerInv, WorkersOf
    <3>3. Single(results'[o])
      BY <2>2, <2>4, <2>5, <2>7, <2>9 DEF AnswerInv
    <3>4. CASE indexOf[o] # i
      <4>1. o # w /\ topTen'[indexOf[o]] = topTen[indexOf[o]] /\ results'[o] = results[o]
        BY <2>2, <2>7, <3>4
      <4> QED
        BY <2>9, <3>2, <3>3, <4>1 DEF AnswerInv
    <3>5. CASE indexOf[o] = i
      <4>1. ASSUME NEW x \in EntriesOf(results'[o]), Counts(x)
            PROVE  \A j \in 1..K : u[j] # x
        <5>1. \A j \in 1..K : t[j] # x
          BY <2>2, <2>9, <3>1, <3>5, <4>1 DEF AnswerInv, NewTo
        <5>2. x # e
          <6>1. CASE o = w
            BY <2>4, <2>5, <2>7, <2>9, <3>5, <4>1, <6>1
          <6>2. CASE o # w
            <7>1. e \in EntriesOf(results[w]) /\ w \in WorkersOf(indexOf[o])
              BY <2>2, <2>3, <3>5 DEF WorkersOf
            <7> QED
              BY <2>7, <2>9, <4>1, <6>2, <7>1 DEF AnswerInv
          <6> QED
            BY <6>1, <6>2
        <5> QED
          BY <2>6, <2>9, <3>5, <5>1, <5>2
      <4>2. NewTo(topTen'[indexOf[o]], results'[o])
        BY <2>7, <3>5, <4>1 DEF NewTo
      <4> QED
        BY <3>2, <3>3, <4>2
    <3> QED
      BY <3>4, <3>5
  <2> QED
    BY <2>1, <2>8, <2>9 DEF AnswerInv, WorkersOf
<1>4. CASE UNCHANGED <<searches, query, topTen, results, ranked, found>>
  BY <1>4 DEF AnswerInv, WorkersOf
<1> QED
  <2>1. ASSUME NEW i \in Indexes, MainStep(i)
        PROVE  UNCHANGED <<searches, query, topTen, results, ranked, found>>
    BY <2>1 DEF MainStep, StartPushing, MainLocksQueue, Push, PushWaking, Close, Join,
                CreateWorker
  <2>2. ASSUME NEW w \in Workers, WorkerStep(w)
        PROVE  Rank(w) \/ MergeOne(w)
                 \/ UNCHANGED <<searches, query, topTen, results, ranked, found>>
    BY <2>2 DEF WorkerStep, LockQueue, Wait, Exit, Pop, Abort, LockResults, UnlockResults
  <2>3. ASSUME NEW w \in Workers, SpuriousWake(w)
        PROVE  UNCHANGED <<searches, query, topTen, results, ranked, found>>
    BY <2>3 DEF SpuriousWake
  <2>4. CASE UNCHANGED vars
    BY <1>4, <2>4 DEF vars
  <2> QED
    BY <1>1, <1>2, <1>3, <1>4, <2>1, <2>2, <2>3, <2>4 DEF Next

-----------------------------------------------------------------------------
(* Every step is a step of SearchAnswer, or one its caller does not see *)

\* The answer as the caller sees it.
Answer == IF Phase = "answered" THEN topTen[theIndex] ELSE [j \in 1..K |-> Blank]

\* All the invariants the simulation rests on.
SearchInv ==
  /\ TypeOK /\ Progress /\ PushedAccounted
  /\ FirstSearchInv /\ OnceInv /\ BestInv /\ AnswerInv

\* A step that changes nothing the caller sees.
LEMMA Unseen ==
  ASSUME searches'[theIndex] = searches[theIndex],
         mpc'[theIndex] = "idle" <=> mpc[theIndex] = "idle",
         query'[theIndex] = query[theIndex],
         ranked'[theIndex] = ranked[theIndex],
         found'[theIndex] = found[theIndex],
         mpc[theIndex] = "idle" => topTen'[theIndex] = topTen[theIndex]
  PROVE  UNCHANGED Abstract!vars
<1>1. Phase' = Phase
  BY DEF Phase
<1>2. Answer' = Answer
  BY <1>1 DEF Answer, Phase
<1> QED
  BY <1>1, <1>2 DEF Abstract!vars, Answer

\* The call of searchIndexChunks asks.
LEMMA StartAsks ==
  ASSUME SearchInv, NEW q \in Queries, StartSearch(theIndex, q), searches'[theIndex] <= 1
  PROVE  Abstract!Ask(q)
<1>1. /\ searches[theIndex] \in Nat /\ searches'[theIndex] = searches[theIndex] + 1
      /\ mpc[theIndex] = "idle" /\ mpc'[theIndex] = "create"
      /\ query'[theIndex] = q
      /\ ranked'[theIndex] = {} /\ found'[theIndex] = {}
  BY IndexAssumption DEF StartSearch, SearchInv, TypeOK
<1>2. searches[theIndex] = 0
  BY <1>1
<1>3. ranked[theIndex] = {} /\ found[theIndex] = {}
  BY <1>2, IndexAssumption DEF SearchInv, AnswerInv
<1>4. Phase = "idle" /\ Phase' = "searching"
  BY <1>1, <1>2 DEF Phase
<1>5. Answer' = Answer
  BY <1>4 DEF Answer
<1> QED
  BY <1>1, <1>3, <1>4, <1>5 DEF Abstract!Ask, Answer

\* A worker that ranks its chunk ranks one that was not ranked before.
LEMMA RankRanks ==
  ASSUME SearchInv, searches[theIndex] <= 1,
         NEW w \in WorkersOf(theIndex), Rank(w)
  PROVE  file[w] \in Chunks /\ Abstract!RankChunk(file[w])
<1> DEFINE c == file[w]
<1>1. w \in Workers /\ indexOf[w] = theIndex /\ wpc[w] = "ranking"
  BY DEF WorkersOf, Rank
<1>2. c \in Chunks /\ mpc[theIndex] # "idle"
  BY <1>1 DEF SearchInv, Progress
<1>3. c \notin ranked[theIndex]
  BY <1>1 DEF SearchInv, OnceInv
<1>4. PICK l \in Found[query[theIndex]][c] :
         found' = [found EXCEPT ![theIndex] = @ \cup EntriesOf(l)]
  BY <1>1 DEF Rank
<1>5. /\ ranked'[theIndex] = ranked[theIndex] \cup {c}
      /\ found'[theIndex] = found[theIndex] \cup EntriesOf(l)
      /\ UNCHANGED <<mpc, searches, query>>
  BY <1>1, <1>4, IndexAssumption DEF Rank, SearchInv, TypeOK, mainVars
<1> HIDE DEF c
<1>6. Phase = "searching" /\ Phase' = "searching"
  BY <1>2, <1>5 DEF Phase
<1>7. Answer' = Answer
  BY <1>6 DEF Answer
<1>8. Abstract!RankChunk(c)
  BY <1>2, <1>3, <1>4, <1>5, <1>6, <1>7 DEF Abstract!RankChunk, Answer, EntriesOf
<1> QED
  BY <1>2, <1>8 DEF c

\* The return of searchIndexChunks answers, with the best of what was found.
LEMMA JoinAnswers ==
  ASSUME SearchInv, FirstSearchInv', searches[theIndex] <= 1, Join(theIndex)
  PROVE  Abstract!Answer
<1>1. /\ mpc[theIndex] = "join" /\ mpc'[theIndex] = "idle"
      /\ \A w \in WorkersOf(theIndex) : wpc[w] = "exited"
      /\ UNCHANGED <<searches, query, topTen, ranked, found, results>>
  BY IndexAssumption DEF Join, SearchInv, TypeOK, history
<1>2. searches[theIndex] = 1
  <2>1. searches[theIndex] \in Nat /\ searches[theIndex] > 0
    BY <1>1, IndexAssumption DEF SearchInv, Progress, TypeOK
  <2> QED
    BY <2>1
<1>3. Phase = "searching" /\ Phase' = "answered" /\ Answer' = topTen[theIndex]
  BY <1>1, <1>2 DEF Phase, Answer
<1>4. Chunks \ ranked[theIndex] = {}
  BY <1>1, <1>2, IndexAssumption DEF FirstSearchInv
<1>5. Pending(theIndex) = {}
  BY <1>1 DEF SearchInv, BestInv, Pending, WorkersOf, EntriesOf
<1> DEFINE t == topTen[theIndex]
           f == found[theIndex]
<1>6. /\ t \in [1..K -> Entry] /\ Comparable(t) /\ Sorted(t) /\ Shows(t, f)
      /\ \A x \in f : x.rank \in Int /\ Keeps(t, x)
  BY <1>2, <1>5, IndexAssumption DEF SearchInv, TypeOK, BestInv, AnswerInv
<1> HIDE DEF t, f
<1>7. K \in Nat \ {0}
  BY EntriesAssumption
<1>8. Abstract!IsBest(t, f)
  <2>1. \A j \in 1..(K - 1) : t[j + 1].rank <= t[j].rank
    BY <1>6 DEF Sorted, AtMost
  <2>2. /\ \A j \in 1..K : t[j] = Blank \/ (t[j] \in f /\ t[j].rank > Blank.rank)
        /\ \A j, k \in 1..K : t[j] = t[k] => j = k \/ t[j] = Blank
    BY <1>6 DEF Shows, Counts, Blank
  <2>3. \A x \in f : (\E j \in 1..K : t[j] = x) \/ x.rank <= t[K].rank
    BY <1>6 DEF Keeps, AtMost
  <2> QED
    BY <1>6, <2>1, <2>2, <2>3 DEF Abstract!IsBest
<1> QED
  BY <1>1, <1>3, <1>4, <1>8 DEF Abstract!Answer, Answer, t, f

\* Every step of the first search is a step of SearchAnswer or a stutter.
LEMMA Simulation ==
  ASSUME SearchInv, FirstSearchInv', [Next]_vars, searches'[theIndex] <= 1
  PROVE  [Abstract!Next]_(Abstract!vars)
<1> USE ConstantTypes, IndexAssumption DEF mainVars, workerVars, history
<1>1. TypeOK /\ Progress
  BY DEF SearchInv
<1>2. ASSUME NEW i \in Indexes, NEW q \in Queries, StartSearch(i, q)
      PROVE  [Abstract!Next]_(Abstract!vars)
  <2>1. CASE i = theIndex
    BY <1>2, <2>1, StartAsks DEF Abstract!Next
  <2>2. CASE i # theIndex
    BY <1>1, <1>2, <2>2, Unseen DEF StartSearch, TypeOK
  <2> QED
    BY <2>1, <2>2
<1>3. ASSUME NEW i \in Indexes, MainStep(i) PROVE [Abstract!Next]_(Abstract!vars)
  <2>1. CASE Join(i)
    <3>1. CASE i = theIndex
      <4>1. searches[theIndex] <= 1
        BY <2>1 DEF Join
      <4> QED
        BY <2>1, <3>1, <4>1, JoinAnswers DEF Abstract!Next
    <3>2. CASE i # theIndex
      BY <1>1, <2>1, <3>2, Unseen DEF Join, TypeOK
    <3> QED
      BY <3>1, <3>2
  <2>2. CASE StartPushing(i) \/ MainLocksQueue(i) \/ Push(i) \/ Close(i)
    BY <1>1, <2>2, Unseen DEF StartPushing, MainLocksQueue, Push, PushWaking, Close, TypeOK
  <2>3. CASE \E w \in WorkersOf(i) : CreateWorker(w)
    BY <2>3, Unseen DEF CreateWorker
  <2> QED
    BY <1>3, <2>1, <2>2, <2>3 DEF MainStep
<1>4. ASSUME NEW w \in Workers, WorkerStep(w) PROVE [Abstract!Next]_(Abstract!vars)
  <2>1. CASE Rank(w)
    <3>1. CASE indexOf[w] = theIndex
      <4>1. w \in WorkersOf(theIndex) /\ searches[theIndex] <= 1
        BY <2>1, <3>1 DEF WorkersOf, Rank
      <4> QED
        BY <2>1, <4>1, RankRanks DEF Abstract!Next
    <3>2. CASE indexOf[w] # theIndex
      BY <1>1, <2>1, <3>2, Unseen DEF Rank, TypeOK
    <3> QED
      BY <3>1, <3>2
  <2>2. CASE MergeOne(w)
    <3>1. indexOf[w] = theIndex => mpc[theIndex] # "idle"
      BY <1>1, <2>2 DEF MergeOne, Progress
    <3> QED
      BY <1>1, <2>2, <3>1, Unseen DEF MergeOne, TypeOK
  <2>3. CASE \/ LockQueue(w) \/ Wait(w) \/ Exit(w) \/ Pop(w) \/ Abort(w)
             \/ LockResults(w) \/ UnlockResults(w)
    BY <2>3, Unseen
       DEF LockQueue, Wait, Exit, Pop, Abort, LockResults, UnlockResults
  <2> QED
    BY <1>4, <2>1, <2>2, <2>3 DEF WorkerStep
<1>5. ASSUME NEW w \in Workers, SpuriousWake(w) PROVE [Abstract!Next]_(Abstract!vars)
  BY <1>5, Unseen DEF SpuriousWake
<1>6. CASE UNCHANGED vars
  BY <1>6, Unseen DEF vars
<1> QED
  BY <1>2, <1>3, <1>4, <1>5, <1>6 DEF Next

\* The program starts where SearchAnswer does.
LEMMA InitAbstract == Init => Abstract!Init
<1>1. ASSUME Init PROVE Phase = "idle" /\ query[theIndex] = None /\ ranked[theIndex] = {}
                        /\ found[theIndex] = {} /\ Answer = [j \in 1..K |-> Blank]
  BY <1>1, IndexAssumption DEF Init, Phase, Answer
<1> QED
  BY <1>1 DEF Abstract!Init, Abstract!NoAnswer, Answer

\* All of it holds of every search.
LEMMA SearchInvariant ==
  ASSUME ComparableRanks, DistinctEntries
  PROVE  Spec => []SearchInv
<1>1. ASSUME Init PROVE FirstSearchInv /\ OnceInv /\ BestInv /\ AnswerInv
  <2> DEFINE blanks == [j \in 1..K |-> Blank]
  <2>1. Comparable(blanks) /\ Sorted(blanks) /\ Shows(blanks, {})
    BY EntriesAssumption DEF Comparable, Sorted, Shows, AtMost, Blank
  <2> HIDE DEF blanks
  <2>2. /\ \A i \in Indexes : topTen[i] = blanks /\ found[i] = {} /\ ranked[i] = {}
        /\ \A w \in Workers : results[w] = << >> /\ EntriesOf(results[w]) = {}
    BY <1>1 DEF Init, EntriesOf, blanks
  <2>3. FirstSearchInv /\ OnceInv
    BY <1>1 DEF Init, FirstSearchInv, OnceInv, NoRepeat, EntriesOf, Pushed
  <2>4. BestInv
    BY <1>1, <2>1, <2>2 DEF Init, BestInv
  <2>5. AnswerInv
    <3>1. \A w \in Workers : Single(results[w])
      BY <2>2 DEF Single
    <3>2. \A w \in Workers : NewTo(topTen[indexOf[w]], results[w])
      BY <2>2 DEF NewTo
    <3>3. \A i \in Indexes : Shows(topTen[i], found[i])
      BY <2>1, <2>2
    <3> QED
      BY <2>2, <3>1, <3>2, <3>3 DEF AnswerInv
  <2> QED
    BY <2>3, <2>4, <2>5
<1>2. ASSUME TypeOK, Progress, PushedAccounted, FirstSearchInv, OnceInv, BestInv, AnswerInv,
             [Next]_vars
      PROVE  FirstSearchInv' /\ OnceInv' /\ BestInv' /\ AnswerInv'
  BY <1>2, FirstSearchStep, OnceStep, BestStep, AnswerStep
<1> QED
  BY <1>1, <1>2, TypeAndProgress, NoChunkLost, PTL DEF Spec, SearchInv

\* As long as no rank is NaN and no page is found twice: up to the start of a
\* second search of the Index every step of the program is a step of
\* SearchAnswer or invisible to the caller, however often other Indexes
\* search.  searchIndexChunks ranks each chunk once and returns the best of
\* what the chunks gave.
THEOREM FirstSearchSimulates ==
  ASSUME ComparableRanks, DistinctEntries
  PROVE  Spec => /\ Abstract!Init
                 /\ [][searches'[theIndex] <= 1 => [Abstract!Next]_(Abstract!vars)]_vars
<1>1. ASSUME SearchInv, FirstSearchInv', [Next]_vars
      PROVE  searches'[theIndex] <= 1 => [Abstract!Next]_(Abstract!vars)
  BY <1>1, Simulation
<1>2. SearchInv => FirstSearchInv
  BY DEF SearchInv
<1> QED
  BY <1>1, <1>2, InitAbstract, SearchInvariant, PTL DEF Spec

\* When no Index searches twice, the program implements SearchAnswer.
THEOREM FirstSearchImplements ==
  ASSUME ComparableRanks, DistinctEntries, MaxSearches = 1
  PROVE  Spec => ImplementsSearchAnswer
<1> DEFINE Once == searches[theIndex] <= 1
<1>1. ASSUME SearchInv, [Next]_vars, Once
      PROVE  Once'
  <2>1. searches[theIndex] \in Nat /\ searches \in [Indexes -> Nat]
    BY <1>1, IndexAssumption DEF SearchInv, TypeOK
  <2>2. ASSUME NEW i \in Indexes, NEW q \in Queries, StartSearch(i, q)
        PROVE  searches'[theIndex] <= 1
    BY <1>1, <2>1, <2>2, IndexAssumption DEF StartSearch
  <2>3. ASSUME NEW i \in Indexes, MainStep(i) PROVE searches' = searches
    BY <2>3 DEF MainStep, StartPushing, MainLocksQueue, Push, PushWaking, Close, Join,
                CreateWorker, mainVars
  <2>4. ASSUME NEW w \in Workers, WorkerStep(w) \/ SpuriousWake(w) PROVE searches' = searches
    BY <2>4 DEF WorkerStep, LockQueue, Wait, Exit, Pop, Rank, Abort, LockResults, MergeOne,
                UnlockResults, SpuriousWake, mainVars
  <2> QED
    BY <1>1, <2>2, <2>3, <2>4 DEF Next, vars, mainVars
<1>2. Init => Once
  BY IndexAssumption DEF Init
<1>3. ASSUME SearchInv, FirstSearchInv', [Next]_vars, Once'
      PROVE  [Abstract!Next]_(Abstract!vars)
  BY <1>3, Simulation
<1>4. SearchInv => FirstSearchInv
  BY DEF SearchInv
<1> HIDE DEF Once
<1> QED
  BY <1>1, <1>2, <1>3, <1>4, InitAbstract, SearchInvariant, PTL
     DEF Spec, ImplementsSearchAnswer, Abstract!Spec

=============================================================================
