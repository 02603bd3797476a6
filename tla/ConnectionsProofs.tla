------------------------- MODULE ConnectionsProofs -------------------------
(***************************************************************************)
(* What holds of the connections of the query node, for any number of      *)
(* them, any clients, any sizes, and any parser.                           *)
(***************************************************************************)
EXTENDS Connections, SequenceTheorems, TLAPS

Searched == {"search", "join", "answer"}
Late == Searched \cup {"received", "closed"}

\* Connection c: no more was read than its client sends; receiver ends with the
\* whole of a line that fits, unless the line was lost; what is searched for
\* is not empty; only a search pushes chunk files, those taken from its queue
\* were pushed, and those open were taken; and once one was taken the tree is
\* that of what was received.
LineInv(c) ==
  /\ bytesRead[c] <= Bytes(c)
  /\ stage[c] \in Late /\ c \notin gone /\ Bytes(c) <= BufferSize => bytesRead[c] = Bytes(c)
  /\ stage[c] \in Searched => bytesRead[c] > 0
  /\ search[c].pushed > 0 => stage[c] \in Searched \cup {"closed"} /\ bytesRead[c] > 0
  /\ search[c].taken <= search[c].pushed
  /\ search[c].open \subseteq 1..search[c].taken
  /\ search[c].taken > 0 => tree[c] = TreeOf(Received(c))

ConnectionInv == TypeOK /\ (\A c \in Clients : LineInv(c)) /\ DownOnlyBy

-----------------------------------------------------------------------------
LEMMA Sizes == BufferSize \in Nat /\ BufferSize > 0
  BY NodeAssumption

\* A client sends its line, with or without a byte behind it.
LEMMA BytesOfLine ==
  ASSUME NEW c \in Clients, client[c].line \in Seq(Alphabet)
  PROVE  /\ client[c].line \in Seq(Alphabet)
         /\ Len(client[c].line) \in Nat
         /\ Bytes(c) \in Nat
         /\ Bytes(c) = Len(client[c].line) \/ Bytes(c) = Len(client[c].line) + 1
<1>1. Len(client[c].line) \in Nat
  OBVIOUS
<1>2. CASE client[c].ends = "zero"
  BY <1>1, <1>2 DEF Bytes
<1>3. CASE client[c].ends # "zero"
  BY <1>1, <1>3 DEF Bytes
<1> QED
  BY <1>2, <1>3

\* Of a line that has come to its end nothing is missing.
LEMMA WholeLine ==
  ASSUME TypeOK, NEW c \in Clients, bytesRead[c] = Bytes(c)
  PROVE  Received(c) = client[c].line
<1>1. /\ client[c].line \in Seq(Alphabet)
      /\ Len(client[c].line) \in Nat
      /\ bytesRead[c] = Len(client[c].line) \/ bytesRead[c] = Len(client[c].line) + 1
  BY BytesOfLine DEF TypeOK
<1>2. Received(c) = SubSeq(client[c].line, 1, Len(client[c].line))
  BY <1>1 DEF Received
<1> QED
  BY <1>1, <1>2

LEMMA ConnectionInit == Init => ConnectionInv
<1> SUFFICES ASSUME Init PROVE ConnectionInv
  OBVIOUS
<1>1. TypeOK
  <2>1. 0 \in 0..BufferSize
    BY Sizes
  <2>2. bytesRead \in [Clients -> 0..BufferSize] /\ DOMAIN tree = Clients
    BY <2>1 DEF Init
  <2>3. stage \in [Clients -> Stages]
    BY DEF Init, Stages
  <2>4. search \in [Clients -> Searches]
    BY DEF Init, NoSearch, Searches
  <2>5. /\ Clients \subseteq Connections /\ \A c \in Clients : client[c].line \in Seq(Alphabet)
        /\ directory \in Seq(ChunkFiles)
    BY NodeAssumption DEF Init, Clients
  <2> QED
    BY <2>2, <2>3, <2>4, <2>5 DEF Init, TypeOK
<1>2. ASSUME NEW c \in Clients PROVE LineInv(c)
  <2>1. Bytes(c) \in Nat
    BY <1>1, BytesOfLine DEF TypeOK
  <2>2. /\ stage[c] = "waiting" /\ bytesRead[c] = 0
        /\ search[c].pushed = 0 /\ search[c].taken = 0 /\ search[c].open = {}
    BY DEF Init, NoSearch
  <2> QED
    BY <2>1, <2>2 DEF LineInv, Late, Searched
<1>3. DownOnlyBy
  BY DEF Init, DownOnlyBy
<1> QED
  BY <1>1, <1>2, <1>3 DEF ConnectionInv

\* A step may wake the workers of another search, and no more.
SameChunks(c) ==
  /\ search'[c].pushed = search[c].pushed
  /\ search'[c].taken = search[c].taken
  /\ search'[c].open = search[c].open

\* What a step leaves alone of a connection keeps its invariant; that its client
\* resets it only weakens it.
LEMMA Untouched ==
  ASSUME NEW c \in Clients, LineInv(c), client' = client, gone \subseteq gone',
         stage'[c] = stage[c], bytesRead'[c] = bytesRead[c], tree'[c] = tree[c],
         SameChunks(c)
  PROVE  LineInv(c)'
<1>1. Bytes(c)' = Bytes(c) /\ Received(c)' = Received(c)
  BY DEF Bytes, Received
<1> QED
  BY <1>1 DEF LineInv, SameChunks

\* A step of connection c, which is all it changes.
LEMMA OneConnection ==
  ASSUME ConnectionInv, NEW c \in Clients, client' = client, gone' = gone,
         \A d \in Clients \ {c} : /\ stage'[d] = stage[d] /\ bytesRead'[d] = bytesRead[d]
                                  /\ tree'[d] = tree[d] /\ SameChunks(d),
         TypeOK', LineInv(c)', DownOnlyBy'
  PROVE  ConnectionInv'
<1>1. Clients' = Clients
  BY DEF Clients
<1>2. ASSUME NEW d \in Clients PROVE LineInv(d)'
  <2>1. CASE d = c
    BY <2>1
  <2>2. CASE d # c
    BY <2>2, Untouched DEF ConnectionInv
  <2> QED
    BY <2>1, <2>2
<1> QED
  BY <1>1, <1>2 DEF ConnectionInv

\* A step of connection c alone that only takes it to another stage: a late one
\* only if it was late before, and to a search only if a line was received.
LEMMA StageStep ==
  ASSUME ConnectionInv, NEW c \in Clients, NEW s \in Stages, Goto(c, s),
         UNCHANGED <<given, gone, bytesRead, tree, search>>,
         s \in Late => stage[c] \in Late,
         s \in Searched => bytesRead[c] > 0,
         stage[c] \in Searched \cup {"closed"} => s \in Searched \cup {"closed"},
         answered' \subseteq Clients, down' \in BOOLEAN, DownOnlyBy'
  PROVE  ConnectionInv'
<1>1. /\ stage \in [Clients -> Stages]
      /\ stage' = [stage EXCEPT ![c] = s]
      /\ Clients' = Clients
  BY DEF ConnectionInv, TypeOK, Goto, Clients, given
<1>2. TypeOK'
  BY <1>1 DEF ConnectionInv, TypeOK, given
<1>3. LineInv(c)'
  <2>1. Bytes(c)' = Bytes(c) /\ Received(c)' = Received(c)
    BY DEF Bytes, Received, given
  <2>2. stage'[c] = s /\ LineInv(c)
    BY <1>1 DEF ConnectionInv
  <2> QED
    BY <2>1, <2>2 DEF LineInv, Late, Searched
<1>4. \A d \in Clients : SameChunks(d)
  BY DEF SameChunks
<1> QED
  BY <1>1, <1>2, <1>3, <1>4, OneConnection DEF given

\* A step of the search of connection c, which leaves the stages and the lines as
\* they are, and may wake the workers of the other searches.
LEMMA SearchStep ==
  ASSUME ConnectionInv, NEW c \in Clients,
         UNCHANGED <<given, gone, stage, bytesRead, answered>>,
         search' \in [Clients -> Searches], DOMAIN tree' = Clients, down' \in BOOLEAN,
         \A d \in Clients \ {c} : tree'[d] = tree[d] /\ SameChunks(d),
         search'[c].pushed > 0 => stage[c] \in Searched \cup {"closed"} /\ bytesRead[c] > 0,
         search'[c].taken <= search'[c].pushed,
         search'[c].open \subseteq 1..search'[c].taken,
         search'[c].taken > 0 => tree'[c] = TreeOf(Received(c)),
         DownOnlyBy'
  PROVE  ConnectionInv'
<1>1. Clients' = Clients /\ Bytes(c)' = Bytes(c) /\ Received(c)' = Received(c)
  BY DEF Clients, Bytes, Received, given
<1>2. TypeOK'
  BY <1>1 DEF ConnectionInv, TypeOK, given
<1>3. LineInv(c)'
  BY <1>1 DEF ConnectionInv, LineInv
<1> QED
  BY <1>2, <1>3, OneConnection DEF given

\* No step of a live process leaves the reason of its end open.
LEMMA StillUp ==
  ASSUME TypeOK, down' = down, ~down
  PROVE  DownOnlyBy'
  BY DEF DownOnlyBy

\* Before a line is received nothing is searched for.
LEMMA NothingPushed ==
  ASSUME ConnectionInv, NEW c \in Clients, stage[c] \notin Searched \cup {"closed"}
  PROVE  search[c].pushed = 0 /\ search[c].taken = 0 /\ search[c].open = {}
<1>1. search[c].pushed \in Nat /\ search[c].taken \in Nat
  BY DEF ConnectionInv, TypeOK, Searches
<1>2. LineInv(c)
  BY DEF ConnectionInv
<1>3. search[c].pushed = 0 /\ search[c].taken = 0
  BY <1>1, <1>2 DEF LineInv
<1>4. 1..search[c].taken = {}
  BY <1>3
<1> QED
  BY <1>2, <1>3, <1>4 DEF LineInv

\* Bytes that recv gives fit what was sent and the buffer; receiver only ends
\* when there are no more, or the buffer is full.
LEMMA ReceiveKeeps ==
  ASSUME ConnectionInv, ~down, NEW c \in Clients, Receive(c)
  PROVE  ConnectionInv'
<1>1. PICK n \in (bytesRead[c] + 1)..Limit(c) :
        /\ bytesRead' = [bytesRead EXCEPT ![c] = n]
        /\ IF LineEnds(c, n) THEN Goto(c, "received") ELSE UNCHANGED stage
  BY DEF Receive
<1>2. /\ stage \in [Clients -> Stages] /\ bytesRead \in [Clients -> 0..BufferSize]
      /\ client[c].line \in Seq(Alphabet) /\ stage[c] = "receiving"
      /\ UNCHANGED <<client, directory, gone, tree, search, answered, down>>
  BY DEF ConnectionInv, TypeOK, Receive, given
<1>3. /\ Bytes(c) \in Nat /\ Len(client[c].line) \in Nat
      /\ Bytes(c) = Len(client[c].line) \/ Bytes(c) = Len(client[c].line) + 1
  BY <1>2, BytesOfLine
<1>4. n \in Nat /\ n > 0 /\ n <= Bytes(c) /\ n <= BufferSize
  <2>1. bytesRead[c] \in Nat
    BY <1>2, Sizes
  <2>2. Limit(c) \in Nat /\ Limit(c) <= Bytes(c) /\ Limit(c) <= BufferSize
    BY <1>3, Sizes DEF Limit
  <2>3. bytesRead[c] + 1 <= n /\ n <= Limit(c) /\ n \in Int
    BY <1>1, <2>1, <2>2
  <2> QED
    BY <1>3, <2>1, <2>2, <2>3, Sizes
<1>5. Clients' = Clients /\ Bytes(c)' = Bytes(c)
  BY <1>2 DEF Clients, Bytes
<1>6. \A d \in Clients : bytesRead'[d] = IF d = c THEN n ELSE bytesRead[d]
  BY <1>1, <1>2
<1>7. \A d \in Clients : /\ d # c => stage'[d] = stage[d]
                         /\ stage'[c] \in {"receiving", "received"}
  BY <1>1, <1>2 DEF Goto
<1>8. stage' \in [Clients -> Stages]
  BY <1>1, <1>2 DEF Goto, Stages
<1>9. TypeOK'
  BY <1>1, <1>2, <1>4, <1>5, <1>8, Sizes DEF ConnectionInv, TypeOK
<1>10. stage'[c] = "received" => LineEnds(c, n)
  BY <1>1, <1>2
<1>11. LineEnds(c, n) /\ Bytes(c) <= BufferSize => n = Bytes(c)
  BY <1>3, <1>4, Sizes DEF LineEnds
<1>12. search[c].pushed = 0 /\ search[c].taken = 0 /\ search[c].open = {}
  BY <1>2, NothingPushed DEF Searched
<1>13. LineInv(c)'
  BY <1>2, <1>4, <1>5, <1>6, <1>7, <1>10, <1>11, <1>12 DEF LineInv, Late, Searched
<1>14. DownOnlyBy'
  BY <1>2, StillUp DEF ConnectionInv
<1>15. \A d \in Clients : SameChunks(d)
  BY <1>2 DEF SameChunks
<1> QED
  BY <1>2, <1>6, <1>7, <1>9, <1>13, <1>14, <1>15, OneConnection

\* A reset loses the line, not the process, unless nothing was read of it.
LEMMA ReceiveErrorKeeps ==
  ASSUME ConnectionInv, ~down, NEW c \in Clients, ReceiveError(c)
  PROVE  ConnectionInv'
<1>1. /\ stage \in [Clients -> Stages] /\ bytesRead \in [Clients -> 0..BufferSize]
      /\ client[c].line \in Seq(Alphabet) /\ c \in gone
      /\ stage' = [stage EXCEPT ![c] = "received"]
      /\ UNCHANGED <<client, directory, gone, tree, search, answered>>
  BY DEF ConnectionInv, TypeOK, ReceiveError, Goto, given
<1>2. Clients' = Clients /\ Bytes(c)' = Bytes(c)
  BY <1>1 DEF Clients, Bytes
<1>3. bytesRead[c] \in Nat /\ bytesRead[c] <= BufferSize /\ bytesRead[c] <= Bytes(c) /\ Bytes(c) \in Nat
  BY <1>1, Sizes, BytesOfLine DEF ConnectionInv, LineInv
<1>4. /\ bytesRead' \in [Clients -> 0..BufferSize]
      /\ bytesRead'[c] <= Bytes(c)
      /\ \A d \in Clients : d # c => bytesRead'[d] = bytesRead[d]
  <2>1. CASE bytesRead[c] = 0
    BY <1>1, <1>3, <2>1 DEF ReceiveError
  <2>2. CASE bytesRead[c] # 0
    <3>1. bytesRead' = [bytesRead EXCEPT ![c] = bytesRead[c] - 1]
      BY <2>2 DEF ReceiveError
    <3>2. bytesRead[c] - 1 \in 0..BufferSize /\ bytesRead[c] - 1 <= Bytes(c)
      BY <1>3, <2>2, Sizes
    <3> QED
      BY <1>1, <3>1, <3>2
  <2> QED
    BY <2>1, <2>2
<1>5. down' \in BOOLEAN
  BY DEF ConnectionInv, TypeOK, ReceiveError
<1>6. TypeOK'
  BY <1>1, <1>2, <1>4, <1>5 DEF ConnectionInv, TypeOK, Stages
<1>7. search[c].pushed = 0 /\ search[c].taken = 0 /\ search[c].open = {}
  BY NothingPushed DEF ReceiveError, Searched
<1>8. LineInv(c)'
  BY <1>1, <1>2, <1>4, <1>7 DEF LineInv, Late, Searched
<1>9. DownOnlyBy'
  BY <1>1, <1>2 DEF DownOnlyBy
<1>10. \A d \in Clients : SameChunks(d)
  BY <1>1 DEF SameChunks
<1> QED
  BY <1>1, <1>4, <1>6, <1>8, <1>9, <1>10, OneConnection

\* The broadcast of a push leaves the queues of other searches as they are.
LEMMA PushKeeps ==
  ASSUME ConnectionInv, ~down, NEW c \in Clients, Push(c)
  PROVE  ConnectionInv'
<1>1. /\ stage[c] = "search"
      /\ search' = [d \in Clients |->
           [search[d] EXCEPT !.asleep = FALSE, !.pushed = IF d = c THEN @ + 1 ELSE @]]
      /\ UNCHANGED <<given, gone, stage, bytesRead, tree, answered, down>>
  BY DEF Push
<1>2. \A d \in Clients : search[d] \in Searches
  BY DEF ConnectionInv, TypeOK
<1>3. search' \in [Clients -> Searches]
  <2> SUFFICES ASSUME NEW d \in Clients
               PROVE  [search[d] EXCEPT !.asleep = FALSE, !.pushed = IF d = c THEN @ + 1 ELSE @] \in Searches
    BY <1>1
  <2>1. search[d] \in Searches /\ search[d].pushed \in Nat
    BY <1>2 DEF Searches
  <2>2. (IF d = c THEN search[d].pushed + 1 ELSE search[d].pushed) \in Nat
    BY <2>1
  <2> QED
    BY <2>1, <2>2 DEF Searches
<1>4. \A d \in Clients \ {c} : SameChunks(d)
  BY <1>1, <1>2 DEF Searches, SameChunks
<1>5. /\ search'[c].pushed = search[c].pushed + 1
      /\ search'[c].taken = search[c].taken /\ search'[c].open = search[c].open
  BY <1>1, <1>2 DEF Searches
<1>6. LineInv(c) /\ search[c].pushed \in Nat /\ search[c].taken \in Nat
  BY <1>2 DEF ConnectionInv, Searches
<1>7. DownOnlyBy'
  BY <1>1, StillUp DEF ConnectionInv
<1>8. DOMAIN tree' = Clients /\ down' \in BOOLEAN
  BY <1>1 DEF ConnectionInv, TypeOK
<1>9. search'[c].taken <= search'[c].pushed
  BY <1>5, <1>6 DEF LineInv
<1>10. bytesRead[c] > 0
  BY <1>1, <1>6 DEF LineInv, Searched
<1> QED
  BY <1>1, <1>3, <1>4, <1>5, <1>6, <1>7, <1>8, <1>9, <1>10, SearchStep DEF LineInv, Searched

\* A step that changes neither what was pushed nor what was taken, and opens no
\* chunk file, keeps what is known of the search.
LEMMA WorkerKeeps ==
  ASSUME ConnectionInv, NEW c \in Clients,
         UNCHANGED <<given, gone, stage, bytesRead, tree, answered>>,
         NEW r \in Searches, search' = [search EXCEPT ![c] = r],
         r.pushed = search[c].pushed, r.taken = search[c].taken,
         r.open \subseteq search[c].open, down' \in BOOLEAN, DownOnlyBy'
  PROVE  ConnectionInv'
<1>1. search \in [Clients -> Searches] /\ DOMAIN tree = Clients /\ LineInv(c)
  BY DEF ConnectionInv, TypeOK
<1>2. search'[c] = r /\ search' \in [Clients -> Searches]
  BY <1>1
<1>3. \A d \in Clients \ {c} : SameChunks(d)
  BY <1>1 DEF SameChunks
<1> QED
  BY <1>1, <1>2, <1>3, SearchStep DEF LineInv

\* A chunk file that does not open ends the process, and so does a tree that does
\* not compile; else the tree is that of what was received.
LEMMA TakeChunkKeeps ==
  ASSUME ConnectionInv, ~down, NEW c \in Clients, TakeChunk(c)
  PROVE  ConnectionInv'
<1>1. /\ search \in [Clients -> Searches] /\ DOMAIN tree = Clients /\ LineInv(c)
      /\ search[c].taken < search[c].pushed
      /\ UNCHANGED <<given, gone, stage, bytesRead, answered>>
  BY DEF ConnectionInv, TypeOK, TakeChunk
<1>2. /\ search[c] \in Searches
      /\ search[c].pushed \in Nat /\ search[c].taken \in Nat /\ search[c].open \in SUBSET Nat
  BY <1>1 DEF Searches
<1>3. Clients' = Clients /\ Received(c)' = Received(c)
  BY <1>1 DEF Clients, Received, given
<1>4. CASE CannotOpen(c)
  <2>1. UNCHANGED <<search, tree>> /\ down' = TRUE
    BY <1>4 DEF TakeChunk
  <2>2. CannotOpen(c)'
    BY <1>1, <1>4, <2>1 DEF CannotOpen, DescriptorFree, FilesOpen, Open, Working, At, Clients, given
  <2>3. DownOnlyBy'
    BY <1>3, <2>2 DEF DownOnlyBy
  <2>4. \A d \in Clients : SameChunks(d)
    BY <2>1 DEF SameChunks
  <2> QED
    BY <1>1, <2>1, <2>3, <2>4, SearchStep DEF LineInv
<1>5. CASE ~CannotOpen(c)
  <2> DEFINE n == search[c].taken + 1
             opened == [search[c] EXCEPT !.taken = n, !.open = search[c].open \cup {n}]
  <2>1. /\ search' = [search EXCEPT ![c] = opened]
        /\ tree' = [tree EXCEPT ![c] = TreeOf(Received(c))]
        /\ down' = ~Compiling(tree'[c])
    BY <1>1, <1>2, <1>5 DEF TakeChunk, Searches
  <2>2. /\ opened \in Searches /\ opened.pushed = search[c].pushed
        /\ opened.taken = n /\ opened.open = search[c].open \cup {n}
    <3>1. n \in Nat /\ search[c].open \cup {n} \in SUBSET Nat
      BY <1>2
    <3> QED
      BY <1>2, <3>1 DEF Searches
  <2> HIDE DEF opened
  <2>3. search' \in [Clients -> Searches] /\ search'[c] = opened
    BY <1>1, <2>1, <2>2
  <2>4. tree'[c] = TreeOf(Received(c)) /\ DOMAIN tree' = Clients
    BY <1>1, <2>1
  <2>5. \A d \in Clients \ {c} : tree'[d] = tree[d] /\ SameChunks(d)
    BY <1>1, <2>1 DEF SameChunks
  <2>6. DownOnlyBy'
    <3>1. n \in search'[c].open
      BY <2>2, <2>3
    <3>2. down' => ~Compiling(TreeOf(Received(c)))
      BY <2>1, <2>4
    <3> QED
      BY <1>3, <3>1, <3>2 DEF DownOnlyBy
  <2>7. search'[c].taken <= search'[c].pushed
    BY <1>1, <1>2, <2>2, <2>3
  <2>8. search'[c].open \subseteq 1..search'[c].taken
    BY <1>1, <1>2, <2>2, <2>3 DEF LineInv
  <2>9. stage[c] \in Searched \cup {"closed"} /\ bytesRead[c] > 0
    BY <1>1, <1>2 DEF LineInv
  <2>10. down' \in BOOLEAN
    BY <2>1
  <2> QED
    BY <1>1, <2>3, <2>4, <2>5, <2>6, <2>7, <2>8, <2>9, <2>10, SearchStep
<1> QED
  BY <1>4, <1>5

\* A ranking that fails is of a chunk that is open: it is torn, or the tree of what
\* was received may fail.
LEMMA RankingFailsKeeps ==
  ASSUME ConnectionInv, NEW c \in Clients, RankingFails(c)
  PROVE  ConnectionInv'
<1>1. PICK chunk \in search[c].open \ search[c].looping :
        /\ Unsure(c, chunk)
        /\ search' = [search EXCEPT ![c].looping = @ \cup {chunk}]
  BY DEF RankingFails
<1>2. /\ search \in [Clients -> Searches] /\ LineInv(c)
      /\ UNCHANGED <<given, gone, stage, bytesRead, tree, answered>>
      /\ down' \in BOOLEAN
  BY DEF ConnectionInv, TypeOK, RankingFails
<1>3. /\ search[c] \in Searches /\ search[c].taken \in Nat
      /\ search[c].open \in SUBSET Nat /\ search[c].looping \in SUBSET Nat
  BY <1>2 DEF Searches
<1> DEFINE r == [search[c] EXCEPT !.looping = search[c].looping \cup {chunk}]
<1>4. /\ r \in Searches /\ search' = [search EXCEPT ![c] = r]
      /\ r.pushed = search[c].pushed /\ r.taken = search[c].taken /\ r.open = search[c].open
  BY <1>1, <1>2, <1>3 DEF Searches
<1> HIDE DEF r
<1>5. search'[c].open = search[c].open
  BY <1>2, <1>4
<1>6. search[c].taken > 0
  BY <1>1, <1>2, <1>3 DEF LineInv
<1>7. directory[chunk] = "torn" \/ Failing(TreeOf(Received(c)))
  BY <1>1, <1>2, <1>6 DEF LineInv, Unsure
<1>8. Clients' = Clients /\ Received(c)' = Received(c) /\ directory' = directory
  BY <1>2 DEF Clients, Received, given
<1>9. DownOnlyBy'
  BY <1>1, <1>5, <1>7, <1>8 DEF DownOnlyBy
<1> QED
  BY <1>2, <1>4, <1>9, WorkerKeeps

LEMMA ConnectionStep ==
  ASSUME ConnectionInv, [Next]_vars
  PROVE  ConnectionInv'
<1>1. ASSUME ~down, NEW c \in Clients, Accept(c) PROVE ConnectionInv'
  <2>1. DownOnlyBy'
    BY <1>1, StillUp DEF ConnectionInv, Accept
  <2>2. CASE client[c].frontend
    BY <1>1, <2>1, <2>2, StageStep
       DEF Accept, Stages, Late, Searched, ConnectionInv, TypeOK
  <2>3. CASE ~client[c].frontend
    BY <1>1, <2>1, <2>3, StageStep
       DEF Accept, Stages, Late, Searched, ConnectionInv, TypeOK
  <2> QED
    BY <2>2, <2>3
<1>2. ASSUME ~down, NEW c \in Clients, Handle(c) PROVE ConnectionInv'
  <2>1. DownOnlyBy'
    BY <1>2, StillUp DEF ConnectionInv, Handle
  <2> QED
    BY <1>2, <2>1, StageStep DEF Handle, Stages, Late, Searched, ConnectionInv, TypeOK
<1>3. ASSUME ~down, NEW c \in Clients, Receive(c) PROVE ConnectionInv'
  BY <1>3, ReceiveKeeps
<1>4. ASSUME ~down, NEW c \in Clients, EndOfStream(c) PROVE ConnectionInv'
  <2>1. /\ stage \in [Clients -> Stages] /\ bytesRead[c] = Bytes(c)
        /\ stage[c] = "receiving" /\ stage' = [stage EXCEPT ![c] = "received"]
        /\ UNCHANGED <<client, directory, gone, bytesRead, tree, search, answered, down>>
    BY <1>4 DEF ConnectionInv, TypeOK, EndOfStream, Goto, given
  <2>2. Clients' = Clients /\ Bytes(c)' = Bytes(c) /\ Received(c)' = Received(c)
    BY <2>1 DEF Clients, Bytes, Received
  <2>3. TypeOK'
    BY <2>1, <2>2 DEF ConnectionInv, TypeOK, Stages
  <2>4. search[c].pushed = 0
    BY <2>1, NothingPushed DEF Searched
  <2>5. LineInv(c)'
    BY <2>1, <2>2, <2>4 DEF ConnectionInv, LineInv, Late, Searched
  <2>6. DownOnlyBy'
    BY <1>4, <2>1, StillUp DEF ConnectionInv
  <2>7. \A d \in Clients : SameChunks(d)
    BY <2>1 DEF SameChunks
  <2> QED
    BY <2>1, <2>3, <2>5, <2>6, <2>7, OneConnection
<1>5. ASSUME ~down, NEW c \in Clients, ReceiveError(c) PROVE ConnectionInv'
  BY <1>5, ReceiveErrorKeeps
<1>6. ASSUME ~down, NEW c \in Clients, NoLine(c) PROVE ConnectionInv'
  <2>1. DownOnlyBy'
    BY <1>6, StillUp DEF ConnectionInv, NoLine
  <2> QED
    BY <1>6, <2>1, StageStep DEF NoLine, Stages, Late, Searched, ConnectionInv, TypeOK
<1>7. ASSUME ~down, NEW c \in Clients, StartSearch(c) PROVE ConnectionInv'
  <2>1. DownOnlyBy'
    BY <1>7, StillUp DEF ConnectionInv, StartSearch
  <2> QED
    BY <1>7, <2>1, StageStep DEF StartSearch, Stages, Late, Searched, ConnectionInv, TypeOK
<1>8. ASSUME ~down, NEW c \in Clients, Push(c) PROVE ConnectionInv'
  BY <1>8, PushKeeps
<1>9. ASSUME ~down, NEW c \in Clients, CloseQueue(c) PROVE ConnectionInv'
  <2>1. DownOnlyBy'
    BY <1>9, StillUp DEF ConnectionInv, CloseQueue
  <2>2. bytesRead[c] > 0
    BY <1>9 DEF CloseQueue, ConnectionInv, LineInv, Searched
  <2> QED
    BY <1>9, <2>1, <2>2, StageStep DEF CloseQueue, Stages, Late, Searched, ConnectionInv, TypeOK
<1>10. ASSUME ~down, NEW c \in Clients, Join(c) PROVE ConnectionInv'
  <2>1. DownOnlyBy'
    BY <1>10, StillUp DEF ConnectionInv, Join
  <2>2. bytesRead[c] > 0
    BY <1>10 DEF Join, ConnectionInv, LineInv, Searched
  <2> QED
    BY <1>10, <2>1, <2>2, StageStep DEF Join, Stages, Late, Searched, ConnectionInv, TypeOK
<1>11. ASSUME ~down, NEW c \in Clients, Send(c) PROVE ConnectionInv'
  <2>1. answered' \subseteq Clients /\ down' \in BOOLEAN
    BY <1>11 DEF Send, ConnectionInv, TypeOK
  <2>2. DownOnlyBy'
    BY <1>11 DEF Send, DownOnlyBy, Clients, given
  <2> QED
    BY <1>11, <2>1, <2>2, StageStep DEF Send, Stages, Late, Searched
<1>12. ASSUME ~down, NEW c \in Clients, NEW b \in BOOLEAN,
              search' = [search EXCEPT ![c].asleep = b],
              UNCHANGED <<given, gone, stage, bytesRead, tree, answered, down>>
       PROVE  ConnectionInv'
  <2> DEFINE r == [search[c] EXCEPT !.asleep = b]
  <2>1. search[c] \in Searches /\ c \in DOMAIN search /\ down' \in BOOLEAN
    BY <1>12 DEF ConnectionInv, TypeOK
  <2>2. /\ r \in Searches /\ search' = [search EXCEPT ![c] = r]
        /\ r.pushed = search[c].pushed /\ r.taken = search[c].taken /\ r.open = search[c].open
    BY <1>12, <2>1 DEF Searches
  <2> HIDE DEF r
  <2>3. DownOnlyBy'
    BY <1>12, StillUp DEF ConnectionInv
  <2> QED
    BY <1>12, <2>1, <2>2, <2>3, WorkerKeeps
<1>13. ASSUME ~down, NEW c \in Clients, Sleep(c) PROVE ConnectionInv'
  BY <1>12, <1>13 DEF Sleep
<1>14. ASSUME ~down, NEW c \in Clients, SpuriousWake(c) PROVE ConnectionInv'
  BY <1>12, <1>14 DEF SpuriousWake
<1>15. ASSUME ~down, NEW c \in Clients, TakeChunk(c) PROVE ConnectionInv'
  BY <1>15, TakeChunkKeeps
<1>16. ASSUME ~down, NEW c \in Clients, RankingFails(c) PROVE ConnectionInv'
  BY <1>16, RankingFailsKeeps
<1>17. ASSUME ~down, NEW c \in Clients, EndRanking(c) PROVE ConnectionInv'
  <2>1. PICK chunk \in search[c].open \ search[c].looping :
          search' = [search EXCEPT ![c].open = @ \ {chunk}]
    BY <1>17 DEF EndRanking
  <2> DEFINE r == [search[c] EXCEPT !.open = search[c].open \ {chunk}]
  <2>2. /\ search[c] \in Searches /\ c \in DOMAIN search /\ down' \in BOOLEAN
        /\ UNCHANGED <<given, gone, stage, bytesRead, tree, answered, down>>
    BY <1>17 DEF ConnectionInv, TypeOK, EndRanking
  <2>3. /\ r \in Searches /\ search' = [search EXCEPT ![c] = r]
        /\ r.pushed = search[c].pushed /\ r.taken = search[c].taken /\ r.open \subseteq search[c].open
    BY <2>1, <2>2 DEF Searches
  <2> HIDE DEF r
  <2>4. DownOnlyBy'
    BY <1>17, <2>2, StillUp DEF ConnectionInv
  <2> QED
    BY <2>2, <2>3, <2>4, WorkerKeeps
<1>18. ASSUME ~down, NEW c \in Clients, Reset(c) PROVE ConnectionInv'
  <2>1. /\ gone' = gone \cup {c}
        /\ UNCHANGED <<client, directory, stage, bytesRead, tree, search, answered, down>>
    BY <1>18 DEF Reset, given
  <2>2. Clients' = Clients
    BY <2>1 DEF Clients
  <2>3. TypeOK'
    BY <2>1, <2>2 DEF ConnectionInv, TypeOK
  <2>4. \A d \in Clients : LineInv(d)'
    BY <2>1, Untouched DEF ConnectionInv, SameChunks
  <2>5. DownOnlyBy'
    BY <1>18, <2>1, StillUp DEF ConnectionInv
  <2> QED
    BY <2>2, <2>3, <2>4, <2>5 DEF ConnectionInv
<1>19. ASSUME UNCHANGED vars PROVE ConnectionInv'
  BY <1>19 DEF vars, given, ConnectionInv, TypeOK, LineInv, DownOnlyBy, CannotOpen, DescriptorFree,
               FilesOpen, Open, Working, At, Clients, Bytes, Received
<1> QED
  BY <1>1, <1>2, <1>3, <1>4, <1>5, <1>6, <1>7, <1>8, <1>9, <1>10, <1>11, <1>13, <1>14, <1>15,
     <1>16, <1>17, <1>18, <1>19 DEF Next, Serve, WorkerStep

LEMMA ConnectionAlways == Spec => []ConnectionInv
  BY ConnectionInit, ConnectionStep, PTL DEF Spec

\* For any clients, however they send, stall or reset their connections, every
\* variable keeps its type: receiver never writes behind its buffer.
THEOREM TypeCorrect == Spec => []TypeOK
<1>1. ConnectionInv => TypeOK
  BY DEF ConnectionInv
<1> QED
  BY <1>1, ConnectionAlways, PTL

\* For any parser: a line that fits the buffer is parsed whole, in however many
\* pieces it came and whatever the other connections do, and its tree is the
\* one that is searched for.
THEOREM LinesParsedWhole == Spec => []ParsedWhole
<1>1. ConnectionInv => ParsedWhole
  <2> SUFFICES ASSUME ConnectionInv, NEW c \in HasTree, 0 < Bytes(c), Bytes(c) <= BufferSize
               PROVE  tree[c] = TreeOf(client[c].line)
    BY DEF ParsedWhole
  <2>1. c \in Clients /\ c \notin gone /\ search[c].taken > 0 /\ LineInv(c)
    BY DEF HasTree, WithTree, ConnectionInv
  <2>2. search[c].taken \in Nat /\ search[c].pushed \in Nat
    BY <2>1 DEF ConnectionInv, TypeOK, Searches
  <2>3. stage[c] \in Late /\ tree[c] = TreeOf(Received(c))
    BY <2>1, <2>2 DEF LineInv, Late
  <2>4. Received(c) = client[c].line
    BY <2>1, <2>3, WholeLine DEF ConnectionInv, LineInv
  <2> QED
    BY <2>3, <2>4
<1> QED
  BY <1>1, ConnectionAlways, PTL

\* For any parser, any chunk files and any number of descriptors: the process ends
\* only by a client that resets its connection, by a chunk file that cannot be
\* opened or does not verify, or in a chunk that is torn or is ranked for a
\* line whose tree does not compile or may fail to be ranked.
THEOREM EndedOnlyBy == Spec => []DownOnlyBy
<1>1. ConnectionInv => DownOnlyBy
  BY DEF ConnectionInv
<1> QED
  BY <1>1, ConnectionAlways, PTL
=============================================================================
