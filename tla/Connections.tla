---------------------------- MODULE Connections ----------------------------
(***************************************************************************)
(* The query node (src/src/Node.cpp): it accepts connections, reads a line *)
(* from each in a thread of its pool, parses it, searches, sends the       *)
(* answer and closes the connection.  All of it is one process: a query    *)
(* that crashes ends it for every connection.                              *)
(*                                                                         *)
(* The search (src/src/Index.cpp) is ChunkSearch's without its locks and   *)
(* its results: how many chunk files were pushed on the queue and taken    *)
(* from it, how many a worker has open, and whether a worker sleeps on     *)
(* notEmpty, which one broadcast of any search wakes.  Sockets and chunk   *)
(* files share the descriptors of the process.                             *)
(*                                                                         *)
(* A workload is the clients there are and the chunk files of the          *)
(* directory: a chunk is whole, or torn (a crash cut its writing short,    *)
(* but it verifies), or invalid (it cannot be mapped, or does not verify). *)
(* A client is a record: its line, of which only the query is kept; the    *)
(* expression it means, if it is one of the query language; how the line   *)
(* ends ("zero": in '\0'; "shut": the client shuts down; "open": it stays  *)
(* silent; "reset": it may reset the connection at any time); and whether  *)
(* the client is the frontend.                                             *)
(*                                                                         *)
(* What the parser makes of a line, which trees compile and which may fail *)
(* to be ranked in a whole chunk are parameters here.  QueryNode gives them   *)
(* the values they have in QueryParser.                                    *)
(***************************************************************************)
EXTENDS Integers, Sequences, FiniteSets

CONSTANTS
  Connections,
  Workloads,        \* records: the clients, by connection, and the chunk files
  Alphabet,         \* the characters of a line
  BufferSize,       \* BUFFERSIZE
  Threads,          \* MAXTHREADS
  NUM_THREADS,      \* the workers of a search
  Descriptors,      \* the open files the process may have
  TreeOf(_),        \* the parse tree of a line
  Compiling(_),     \* can getTopTen compile a tree?
  Failing(_),       \* may ranking a whole chunk crash or go round for ever?
  NoTree            \* before a line is parsed

ChunkFiles == {"whole", "torn", "invalid"}

ASSUME NodeAssumption ==
  /\ \A w \in Workloads :
       /\ DOMAIN w.clients \subseteq Connections
       /\ \A c \in DOMAIN w.clients : w.clients[c].line \in Seq(Alphabet)
       /\ w.directory \in Seq(ChunkFiles)
  /\ {BufferSize, Threads, NUM_THREADS, Descriptors} \subseteq Nat \ {0}

VARIABLES
  client,     \* the clients that connect
  directory,  \* what chunk files there are, in the order of listdir
  gone,       \* the connections the client has reset
  stage,      \* how far handle_query is
  bytesRead,  \* bytes_read
  tree,       \* the parse tree of the query
  search,     \* the search of a connection: its queue and its workers
  answered,   \* the connections whose client has been sent its answer
  down        \* the process has died

given == <<client, directory>>
vars == <<given, gone, stage, bytesRead, tree, search, answered, down>>

-----------------------------------------------------------------------------
Clients == DOMAIN client
At(s) == {c \in Clients : stage[c] \in s}
Working == At({"receiving", "received", "search", "join", "answer"})
Open == Working \cup At({"refused", "queued"})

\* The chunk files that workers have open, and the descriptors left.
FilesOpen == UNION {{c} \X search[c].open : c \in Clients}
DescriptorFree == Cardinality(Open) + Cardinality(FilesOpen) < Descriptors

\* The bytes a client sends; what handle_query has of the query.
Bytes(c) == Len(client[c].line) + (IF client[c].ends = "zero" THEN 1 ELSE 0)

\* Variant: recv is given the size of the whole buffer every time.
LimitAnew(c) == IF bytesRead[c] + BufferSize < Bytes(c) THEN bytesRead[c] + BufferSize ELSE Bytes(c)

\* As far as recv may have read: the buffer has room for BufferSize bytes.
Limit(c) == IF Bytes(c) < BufferSize THEN Bytes(c) ELSE BufferSize
Received(c) ==
  LET line == client[c].line
  IN  SubSeq(line, 1, IF bytesRead[c] < Len(line) THEN bytesRead[c] ELSE Len(line))

Goto(c, s) == stage' = [stage EXCEPT ![c] = s]

\* connectionHandler: a connection that is not the frontend's is left open.
Accept(c) ==
  /\ stage[c] = "waiting"
  /\ DescriptorFree
  /\ Goto(c, IF client[c].frontend THEN "queued" ELSE "refused")
  /\ UNCHANGED <<given, gone, bytesRead, tree, search, answered, down>>

\* A thread of the pool calls handle_query.
Handle(c) ==
  /\ stage[c] = "queued"
  /\ Cardinality(Working) < Threads
  /\ Goto(c, "receiving")
  /\ UNCHANGED <<given, gone, bytesRead, tree, search, answered, down>>

\* Variant: a full buffer does not end the line.
LineEndsAtZero(c, n) == n = Len(client[c].line) + 1

\* receiver has the line: the last byte read is '\0', or the buffer is full.
LineEnds(c, n) == n = Len(client[c].line) + 1 \/ n >= BufferSize

\* recv gives some of the bytes that have arrived.
Receive(c) ==
  /\ stage[c] = "receiving"
  /\ \E n \in (bytesRead[c] + 1)..Limit(c) :
       /\ bytesRead' = [bytesRead EXCEPT ![c] = n]
       /\ IF LineEnds(c, n) THEN Goto(c, "received") ELSE UNCHANGED stage
  /\ UNCHANGED <<given, gone, tree, search, answered, down>>

\* recv gives 0.
EndOfStream(c) ==
  /\ stage[c] = "receiving"
  /\ client[c].ends = "shut" /\ bytesRead[c] = Bytes(c)
  /\ Goto(c, "received")
  /\ UNCHANGED <<given, gone, bytesRead, tree, search, answered, down>>

\* recv gives -1, which is added to bytes_read, and then 0.  A string of -1
\* characters may be anything or end the process.
ReceiveError(c) ==
  /\ stage[c] = "receiving" /\ c \in gone
  /\ Goto(c, "received")
  /\ IF bytesRead[c] = 0 THEN down' \in BOOLEAN /\ UNCHANGED bytesRead
     ELSE bytesRead' = [bytesRead EXCEPT ![c] = @ - 1] /\ UNCHANGED down
  /\ UNCHANGED <<given, gone, tree, search, answered>>

\* An empty line closes the connection.
NoLine(c) ==
  /\ stage[c] = "received" /\ bytesRead[c] = 0
  /\ Goto(c, "closed")
  /\ UNCHANGED <<given, gone, bytesRead, tree, search, answered, down>>

\* handle_query makes an Index of the directory and calls searchIndexChunks.
StartSearch(c) ==
  /\ stage[c] = "received" /\ bytesRead[c] > 0
  /\ Goto(c, "search")
  /\ UNCHANGED <<given, gone, bytesRead, tree, search, answered, down>>

-----------------------------------------------------------------------------
(* searchIndexChunks *)

\* A chunk file is pushed, and the broadcast wakes the workers of every search.
Push(c) ==
  /\ stage[c] = "search" /\ search[c].pushed < Len(directory)
  /\ search' = [d \in Clients |->
       [search[d] EXCEPT !.asleep = FALSE, !.pushed = IF d = c THEN @ + 1 ELSE @]]
  /\ UNCHANGED <<given, gone, stage, bytesRead, tree, answered, down>>

\* filesToPush is cleared, and no one is told.
CloseQueue(c) ==
  /\ stage[c] = "search" /\ search[c].pushed = Len(directory)
  /\ Goto(c, "join")
  /\ UNCHANGED <<given, gone, bytesRead, tree, search, answered, down>>

\* Every worker has left its loop: none sleeps, and none has a chunk.
Join(c) ==
  /\ stage[c] = "join" /\ search[c].taken = search[c].pushed
  /\ search[c].open = {} /\ ~search[c].asleep
  /\ Goto(c, "answer")
  /\ UNCHANGED <<given, gone, bytesRead, tree, search, answered, down>>

-----------------------------------------------------------------------------
(* rankChunk.  While a chunk is queued no worker of that search sleeps, so   *)
(* that one is free to take it unless all have a chunk open.                 *)

\* The queue is empty and more may come: a worker waits on notEmpty.
Sleep(c) ==
  /\ stage[c] = "search" /\ search[c].taken = search[c].pushed
  /\ Cardinality(search[c].open) < NUM_THREADS /\ ~search[c].asleep
  /\ search' = [search EXCEPT ![c].asleep = TRUE]
  /\ UNCHANGED <<given, gone, stage, bytesRead, tree, answered, down>>

\* pthread_cond_wait may return for no reason.
SpuriousWake(c) ==
  /\ search[c].asleep
  /\ search' = [search EXCEPT ![c].asleep = FALSE]
  /\ UNCHANGED <<given, gone, stage, bytesRead, tree, answered, down>>

\* The next chunk file of the queue cannot be opened, or does not verify.
CannotOpen(c) ==
  /\ search[c].taken < search[c].pushed
  /\ ~DescriptorFree \/ directory[search[c].taken + 1] = "invalid"

\* A worker takes a chunk name, opens the file and asserts that it verifies;
\* its Ranker parses and compiles the line.
TakeChunk(c) ==
  /\ search[c].taken < search[c].pushed /\ Cardinality(search[c].open) < NUM_THREADS
  /\ IF CannotOpen(c) THEN down' = TRUE /\ UNCHANGED <<search, tree>>
     ELSE /\ search' = [search EXCEPT ![c].taken = @ + 1, ![c].open = @ \cup {search[c].taken + 1}]
          /\ tree' = [tree EXCEPT ![c] = TreeOf(Received(c))]
          /\ down' = ~Compiling(tree'[c])
  /\ UNCHANGED <<given, gone, stage, bytesRead, answered>>

\* What getTopTen makes of a chunk is not sure to be an answer.
Unsure(c, chunk) == Failing(tree[c]) \/ directory[chunk] = "torn"

\* getTopTen goes round for ever, or crashes.
RankingFails(c) ==
  /\ \E chunk \in search[c].open \ search[c].looping :
       /\ Unsure(c, chunk)
       /\ search' = [search EXCEPT ![c].looping = @ \cup {chunk}]
  /\ down' \in BOOLEAN
  /\ UNCHANGED <<given, gone, stage, bytesRead, tree, answered>>

\* The results of a chunk are merged, and its file is closed.
EndRanking(c) ==
  /\ \E chunk \in search[c].open \ search[c].looping :
       search' = [search EXCEPT ![c].open = @ \ {chunk}]
  /\ UNCHANGED <<given, gone, stage, bytesRead, tree, answered, down>>

-----------------------------------------------------------------------------
\* sender, and close.  To a client that is gone send fails, and where it had
\* shut down before it reset the connection SIGPIPE ends the process.
Send(c) ==
  /\ stage[c] = "answer"
  /\ Goto(c, "closed")
  /\ answered' = answered \cup ({c} \ gone)
  /\ IF c \in gone THEN down' \in BOOLEAN ELSE UNCHANGED down
  /\ UNCHANGED <<given, gone, bytesRead, tree, search>>

Reset(c) ==
  /\ client[c].ends = "reset" /\ stage[c] \notin {"waiting", "closed"}
  /\ gone' = gone \cup {c}
  /\ UNCHANGED <<given, stage, bytesRead, tree, search, answered, down>>

\* The thread of the pool that has a connection, and the workers of its search.
Serve(c) ==
  \/ Handle(c) \/ Receive(c) \/ EndOfStream(c) \/ ReceiveError(c) \/ NoLine(c)
  \/ StartSearch(c) \/ Push(c) \/ CloseQueue(c) \/ Join(c) \/ Send(c)
WorkerStep(c) == Sleep(c) \/ TakeChunk(c) \/ RankingFails(c) \/ EndRanking(c)

NoSearch == [pushed |-> 0, taken |-> 0, open |-> {}, looping |-> {}, asleep |-> FALSE]

Init ==
  /\ \E w \in Workloads : client = w.clients /\ directory = w.directory
  /\ gone = {} /\ answered = {} /\ down = FALSE
  /\ stage = [c \in Clients |-> "waiting"]
  /\ bytesRead = [c \in Clients |-> 0]
  /\ tree = [c \in Clients |-> NoTree]
  /\ search = [c \in Clients |-> NoSearch]

Next == ~down /\ \E c \in Clients :
                   Accept(c) \/ Serve(c) \/ WorkerStep(c) \/ SpuriousWake(c) \/ Reset(c)

\* The handler's loop, the threads of the pool and the workers run on; nothing
\* makes a client reset its connection, or a sleeping worker wake.
Spec == Init /\ [][Next]_vars
             /\ \A c \in Connections : /\ WF_vars(~down /\ c \in Clients /\ Accept(c))
                                       /\ WF_vars(~down /\ c \in Clients /\ Serve(c))
                                       /\ WF_vars(~down /\ c \in Clients /\ WorkerStep(c))

-----------------------------------------------------------------------------
(* What the node promises *)

Stages == {"waiting", "refused", "queued", "receiving", "received", "search", "join", "answer", "closed"}
Searches == [pushed : Nat, taken : Nat, open : SUBSET Nat, looping : SUBSET Nat, asleep : BOOLEAN]

\* Every variable holds a value of its type; receiver does not write past its
\* buffer.
TypeOK ==
  /\ Clients \subseteq Connections /\ \A c \in Clients : client[c].line \in Seq(Alphabet)
  /\ directory \in Seq(ChunkFiles)
  /\ gone \subseteq Clients /\ answered \subseteq Clients /\ down \in BOOLEAN
  /\ stage \in [Clients -> Stages]
  /\ bytesRead \in [Clients -> 0..BufferSize]
  /\ search \in [Clients -> Searches]
  /\ DOMAIN tree = Clients

\* The connections whose line a Ranker parsed, unless it was lost.
WithTree == {c \in Clients : search[c].taken > 0}
HasTree == WithTree \ gone

\* A line that fits the buffer is parsed whole, in however many pieces it came,
\* whatever other connections do, and its tree stays.
ParsedWhole ==
  \A c \in HasTree :
    0 < Bytes(c) /\ Bytes(c) <= BufferSize => tree[c] = TreeOf(client[c].line)

\* The process ends only by a client that reset its connection, by a chunk file
\* that cannot be opened or does not verify, or while a chunk is ranked that is
\* torn, or for a line whose tree does not compile or may fail to be ranked.
DownOnlyBy ==
  down => \E c \in Clients :
            \/ c \in gone
            \/ CannotOpen(c)
            \/ \E chunk \in search[c].open :
                 \/ directory[chunk] = "torn"
                 \/ Compiling(TreeOf(Received(c))) => Failing(TreeOf(Received(c)))
=============================================================================
