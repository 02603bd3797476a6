# query-constraint: TLA+ models, checks and proofs

This directory holds TLA+ models of the query backend of APESearch, the TLC
configurations that check them, and theorems about them that TLAPS checks.
`PROJECT.json` names, for every definition, the lines of the source it stands
for, and lists runs, mutants, findings, hazards and theorems.

## 1. The system

A *builder* turns the files the crawler processed into *index chunks*; a *query
node* answers a query by searching every chunk in its directory.

    processed files --Builder--> IndexFileParser --addDoc--> IndexHT (HashTable)
                                                   --buildCurIndex--> apechunk<n>

    connection --Node--> Index.searchIndexChunks --queue, 10 threads--> rankChunk
                           per chunk: Ranker -> QueryParser/TokenStream -> parse tree
                                      -> Compile -> ISR tree -> posting lists
                           results --resultsLock--> Index.topTen --> Node.sender

| component | state | operations | talks to |
|---|---|---|---|
| Fan-out (`src/src/Index.cpp`) | `threadQueue`, `filesToPush`, `topTen` of each Index; the *global* `queueLock`, `resultsLock`, `notEmpty` | `searchIndexChunks` (main thread), `rankChunk` (10 workers) | shared memory under the mutexes; calls Ranker |
| Posting lists (`src/include/Index.h`) | per list: delta bytes and a sync table of 24 levels; per iterator: `plPtr`, `curPost`, `prevLoc` | `initSerializedPostingList`; `Seek`, `Next` of the word and the document-end iterator | read by the ISRs |
| Index building (`Builder.cpp`, `IndexFileParser.h`, `IndexHT.cpp`, `IndexFile`) | the dictionary of lists, `urls`, `MaximumLocation`, `uniqueWords`, `currentChunk`; the chunk files | `writeFile`, `addDoc`, `buildCurIndex`, `IndexBlob::Write` | leaves files that the fan-out lists |
| Constraint solver (`ISR.cpp`, `Tuple.cpp`, `TupleList.cpp`) | a tree of readers, each with an iterator, plus one `docEnd` reader that all of them move | `Compile`, `Seek` of each kind of reader, `NextDocument` | returns `Post*` into the readers' own current posts |
| Ranker (`Ranker.cpp`) | `compiledTree`, `docEnd`, `chunkResults` | `getTopTen` and the scores | drives the solver, shares its iterators |
| Query parser, token stream (`QueryParser.cpp`, `TokenStream.cpp`) | the rest of the line, the current token | `TakeToken`, the `Find...` functions of the grammar | gives a parse tree to the Ranker |
| Hash table (`HashTable.h`) | bucket array, chains, their counts | both `Find`, `Optimize`, `vectorOfBuckets` | used by IndexHT |
| Serialized chunk (`IndexBlob` in `Index.h`, `IndexHT::BytesRequired`) | header, bucket offsets, lists, urls of a file | `BytesRequired`, `Write`, `Find`, `FindAnchorText`, `getUrls` | written by the builder, read by Ranker and solver |
| Query node (`Node.cpp`) | listening socket, pool of 128 threads | `connectionHandler`, `handle_query`, `sender`, `receiver` | a new Index for each connection |

What is hard here, and what makes each part correct:

* **Fan-out.** Threads of *several* Index objects share one condition variable.
  Every chunk must be ranked exactly once; `topTen` must be the best of
  everything found; the search must return.
* **Posting lists.** A Seek starts at the sync entry of the target's level and
  scans. It must not start behind its answer. The document-end iterator must
  keep `prevLoc` right, since two of its locations *are* the document's bounds.
* **Index building.** A location is the only thing that connects a word, its
  title variant, and a document. Every location must lead back to the token and
  the document it was made for, at every chunk border; a build may die halfway.
* **Constraint solver.** Results are pointers into readers that later Seeks move,
  one `docEnd` serves every container, and the loops have no obvious variant.
  A document that is answered must match, and every search must end.

* **Query parser.** An operator may be ignored, doubled, or have nothing behind it;
  a quote or a parenthesis may have no partner. What is written in the language
  must be parsed as it is meant, and a line that is not must lose as little as
  possible, without ending the process.
* **Query node.** A line arrives in pieces, a client may stall or be gone, and all
  connections share one process, its threads, its descriptors (sockets and the chunk files
  that searches open) and the one condition variable their workers sleep on.
* **Hash table and chunk file.** The table is taken apart and rebuilt; the file's
  size is measured by one walk over it and filled by another; a reader trusts the
  offsets. No list may be lost, moved or missed on the way.

`PROJECT.json` lists 40 hazards at their lines, and the properties that cover
them. A few have a note besides, on what the properties leave open: a NaN in the merge of
the chunks, `clz(0)` in other builds, an answer sent in part.

## 2. The modules

| module | what it models |
|---|---|
| `ChunkSearch` | `searchIndexChunks` and `rankChunk`, one action per critical section or step between two of them |
| `SearchAnswer` | the abstract search: ask, rank each chunk once in any order, answer with a best list; no thread, queue or lock |
| `SearchRefinement` | the mapping `Abstract == INSTANCE SearchAnswer WITH ...` for one Index |
| `MCChunkSearch` | instances |
| `ChunkSearchProofs` | theorems about ChunkSearch, and that it implements SearchAnswer (EXTENDS SearchRefinement) |
| `ListSeek` | the levels, and on which post a Seek ends, as functions of list and target |
| `PostingList` | the building of one sync table, then any calls of Seek and Next of one iterator (EXTENDS ListSeek) |
| `MCPostingList`, `PostingListProofs` | instances; theorems |
| `IndexBuild`, `MCIndexBuild`, `IndexBuildProofs` | the builder, from files to chunk files, with crashes and failed writes; instances; theorems |
| `TokenStream` | `TakeToken`: the tokens of a query line |
| `QueryParser` | the recursive descent from tokens to a parse tree (EXTENDS TokenStream) |
| `Connections`, `ConnectionsProofs` | connections, threads, receiving, parsing, searching, sending, for any parser; theorems |
| `QueryNode`, `MCQueryNode` | Connections with the parser that QueryParser is (EXTENDS both); lines, expressions and clients |
| `Ranker`, `RankerProofs` | the results getTopTen keeps of the documents it is given, and its time limit; theorems |
| `StreamReaders`, `StreamReadersProofs` | any tree of readers: every Seek, NextDocument, and getTopTen's loop (EXTENDS Ranker, ListSeek); theorems |
| `ConstraintSolver`, `MCConstraintSolver` | Compile, and what a search with a compiled tree has to do with the query (EXTENDS StreamReaders); chunks, and query lines that QueryParser parses |
| `Dictionary` | the abstract dictionary: every key has a list that only grows |
| `HashTable` | the chained table, and the mapping `Promise == INSTANCE Dictionary WITH content <- Content` |
| `IndexBlob`, `MCIndexBlob` | addDoc's use of the table, BytesRequired, Write and the two finds (EXTENDS HashTable); hash functions that collide |
| `HashTableProofs`, `IndexBlobProofs` | lemmas about the table; theorems about the table and the chunk file |

The modules meet in what they hand on. IndexBuild ensures what PostingList and
StreamReaders assume of a chunk (`ListsIncrease`, `LocationsExact`; `IsChunk` is both);
PostingList is the step-by-step Seek that `SeekWord` and `SeekEnd` of StreamReaders
take as one step, with the result ListSeek gives, and it is proved to end with that
result; StreamReaders says what getTopTen finds, which is the choice `Found` of
ChunkSearch. ConstraintSolver compiles the trees that StreamReaders takes as a constant;
TLC evaluates its assumption `ReadersAssumption`, that they are trees, on the compiled ones. QueryParser composes with both of its callers: QueryNode parses what
a connection has sent, and the trees MCConstraintSolver searches for are
`ParseTree` of lines. The trees for which QueryNode lets the Ranker of a whole chunk fail
(`RankingMayFail`) are those `FaultsOnlyWhere` of StreamReaders shows; the torn and the empty
chunks its directories hold are what IndexBuild leaves after a crash or a failed write; and
the search of Connections is ChunkSearch's without locks and results: its hang is
the one `search_hangs` refutes, its rescue `RescuedByAnotherSearch`, its end at a chunk `Abort`. HashTable is what IndexBuild
takes as a function from keys to lists. In the modules, an operator marked *Variant* is one
plausible mistake in the definition that follows it; no specification uses it. The
mutants of `PROJECT.json` put one of them in the place of the correct definition,
and the property they name then fails.

### ChunkSearch

`mpc[i]` is where the main thread of Index `i` is, `wpc[w]` where a worker is.
`StartSearch`, `CreateWorker`, `StartPushing`, `MainLocksQueue`, `Push`,
`Close`, `Join` are `searchIndexChunks` from top to bottom; `LockQueue`, `Wait`,
`Exit`, `Pop`, `Rank` or `Abort`, `LockResults`, `MergeOne`, `UnlockResults` are
one turn of `rankChunk`'s loop. What a thread does while it holds a mutex is one
step where nobody can see the middle. The sleepers on `notEmpty` are
the workers with `wpc = "waiting"`; `Push` wakes those of every Index, as the
broadcast on the global does. `Close` clears `filesToPush` and wakes nobody, and
nothing sets it again, because the source does neither. `ranked` and `found` are
history variables.

### PostingList

A list is the sequence of its locations. `RecordPost` is one turn of the loop of
`initSerializedPostingList`. `Seek` is the start of a Seek, `WordScan` and
`EndDocScan` one turn of its loop, so that the state between the turns is checked
too. Levels are given by `Floor`, the first location of each: 0, 2^9, 2^10, ... in the
code, for which `__builtin_clz` of `location >> 8` is the formula. `clz(0)` is
undefined; the value of the unoptimised x86 build of the Makefile, level 0, is taken.

### IndexBuild

`StartDoc`, `AddWord`, `AddAnchor`, `FinishDoc` are the parts of `addDoc` and the
test behind it; `OpenChunk`, `Stretch` or `StretchFails`, `WriteHeader`,
`WriteBody` are the writing constructor of IndexFile in the order in which the
file changes. `Restart` may happen between any two of them: memory is lost, the
files stay, numbering starts again at `apechunk0`. A file is as the process left
it: pages of the mapping that an operating system failure loses are not modelled.

### StreamReaders and ConstraintSolver

A search of a chunk runs in one thread. A tree is a function from paths to readers; the
Seeks that have not returned are the frames on `stack`, the root's first. A frame has
the locals and the members a Seek works with, under their names (`end` is `nearestEndLocation`,
`start` is `nearestStartLocation`), and the number `i` of the term it is at. `SeekTerm` asks that
term: a word answers in the same step (`SeekTermWord`), any other reader gets a frame of its own
(`SeekTermBelow`). `NextPhrasePass` and `NextContainerPass` are the head of the inner loop
after a pass in vain, `Return` and `ReturnToRanker` the end of a Seek. `NextDocument`, the
results of `ReturnToRanker` and `OutOfTime` are getTopTen's loop.

A `Post*` is the *identity of the reader* it points into, never a copied location: the solver
reads `loc` through it when the code does, after whatever Seeks came between. A crash (a
dereference of the null `curPost`, a failed assertion) and a pass that repeats itself unchanged
(`Stuck`) end the search with `status` "crash" or "hang". ISROr's `nearestStartLocation`, which the
code reads without having set it, is any value in `Unset`, chosen anew at each return.

`IsTree` and `IsChunk` are what is assumed of the constants: the parts of a reader are disjoint,
a phrase has words, a container that contains anything excludes only what NOT compiles to; a list increases, a location
has one token, and a document end is behind every token. Both are what Compile and the builder
make, and TLC evaluates them for all trees and chunks of the runs.

ConstraintSolver has the recursive part. `Compile` builds the tree of a query, and `Matches` says
whether a document satisfies a query. StreamReaders says the same of a tree, without recursive
operators: `Holds`, of every reader at once. The assumption `TreesMeanQueries`, which TLC evaluates
for every query and chunk of a run, joins the two: what the tree holds for matches the query,
and the other way round where nothing is excluded.

In Ranker, `results` is `chunkResults`, the documents getTopTen holds, as positions in
the history `answers` of all it has ranked; a rank is any of `Ranks`, which may hold `NaN`,
the double that `Below` compares with nothing. `RankDocument`,
`EndSearch` and `TimeIsUp` are what the loop does with them. StreamReaders conjoins
each with the step of the search that leads to it; `RankerSpec` allows any document
and any end instead, so that what is proved of it holds of every search.

### TokenStream and QueryParser

A line is a sequence of characters; the three keywords are one character each, since
only a whole run of letters is compared with them. `Scan` is the loop of `TakeToken`:
`start` and `curr` are `startChar` and `currChar`, and reading at `endChar` gives
`EndOfLine`, as the terminating 0 does. A method of the parser is an operator from
the tokens left, the current one first, to a tuple and the tokens left behind;
`NoTuple` is nullptr. A nullptr that `OrExpression::Append` puts at the end of its
list is the end of the list (`OrTerms`); one that NOT wraps stays in the tree. The
operators are recursive, as the grammar is: no theorem is stated about these modules.

### Connections and QueryNode

`stage[c]` is how far a connection is, `bytesRead[c]` is `bytes_read`. `Accept` is a
turn of the handler's loop, `Handle` a thread of the pool, `Receive`, `EndOfStream` and
`ReceiveError` the three results of `recv`, each action of `Serve` a step of
`handle_query` or `searchIndexChunks`, each of `WorkerStep` one of `rankChunk`.

`search[c]` is the search of a connection: how many chunk files were pushed on its queue
and taken from it, which of them workers have open, which of those are ranked for ever
(`looping`), and whether a worker sleeps on `notEmpty` (`asleep`). `Push` wakes the sleepers of all
searches, as the broadcast on the global `notEmpty` does; `CloseQueue` wakes none, so that `Join`
waits for ever for a worker that slept just before, for any query and also with no chunk at
all, unless another search pushes or the wait returns for no reason. One flag is enough for the
sleepers of a search: they are woken together, and none sleeps while its queue holds a chunk
(`NoSleeperBesideWork`), so that a worker is free to take one unless `NUM_THREADS` are open.
`TakeChunk` opens the file: where no descriptor is left for it, or the chunk is invalid
(`IndexFile` cannot map it, or `verifyIndexBlob` fails), the process ends, whatever the query. A torn
chunk, which verifies, may be ranked for ever or crash for any query.
`DescriptorFree` counts sockets and open chunk files together.

What a line is parsed to, and which trees compile or may fail to be ranked in a whole
chunk, are constant operators of Connections; the configuration of
QueryNode gives them the values they have in QueryParser. `down` is the end of the process, for all
connections. The GET line around the query and its `%` escapes are left out: the
client sends the query itself.

### HashTable and IndexBlob

`buckets` is the array of chains, each a sequence of entries; `hash` is any function, so
that every pattern of collisions occurs. `AddEntry` and `AddToEntry` are the two ways
IndexHT uses `Find`; `Optimize` flattens, resizes and puts every bucket to the end
of its new chain. `Flattened` and `Rehashed` are its two loops, as recursive functions.
In IndexBlob the builder's documents go into this table with the
locations addDoc gives them. A file is a sequence of *cells*, one for a number or a
string, so that sizes and offsets count cells in place of bytes: a list has a length, a
sync table (not for anchor texts), a key and its deltas. `WriteChunk` leaves the record
`Written`: the size that BytesRequired measured, the header, the offset of every chain,
and the cells one behind the other, as the walk over `VectorOfBuckets` lays them out.
`Walk` goes from list to list as a `Find` does (`Turn`), at most as often as the file has
cells, and reads a cell where a `Find` reads bytes, also when the list there is of
the other kind. What the bytes of a
number spell is `Letters`, chosen so that a posting list can pass for an anchor text.

## 3. The runs

Passing runs:

| run | instance | what it shows |
|---|---|---|
| `first_search` | 1 Index, 3 workers, 3 chunks, `K` = 2; ties, an empty and a truncated result list, one spurious wake-up, a second query that kills the process | each chunk is handed out once (`FirstSearchRanksOnce`); `topTen` is sorted and keeps the best (`TopTenIsBest`); the search implements `SearchAnswer`; every pushed chunk is ranked in the end, even when the search does not return (`PushedIsRanked`) |
| `shared_queue` | 2 Indexes, 3 workers, 2 chunks, 2 searches of each | `MutualExclusion`; `NoSleeperBesideWork`; `PushedAccounted`; `FirstSearchComplete`; only a sleeper keeps a search from returning (`EndsUnlessSleeper`); later searches return (`LaterSearchesReturn`); another Index's push frees a stuck search (`RescuedByAnotherSearch`) |
| `posting_list` | all lists of up to 4 posts over locations 0..9, 4 levels, both iterators, all call sequences | the sync table is complete; document bounds are exact; the document-end Seek finds the first end; the word Seek misses at most the one post its sync entry names |
| `index_build` | all pairs of files of up to 2 documents, limits 4 and 2, 3 runs | `ListsIncrease`, `LocationsExact`, `AnchorsExact` at every step; `EveryDocumentIndexed`, `DoneIsComplete` at the end; `ChunkBounded`; `AcceptedPartials` bounds the half-written files that `verifyIndexBlob` accepts |
| `constraint_solver` | all chunks of up to 2 documents (2 body words, 1 title word), all chunks of 4 one- or two-token documents; 16 query lines, 4 of them with NOT; 2 ranks and NaN, 2 results | answers advance; the post returned is a word of the query in the document ranked; faults only where named; every answer satisfies the query where no reader a container was told of is moved to another document (`AnswersMatchUnaliased`); words are missed only at sync posts; the results kept are the last document and others that no document given up ranks above (`ResultsBestAndLast`) |
| `query_node` | all lines of 3 of 10 characters, of 4 and 5 of five, and all expressions two levels deep in 3 styles, each over one chunk; 3 connections, 2 threads, 2 workers for a search, 4 descriptors, up to 2 chunk files | what is written in the language is parsed as meant, in however many pieces it comes (`ParsedAsMeant`); words are lost only at the end of a line, and only of one whose quotes, parentheses or operators are not in order (`WordsInOrder`); a plain list of words, or of words with `|` between them, ends the process only at a chunk file that is torn, is invalid, or finds no descriptor (`DownOnlyFor`); every connection that sends a line is closed, unless the process dies or from some time on its search hangs, or threads or descriptors are used up, for good (`ClosedEventually`) |
| `chunk_dictionary` | chunks of up to 4 locations over 1 body word, 2 anchor texts with up to 2 posts each and the document ends, 81 hash functions, tables of 1 to 8 chains, Optimize at any time | the table implements the dictionary (`ImplementsDictionary`); its counts and chains are right and its size is a power of two (`TableSound`); the file is exactly as long as measured, holds every url, and no lookup misses a list it has (`ChunkSound`) |

Runs that refute what the repository says (the findings):

| run | refuted | what happens |
|---|---|---|
| `search_hangs` | `SearchReturns` (`Index.h:637`) | a worker tests `filesToPush` after the last push and before it is cleared; it sleeps and nobody wakes it (`Index.cpp:162` has no broadcast) |
| `second_search_skips` | `EverySearchComplete` | `filesToPush` stays FALSE (`Index.cpp:136`): the workers of a second search leave at once |
| `first_post_skipped` | `WordSeekFirst` (`Readme.md`) | `Next` runs before the sync post is looked at (`Index.h:256`) |
| `answers_other` | `AnswersMatch` (`Readme.md:33`) | "a b" over `b, b, a, a, (b, title a), a` answers document 6, which holds no b, in place of 5: `post` is a pointer into a reader that a later pass moves, and `nearestStartLocation` is not reset between passes (`ISR.cpp:416`) |
| `phrase_hangs` | `SearchEnds` (`ISR.cpp:318`, `:349`) | the phrase "a b c" in a document `b a c`: a term past its place and before the farthest one changes nothing, and the pass repeats for ever |

The passing solver run states the rest of what was met as guarantees with their
limits: a NOT query crashes, hangs, or returns (`ISR.cpp:447` treats a word that
is found nowhere as found; the unit test for it is commented out), a phrase with a
word twice wraps below location 0 (`ISR.cpp:301`), and two containers under
one OR crash after the last document (`Index.h:305`) are the cases `FaultsOnlyWhere`
names, and no other query of the run has a fault. `ResultsBestAndLast` states what the
ten results are, which is not the ten best: an eleventh document takes the place of the
worst even where it ranks below it (`Ranker.cpp:258`). A rank that is NaN (the logarithm of a
negative score, `Ranker.cpp:241`) is above none and below none: in the first place it
is what the next document replaces, in any other it is never replaced. `ChunkSound` allows one wrong
answer, and both forms of it occur: in a chain that holds lists of both kinds, `Find` of
a word may stop at an anchor text (`Index.h:399-400` reads its key a sync table's length
further on), and `FindAnchorText` at a posting list whose first location spells the text
(`Index.h:426-427`). Lines other than those `DownOnlyFor` names may end the process: `|` alone has no
parse tree, `-` alone is a NOT of nothing.

### Bounds, and why they suffice

* `first_search`: three workers are the least for which one sleeps, one ranks and one
  merges; three chunks leave one to be pushed while two are in hand; `K` = 2 is the
  least for which the bubble moves an entry; the results tie across chunks.
* `shared_queue`: two Indexes, one with two workers, is the least at which a
  broadcast wakes strangers and a stranger's push rescues a sleeper; two searches
  are the least that show `filesToPush` left FALSE. Entries are abstract, `K` = 1.
* `posting_list`: with levels starting at 0, 2, 4, 8 a list of four posts fills,
  skips and shares levels, and 10 locations give targets before, on, between and
  behind posts. The theorems drop the bounds.
* `index_build`: MAX_LOCATION 4 and MAX_UNIQUE_WORDS 2 are exceeded each alone and
  both together, by the first document of a chunk and by a later one; an empty
  document, a word twice, a title word that is also a body word, an anchor that two
  documents share. Three runs allow a crash before and after a repaired chunk.
* `constraint_solver`: levels start at 0 and 4, so that lists lie in one level or in
  two. Two documents are enough for every fault found except the one of
  `answers_other`, which needs six (none exists with five of these documents), and its like
  with containers below a container of several terms; that is why `AnswersMatchUnaliased`
  is stated for unaliased trees. `AnswersSatisfy` proves it for chunks of any size.
  `Highest` = 100 is above every location, as `(Location) -1` is.
  Two results and three documents are the least for which one is replaced; two ranks let
  the new one be below, equal and above, and NaN be in either place. The theorems about
  Ranker drop these bounds.
* `query_node`: every pair of operators occurs with a word, a blank or the end on either
  side; five characters of the bracket set hold two groups, nested or not, closed or
  not. Two levels of an expression put each construct into each. Two threads are
  held by two clients and the third waits. Four descriptors are all held by one stranger and
  one search that hangs in two chunks, so that the third connection is not accepted; three
  sockets leave one for chunk files, so that a second file, of this search or another,
  finds none. Two chunk files are the least for which one is pushed while a worker
  has the other, and two searches at a time are what a rescue takes. `BufferSize` 24 is exceeded by some of the written expressions.
* `chunk_dictionary`: with hash values 0, 1 and 4 two keys share a chain in a table of
  four and not in one of eight, or in both, or in neither; four locations are two
  documents with a word and an end each, or one with three; two posts are the least for
  which an anchor text has a delta.
* `MaxSearches`, `MaxSpurious`, `MaxChunks`, `MaxRuns`, `MaxPosts`, `MaxBody`, `MaxDocuments`,
  `MaxLine`, `MaxLocation`, `MaxAnchors`, `MaxTokens` are the bounds on counters; no source limit is hidden in them.

`CHECK_DEADLOCK FALSE` is set where the system may stop: all searches have returned or
hang, the process aborted, the builder is done, the iterator crashed, a search ended,
no client sends more, the chunk is full and written.

### Fairness

`FairSpec` assumes weak fairness of each thread's own step (`MainStep(i)`,
`WorkerStep(w)`): the kernel runs every runnable thread. Ranking is a step, that is,
getTopTen returns, which its 20 second limit is for but which `phrase_hangs` shows
it need not. No fairness is assumed of new queries, spurious wake-ups, or the
order in which a mutex is handed over.

`Spec` of Connections assumes weak fairness of `Accept(c)`, `Serve(c)` and `WorkerStep(c)`: the
handler's loop, the threads of the pool and the workers of a search run on, and the bytes a
client has sent arrive. None of this lets a search return: a worker may go to sleep before
the queue is closed, nothing wakes it, and no fairness is assumed of `SpuriousWake`. The Ranker of a whole chunk
ends for the trees `RankingMayFail` leaves out. Nothing
makes a client send, shut down or reset, so a silent client keeps its thread
(`Node.cpp:143` has no time limit), and `ClosedEventually` says so. Among waiting
connections weak fairness is enough, because a thread or a descriptor that becomes
free is never lost again to all of the others for ever: each is served once.

## 4. The proofs

`ChunkSearchProofs`, for any Indexes, Workers, Chunks and result lists that meet the
named assumptions of `ChunkSearch` (every Index has a worker, each file name occurs
once, `K` > 0):

* `TypeCorrect`: type correctness. `TypeOK` is proved with `Progress`, which ties
  `next` and `query` to the program counters; without it `next` could leave
  `chunkFileNames`.
* `LocksExclude`, `NoLostChunkWakeup`, `NoChunkLost`: mutual exclusion, no sleeper
  beside a chunk, every pushed chunk in the queue, in a hand or ranked. The first
  two are inductive relative to the types, the third relative to `Progress` too.
* `FirstSearchRanksAll`: when the first search returns, all chunks were ranked.
  `FirstSearchInv` adds that in a first search `filesToPush` holds until `Close`, and
  that a worker only exits after it and with an empty queue; with
  `NoChunkLost` nothing is left when the last one has.
* `FirstSearchOnce`: in the first search no chunk is handed out twice. `OnceInv` keeps
  queue, hands and ranked set disjoint and the queue without repetition.
* `TopTenKept`: `topTen` is sorted and holds the best, if no Ranker returns NaN
  (`ComparableRanks`). `MergeKeeps` is the lemma about one insertion, `SlotStops` about
  where the bubble stops; `BestInv` adds that every result still to merge was found.

`PostingListProofs`, for any number of levels and any increasing list:

* `TypeCorrect`; `SyncTableBuilt`: the entry of a level is the first post of that level
  or above. `BuildInv` also says which levels are filled, which the loop's
  `nextHighBit` encodes.
* `DocumentBoundsRight`: `curPost` and `prevLoc` are a document's bounds.
* `DocumentFound`: the document-end Seek finds the first end at or after its target.
* `WordFoundOrNext`: the word Seek misses at most the post its sync entry names.
* `WordSeekIsWordPost`, `EndDocSeekIsEndPost`: where a Seek ends, and for a document end
  with which bounds, is `WordPost` or `EndPost` of the list and the target, whatever was
  called before. This is what allows StreamReaders to take a Seek as one step.

The action properties follow from one invariant: during a scan the iterator stands
on a post before which everything is below the target. The last two add that it is
behind the post the scan began on (`Begun`), and that the entry Seek starts from names
`SyncPost` (`StartIsSyncPost`), which is where the table is read by its content and no
longer by how it was built.

`ChunkSearchProofs` also proves the refinement, if no Ranker returns NaN (`ComparableRanks`) and no two results
that count are the same (`DistinctEntries`: a url and its rank come from one place of one
chunk, which documents that are indexed once ensure):

* `FirstSearchImplements`: with one search of every Index, ChunkSearch implements
  SearchAnswer (`ImplementsSearchAnswer`, the property of `first_search`).
* `FirstSearchSimulates`: with any number of searches, every step up to the second search
  of the Index is a step of SearchAnswer or leaves its state alone. Not beyond: what
  `second_search_skips` shows is no step of it.

The simulation needs all the invariants above, and `AnswerInv`: `topTen`
shows the best of what was *found*, entries found belong to chunks ranked, and those
a worker still merges are new to `topTen` and to every other worker. Without it the
abstract answer, the best of a set, could not be read off an array that is filled one
entry at a time.

`IndexBuildProofs`, for any corpora of documents and any limits (`CorporaAssumption`,
`LimitsAssumption`), each property of `index_build`. The inductive invariant is the
conjunction of these, in the order in which one rests on the others:

* `TypeInv`: the types, one url for each document, and a chunk being written has a number
  (`TypeCorrect`).
* `EndsInv`: the document ends tile the locations of the index. From this every location has
  one document and one place in it (`StartOf`), and the lemmas about `Agree` follow.
* `WordsInv`, `AnchorsInv`: a list holds the posts of exactly the tokens, or anchors, added so
  far, with the document addDoc is working on cut off where it stands. This is what makes
  `ListsIncrease`, `LocationsExact` and `AnchorsExact` inductive within a document
  (`ListsAlwaysIncrease`, `LocationsAreExact`, `AnchorsAreExact`).
* `LimitsInv`: an index that is being added to is within its limits (`ChunksAreBounded`).
* `FilesInv`: the state of every file of this run, and of the one being written from `pc`
  (`DoneRunsAreComplete`); `AcceptedPartials` is inductive with it (`FewPartialsAccepted`).
* `CompleteInv`: a complete file, of this run or an older one, agrees with its documents.
* `ParsedInv`: the documents of the finished files and of the index are, in order, those of the
  processed files up to where Builder is (`EveryDocumentIsIndexed`). It needs how
  concatenation of a sequence of sequences grows at its end (lemmas about `Flatten`).

`HashTableProofs` and `IndexBlobProofs`, for any keys, hash functions, sizes, locations and
lengths of the parts of a file (`TableAssumption`, `BlobAssumption`):

* `TableAlwaysSound`: `TableSound`. `ChainsSound` is inductive: every bucket is in the chain its
  key hashes to, no key has two, and the counts are cardinalities. That Optimize keeps
  it is proved along its two loops: `Flattened` lists every bucket once, and after n turns
  `Rehashed` holds the first n of them.
* `TableIsDictionary`: `ImplementsDictionary`. `ContentOf` reads a sound table; two sound tables
  that hold the same buckets have the same content, whatever their sizes, so Optimize
  is a stutter of Dictionary.
* `ChunkAlwaysSound`: `ChunkSound`. `EndsInv` says that addDoc's locations and urls match.
  The file is the concatenation of its chains; a lemma gives the place of the n-th part of
  a concatenation as the sum of the lengths before it, which is what BytesRequired adds
  up. From it follow the size, and that every offset leads to the length of its list
  (`ChainIsInFile`). A walk that has not found its key steps from list to list of the chain
  (`WalkIs`), so it ends in the list of the key, or in front of it in one of the other
  kind, which is the case `ChunkSound` allows.

Powers of two, sums and both loops are recursive *functions* here, since no theorem can be
stated in reach of a recursive operator. Their induction is `SetInduction`: a set of
natural numbers with 0 and the successor of each element has them all, from the
well-foundedness of `<`. `FollowsExists` derives the equation of a recursive function.

`RankerProofs`, for any ranks that are integers or NaN, any number of results and of documents:

* `ResultsKept`: `ResultsBestAndLast`. The inductive invariant adds that as long as there is room
  the results are all documents in order. That what was dropped before ranks above no
  result but the last is kept because the result dropped next ranks between them; for
  that it must compare, and it does: a NaN that is replaced is in the first place
  (`WorstIsLeast`) and came there with the last document (`FirstPlace`).
* `HighestKept`: with two results or more and no NaN, one of the documents that rank highest is kept: the
  replacement of the worst whatever the new rank costs a good document, never the best.
  With NaN in the results there may be no room for it.

`StreamReadersProofs`, for any chunk, tree of readers, value of what is not initialised, and
levels (`ReadersAssumption`, `LevelsAssumption`), hence for every query and every nesting. Most
lemmas are about one frame, the stack, or the lists, with these as arguments, so
that one serves a state and its successor.

* `ReadersTyped`: type correctness, which says that the target of no Seek of readers leaves
  0..`Highest`, although one is set behind a document's end. It is proved with `Calling`:
  each frame waits for the one above it.
* `SearchesForRanker`: every step is one of `RankerNext` or leaves Ranker's variables alone, so
  that the search implements `RankerSpec`; `SearchKeepsResults` is `ResultsBestAndLast` of the
  search itself, by `ResultsKept`.
* `AnswersHoldPosts`, `AnswersGoOn`: the post returned is one of a word of the query in the document
  ranked, and the documents ranked advance. A Seek promises the one that called it a post in no
  document that ends before the target (`Finds`), read through readers that move. What holds between
  is `FrameInv`: the readers a frame points at stand on posts of their lists, an OR has the nearest
  so far, a container's pass is over the document of the farthest location before it, and the
  words of a phrase stand side by side up to the term that was the farthest when the pass began.
  `Shape` keeps the readers of the frames apart: a Seek moves readers under its own node only. Of
  `docEnd` nothing is needed while a Seek runs, and `Onward` when none does.
* `FaultsAreThere`: `FaultsOnlyWhere`. That nothing goes round for ever is `OnFurther`: a pass in vain
  of a container without excluded terms or of a phrase of one or two words has moved the farthest
  location or term. That nothing crashes needs room for the words of a phrase before the farthest
  location (words with different keys have different locations), and that `docEnd` has run off
  its list only in or after a Seek past the last document (`OffEnd`), which is lost, so that only a
  second container can ask it again.
* `WordsAreFound`: `MissesOnlySyncPosts`. Of the posts before the target of the root's Seek, each
  is one that a Seek starts from, or is in a document ranked (`Sought`); each term of an OR that
  has answered passed over such posts only (`StackPassed`).
* `AnswersSatisfy`: `AnswersMatchUnaliased`, every document ranked satisfies the tree. `MatchInv` says of
  each frame what its posts mean (`FrameSound`): the nearest post of an OR is right for its term
  (`OrSound`), behind the first word of a phrase is the second (`PhraseSound`), and of a
  container the terms that a pass has been over stand in the document of the pass
  (`ContainerSound`) and stay there, because nothing else reads from their readers. `Holds`
  is defined by what it says of the terms, so that its value must first be shown to
  exist: a set of readers that is not empty has one with none of them under it (`LowestReader`,
  by induction on the finite number of readers).

The last theorem is why `Unaliased` says what it does. An earlier form of it left out that a container of
several terms has no container below it; the invariant was not inductive, and TLC then found answers
in larger chunks that hold only some of the words: a nested container may return a post in a document
before the one it is asked for, whose pass then is over that earlier document. That is a second
cause of what `answers_other` shows, and `Unaliased` excludes it now.

`ConnectionsProofs`, for any clients, sizes and parser (`NodeAssumption`):

* `TypeCorrect`: types, and so that receiver stays within its buffer.
* `LinesParsedWhole`: `ParsedWhole`, a line that fits is parsed whole, in however many pieces it
  came. `ParsedAsMeant` is this together with the parser, which TLC checks.
* `EndedOnlyBy`: `DownOnlyBy`, the process ends by a reset, by a chunk file that cannot be opened
  or does not verify, or in a chunk that is torn or is ranked for a line whose tree does not
  compile or may fail to be ranked, for any chunk files and any number of descriptors.
  `DownOnlyFor` adds which lines have such a tree.

`LineInv` is the inductive invariant of a connection: what was read is no more than what is
sent, it is all of it when receiver has ended; only a search has pushed chunk files, those
taken were pushed and those open were taken; and the tree is that of what was read once
a chunk was taken. A push changes every search, but only whether its workers sleep (`SameChunks`).

Only model-checked: the liveness properties (liveness under fairness is beyond the prover), and
what rests on recursive operators, whose value for every tree or line would need induction over
data: `ParsedAsMeant`, `WordsInOrder` and `DownOnlyFor` of QueryNode, which are about the parser, and
the assumption `TreesMeanQueries` of ConstraintSolver, that a compiled tree means what its query does.
All other invariants and action properties of the passing runs are stated by theorems.

## 5. What is not modelled

* The characters of processed files; the GET line around a query and `urlDecode`; which
  characters count as blanks (one stands for all).
* The bytes of a chunk: `encodeDelta` and `decodeDelta`, the width of a sync entry.
  The models count numbers and strings.
* Scores and URLs: a rank is a choice, and that `log` makes some of them NaN is one of them
  in Ranker; an infinite one is the least. How chunks with a NaN are merged has no
  property, and `TopTenKept` assumes that there is none.
* The bytes of an answer, hence an answer that `send` takes only a part of.
* The hash table's iterators, `swap` and statistics; `AnchorListIterator`; `ISRAnd` and the
  `Next` methods of the readers that nothing calls.
* The undefined behaviour of a failed `pthread_create`; `clz(0)` in builds other than the
  Makefile's.
* `Optimize` between measuring a chunk and writing it, which the code has in a comment only
  (`Index.h:560`); the one it calls, at `IndexFileParser.h:45`, comes before both.
* The descriptors that `listdir` has open for a moment, and the wait of `submitNoFuture`, if the
  pool has a limit for it. A file that cannot be opened or mapped is taken to end the process as one that
  fails `verifyIndexBlob` does: `File` and `unique_mmap` are of the AS library, and what is read next is
  no mapping.
* `DynamicBuffer`, which nothing includes; the AS library, an empty submodule (its
  thread pool is a number of threads, its vector and string are sequences); drivers
  and tests.

## 6. Plan

Done, in this order, the most important behaviour first: ChunkSearch with
SearchAnswer and its proofs; PostingList and its proofs; IndexBuild;
the constraint solver; TokenStream, QueryParser and QueryNode; the results of getTopTen;
HashTable with Dictionary, and IndexBlob. Then the proofs about IndexBuild, the
refinement of SearchAnswer, the table and the chunk file; Ranker and Connections, split from
the recursive modules that extend them, with theirs; ListSeek, and that PostingList's Seeks
end where it says. Last, the search of a chunk call by call and pass by pass in StreamReaders,
without recursion over the tree, and the proofs of all its invariants.

Next:

* NaN in the merge of the chunks: what `topTen` keeps of results with one, and whether
  the search still implements a weaker `SearchAnswer`.
* What a phrase or a container misses besides sync posts: `MissesOnlySyncPosts` is about words and ORs.
