---------------------------- MODULE StreamReaders ----------------------------
(***************************************************************************)
(* The constraint solver's search (src/src/ISR.cpp, src/include/ISR.h): a  *)
(* tree of index stream readers, their Seek methods, and the loop of       *)
(* Ranker::getTopTen that asks the root for one document of a chunk after  *)
(* the other and hands it to Ranker.                                       *)
(*                                                                         *)
(* The Seeks call each other down the tree.  What each of those that have  *)
(* not returned holds is a frame on stack, and what a call, a term that    *)
(* answers, a round over the terms and a return do to it is a step.  Every *)
(* Seek of a word starts over from the sync table, hence of the iterators  *)
(* only the post each one stands on is kept, and of the document-end       *)
(* reader its bounds.  A Post* is the identity of the reader whose current *)
(* post it points at: what it points at moves when that reader does.       *)
(***************************************************************************)
EXTENDS Ranker, ListSeek

CONSTANTS
  Chunks,           \* the posting lists of a chunk, by key
  Trees,            \* the tree of readers that each query is compiled to
  Unset,            \* what an uninitialised Location may hold
  Highest,          \* (Location) -1
  Null              \* nullptr

End == <<"%">>
Root == << >>
Locations == 0..(Highest - 1)

\* The lists of a chunk: locations in order, each that of one token or
\* document end, and the document's end behind every token.
IsChunk(chunk) ==
  /\ End \in DOMAIN chunk
  /\ \A key \in DOMAIN chunk :
       /\ chunk[key] \in Seq(Locations) /\ chunk[key] # << >>
       /\ \A i, j \in DOMAIN chunk[key] : i < j => chunk[key][i] < chunk[key][j]
       /\ \A i \in DOMAIN chunk[key] : \E d \in DOMAIN chunk[End] : chunk[key][i] <= chunk[End][d]
  /\ \A k1, k2 \in DOMAIN chunk : \A i \in DOMAIN chunk[k1], j \in DOMAIN chunk[k2] :
       chunk[k1][i] = chunk[k2][j] => k1 = k2

\* A reader has terms, of a container the first `contained` are contained and
\* the others excluded; under it are itself and the readers under its terms,
\* under the root all of them.  What is excluded beside something contained is
\* a NOT, itself compiled to a container without contained terms.
IsTree(readers) ==
  /\ IsFiniteSet(DOMAIN readers)
  /\ Root \in DOMAIN readers /\ readers[Root].op # "word" /\ readers[Root].under = DOMAIN readers
  /\ \A n \in DOMAIN readers :
       LET terms == readers[n].terms
           below == [i \in DOMAIN terms |-> readers[terms[i]].under]
       IN  /\ readers[n].op \in {"word", "or", "phrase", "container"}
           /\ terms \in Seq(DOMAIN readers)
           /\ readers[n].contained \in 0..Len(terms)
           /\ readers[n].under = {n} \cup UNION {below[i] : i \in DOMAIN terms}
           /\ readers[n].under \subseteq DOMAIN readers
           /\ \A i \in DOMAIN terms : n \notin below[i]
           /\ \A i, j \in DOMAIN terms : i # j => below[i] \cap below[j] = {}
           /\ readers[n].op = "word" => terms = << >> /\ readers[n].key # End
           /\ readers[n].op = "phrase" => \A i \in DOMAIN terms : readers[terms[i]].op = "word"
           /\ readers[n].op = "container" => terms # << >>
           /\ readers[n].op = "container" /\ readers[n].contained > 0 =>
                \A i \in (readers[n].contained + 1)..Len(terms) :
                  readers[terms[i]].op = "container" /\ readers[terms[i]].contained = 0

\* The key has a post at location l, and l lies in document d.
PostAt(chunk, key, l) == key \in DOMAIN chunk /\ \E j \in DOMAIN chunk[key] : chunk[key][j] = l
Within(chunk, l, d) == l <= chunk[End][d] /\ (d = 1 \/ l > chunk[End][d - 1])
PostWithin(chunk, key, l, d) == PostAt(chunk, key, l) /\ Within(chunk, l, d)

ASSUME ReadersAssumption ==
  /\ Highest \in Nat \ {0} /\ Unset \subseteq 0..Highest /\ Unset # {}
  /\ \A chunk \in Chunks : IsChunk(chunk)
  /\ \A query \in DOMAIN Trees : IsTree(Trees[query]) /\ Null \notin DOMAIN Trees[query]

VARIABLES
  lists,      \* the posting list of every key: its locations
  query,      \* the parse tree
  loc,        \* the location each word reader stands on
  docEnd,     \* the document-end reader
  stack       \* the Seeks that have not returned, the root's first

chunkVars == <<lists, query>>
vars == <<chunkVars, loc, docEnd, stack, rankerVars>>

tree == Trees[query]
Words == {n \in DOMAIN tree : tree[n].op = "word"}
Phrases == {n \in DOMAIN tree : tree[n].op = "phrase"}
Containers == {n \in DOMAIN tree : tree[n].op = "container"}

-----------------------------------------------------------------------------
(* What a Seek holds.  It goes over its terms, the i-th is the next, first *)
(* from its target on, then in passes; it is lost when a term is found     *)
(* nowhere.                                                                *)

Called(n, l) ==
  [n |-> n, target |-> l, step |-> "first", i |-> 1,
   post |-> Null, start |-> Highest, end |-> l, nearest |-> 1, farthest |-> 1,
   nearestPost |-> Null, farthestPost |-> Null, found |-> TRUE,
   begin |-> 0, documentEnd |-> 0, passEnd |-> l, passFarthest |-> 1]

Op(f) == tree[f.n].op
Terms(f) == tree[f.n].terms
Term(f) == Terms(f)[f.i]

\* The terms of a round: the excluded ones only count once docEnd is there.
InRound(f) == IF Op(f) = "container" /\ f.step = "first" THEN tree[f.n].contained ELSE Len(Terms(f))
Asks(f) == f.step # "lost" /\ f.i <= InRound(f)
RoundDone(f) == f.step # "lost" /\ f.i > InRound(f)

\* Where the current term of a phrase is expected.  Behind the farthest term its
\* number is added where it should be subtracted (the terms are numbered from
\* 1 here).
ExpectedLoc(f) ==
  IF f.i <= f.farthest THEN f.end - f.farthest + f.i
                       ELSE f.end + (f.farthest - 1) + (f.i - 1)

\* From where the current term is sought.
TermTarget(f) ==
  CASE f.step = "pass" /\ Op(f) = "phrase"    -> ExpectedLoc(f)
    [] f.step = "pass" /\ Op(f) = "container" -> f.begin
    [] OTHER                                  -> f.target

-----------------------------------------------------------------------------
(* What a Seek makes of r, what its current term found: the Post*, its     *)
(* location and the term's GetStartLocation.                               *)

Result(post, at, start) == [post |-> post, at |-> at, start |-> start]
Lost(f) == [f EXCEPT !.step = "lost"]

\* ISROr::Seek: the nearest of what the terms find.
OrTakes(f, r) ==
  IF r.post # Null /\ r.at < f.start
  THEN [f EXCEPT !.i = @ + 1, !.post = r.post, !.start = r.at]
  ELSE [f EXCEPT !.i = @ + 1]

\* ISRPhrase::Seek, step 1: the farthest term.
PhraseFirst(f, r) ==
  LET start == IF r.at <= f.start THEN r.at ELSE f.start
  IN  CASE r.post = Null -> Lost(f)
        [] r.post # Null /\ r.at >= f.end ->
             [f EXCEPT !.i = @ + 1, !.start = start, !.end = r.at, !.farthest = f.i, !.post = r.post]
        [] OTHER -> [f EXCEPT !.i = @ + 1, !.start = start]

\* Step 2, with the nearest and the farthest term this makes.  A term that is
\* not where it is expected ends the pass.
PhraseTakes(f, r, near, far) ==
  LET there == r.at <= ExpectedLoc(f)
  IN  [f EXCEPT
        !.i = IF there THEN @ + 1 ELSE Len(Terms(f)) + 1,
        !.nearest = near, !.farthest = far, !.found = there,
        !.start = IF r.at <= @ THEN r.at ELSE @,
        !.end   = IF r.at >= @ THEN r.at ELSE @,
        !.nearestPost  = IF there /\ f.i = near THEN r.post ELSE @,
        !.farthestPost = IF there /\ f.i # near /\ f.i = far THEN r.post ELSE @]

\* Variant: a term at the farthest location does not become the farthest one.
PhraseNextStrict(f, r) ==
  IF r.post = Null THEN Lost(f)
  ELSE PhraseTakes(f, r, IF r.at <= f.start THEN f.i ELSE f.nearest,
                         IF r.at > f.end THEN f.i ELSE f.farthest)

PhraseNext(f, r) ==
  IF r.post = Null THEN Lost(f)
  ELSE PhraseTakes(f, r, IF r.at <= f.start THEN f.i ELSE f.nearest,
                         IF r.at >= f.end THEN f.i ELSE f.farthest)

\* ISRContainer::Seek, step 1: the farthest location at which a term is found.
Farther(f, r) ==
  [f EXCEPT !.i = @ + 1, !.end = IF r.post # Null /\ r.at >= @ THEN r.at ELSE @]

\* Variant: step 4 is left out.
ContainedNextAnywhere(f, r) ==
  IF r.post = Null THEN Lost(f)
  ELSE [f EXCEPT
         !.i = @ + 1, !.found = TRUE,
         !.end   = IF r.at >= @ THEN r.at ELSE @,
         !.start = IF r.at <= @ THEN r.at ELSE @,
         !.post  = IF r.at <= f.start THEN r.post ELSE @]

\* Steps 3 to 5: a term past the document's end ends the contained ones.
ContainedNext(f, r) ==
  IF r.post = Null THEN Lost(f)
  ELSE [f EXCEPT
         !.i = IF r.at <= f.documentEnd THEN @ + 1 ELSE tree[f.n].contained + 1,
         !.found = r.at <= f.documentEnd,
         !.end   = IF r.at >= @ THEN r.at ELSE @,
         !.start = IF r.at <= @ THEN r.at ELSE @,
         !.post  = IF r.at <= f.start THEN r.post ELSE @]

\* An excluded term that is found nowhere, or before the document's end, makes
\* the Seek begin again behind the document.
ExcludedNext(f, r) ==
  IF r.post = Null \/ r.start < f.documentEnd THEN Called(f.n, f.documentEnd + 1)
  ELSE [f EXCEPT !.i = @ + 1]

Takes(f, r) ==
  CASE Op(f) = "or"                                -> OrTakes(f, r)
    [] Op(f) = "phrase" /\ f.step = "first"        -> PhraseFirst(f, r)
    [] Op(f) = "phrase" /\ f.step = "pass"         -> PhraseNext(f, r)
    [] Op(f) = "container" /\ f.step = "first"     -> Farther(f, r)
    [] Op(f) = "container" /\ f.step = "pass" /\ f.i <= tree[f.n].contained -> ContainedNext(f, r)
    [] Op(f) = "container" /\ f.step = "pass" /\ f.i > tree[f.n].contained  -> ExcludedNext(f, r)

-----------------------------------------------------------------------------
(* The end of a round: the Seek has its result, or goes on with a pass. *)

Finished(f) ==
  \/ f.step = "lost"
  \/ /\ RoundDone(f)
     /\ \/ Op(f) = "or"
        \/ Op(f) = "phrase" /\ IF f.step = "first" THEN Len(Terms(f)) = 1 ELSE f.found
        \/ Op(f) = "container" /\ f.step = "pass" /\ f.found

\* The Post* returned.
PostOf(f) ==
  CASE f.step = "lost" -> Null
    [] f.step = "pass" /\ Op(f) = "phrase" ->
         IF f.farthest < f.nearest THEN f.farthestPost ELSE f.nearestPost
    [] f.step = "pass" /\ Op(f) = "container" ->
         IF loc[f.post] < f.begin THEN Null ELSE f.post
    [] OTHER -> f.post

\* GetStartLocation then; ISROr never sets the member it returns.
Starts(f) == IF Op(f) = "or" THEN Unset ELSE {f.start}

ResultOf(f, start) == Result(PostOf(f), IF PostOf(f) = Null THEN 0 ELSE loc[PostOf(f)], start)

\* A pass that has changed neither the farthest term nor its location is
\* followed by the same pass for ever, of a container if docEnd can be moved.
Stuck(f) ==
  /\ RoundDone(f) /\ ~f.found /\ f.step = "pass" /\ f.end = f.passEnd
  /\ Op(f) = "phrase" => f.farthest = f.passFarthest
  /\ Op(f) = "container" => ~docEnd.offEnd

GoesOn(f) == RoundDone(f) /\ ~Finished(f) /\ ~Stuck(f)

PhrasePass(f) ==
  [f EXCEPT !.step = "pass", !.i = 1, !.found = TRUE, !.passEnd = f.end, !.passFarthest = f.farthest,
            !.start = IF f.step = "first" THEN Highest ELSE @]

\* The pass over the document d.
ContainerPass(f, d) ==
  [f EXCEPT !.step = "pass", !.i = 1, !.found = FALSE, !.passEnd = f.end,
            !.begin = d.prevLoc, !.documentEnd = d.endLocation]

-----------------------------------------------------------------------------
(* The readers of the lists *)

\* Variant: the number of the document is counted from 1.
SeekEndFromOne(l) ==
  LET ends == lists[End]
      j == EndPost(ends, l)
      before == IF j = 1 THEN 0 ELSE ends[j - 1]
  IN  IF j = 0 THEN [docEnd EXCEPT !.offEnd = TRUE, !.prevLoc = ends[Len(ends)]]
      ELSE [prevLoc |-> before, startLocation |-> before,
            endLocation |-> ends[j], tData |-> j, offEnd |-> FALSE]

\* ISREndDoc::Seek: the document-end reader it leaves.
SeekEnd(l) ==
  LET ends == lists[End]
      j == EndPost(ends, l)
      before == IF j = 1 THEN 0 ELSE ends[j - 1]
  IN  IF j = 0 THEN [docEnd EXCEPT !.offEnd = TRUE, !.prevLoc = ends[Len(ends)]]
      ELSE [prevLoc |-> before, startLocation |-> before,
            endLocation |-> ends[j], tData |-> j - 1, offEnd |-> FALSE]

\* Variant: the scan calls Next once more before it looks at a post.
SeekWordBehind(list, l) ==
  LET later == {k \in DOMAIN list : k > SyncPost(list, l) + 1 /\ list[k] >= l}
  IN  list[IF later = {} THEN Len(list) ELSE Earliest(later)]

\* ISRWord::Seek: the location of the post it ends on.
SeekWord(list, l) == list[WordPost(list, l)]

-----------------------------------------------------------------------------
(* The steps.  A Seek of a word is one, since nothing else happens in it. *)

Top == Last(stack)
Searching == status = "search" /\ stack # << >>
TopBecomes(f) == stack' = [stack EXCEPT ![Len(stack)] = f]

\* Variant: the search goes on at the end of the document last ranked.
NextTargetFromStart == docEnd.startLocation

\* Past the end of the document last ranked.
NextTarget == IF docEnd.endLocation = 0 THEN 0 ELSE docEnd.endLocation + 1

\* NextDocument of the root.
NextDocument ==
  /\ status = "search" /\ stack = << >>
  /\ stack' = <<Called(Root, NextTarget)>>
  /\ UNCHANGED <<chunkVars, loc, docEnd, rankerVars>>

\* The current term is a word.  A word without posts is found nowhere; a target
\* that wrapped below 0 has a level the assertion on highBit refuses.
SeekTermWord(n, l) ==
  /\ tree[n].op = "word"
  /\ \/ /\ tree[n].key \notin DOMAIN lists
        /\ TopBecomes(Takes(Top, Result(Null, 0, 0)))
        /\ UNCHANGED <<loc, rankerVars>>
     \/ /\ tree[n].key \in DOMAIN lists /\ l >= 0
        /\ \E at \in {SeekWord(lists[tree[n].key], l)} :
             /\ loc' = [loc EXCEPT ![n] = at]
             /\ TopBecomes(Takes(Top, Result(IF at < l THEN Null ELSE n, at, at)))
        /\ UNCHANGED rankerVars
     \/ /\ tree[n].key \in DOMAIN lists /\ l < 0
        /\ EndSearch("crash")
        /\ UNCHANGED <<loc, stack>>

\* The current term has terms itself.
SeekTermBelow(n, l) ==
  /\ tree[n].op # "word"
  /\ stack' = Append(stack, Called(n, l))
  /\ UNCHANGED <<loc, rankerVars>>

SeekTerm ==
  /\ Searching /\ Asks(Top)
  /\ SeekTermWord(Term(Top), TermTarget(Top)) \/ SeekTermBelow(Term(Top), TermTarget(Top))
  /\ UNCHANGED <<chunkVars, docEnd>>

\* The next pass of a phrase.
NextPhrasePass ==
  /\ Searching /\ Op(Top) = "phrase" /\ GoesOn(Top)
  /\ TopBecomes(PhrasePass(Top))
  /\ UNCHANGED <<chunkVars, loc, docEnd, rankerVars>>

\* The next pass of a container, for which docEnd moves to the document of the
\* farthest term.  The iterator that has run off its list dereferences its null
\* curPost when it is asked again.
NextContainerPass ==
  /\ Searching /\ Op(Top) = "container" /\ GoesOn(Top)
  /\ \/ /\ docEnd.offEnd
        /\ EndSearch("crash")
        /\ UNCHANGED <<docEnd, stack>>
     \/ /\ ~docEnd.offEnd
        /\ docEnd' = SeekEnd(Top.end)
        /\ TopBecomes(IF docEnd'.offEnd THEN Lost(Top) ELSE ContainerPass(Top, docEnd'))
        /\ UNCHANGED rankerVars
  /\ UNCHANGED <<chunkVars, loc>>

GoRoundForEver ==
  /\ Searching /\ Stuck(Top)
  /\ EndSearch("hang")
  /\ UNCHANGED <<chunkVars, loc, docEnd, stack>>

\* A Seek returns to the one that called it.
Return ==
  /\ Searching /\ Finished(Top) /\ Len(stack) > 1
  /\ \E start \in Starts(Top) :
       stack' = [Front(stack) EXCEPT ![Len(stack) - 1] = Takes(@, ResultOf(Top, start))]
  /\ UNCHANGED <<chunkVars, loc, docEnd, rankerVars>>

\* Variant: docEnd stays where the search left it.
DocumentOfUnmoved(l) == docEnd

\* docEnd moves to the document of the post that was found.
DocumentOf(l) == SeekEnd(l)

\* The root returns a post; its document is ranked.
FindDocument(post) ==
  /\ post # Null
  /\ \/ /\ docEnd.offEnd
        /\ EndSearch("crash")
        /\ UNCHANGED docEnd
     \/ /\ ~docEnd.offEnd
        /\ docEnd' = DocumentOf(loc[post])
        /\ IF docEnd'.offEnd THEN EndSearch("done") ELSE RankDocument(docEnd'.tData + 1, loc[post])

\* The root returns nullptr: no document is left.
NoDocument(post) ==
  /\ post = Null
  /\ EndSearch("done")
  /\ UNCHANGED docEnd

ReturnToRanker ==
  /\ Searching /\ Finished(Top) /\ Len(stack) = 1
  /\ FindDocument(PostOf(Top)) \/ NoDocument(PostOf(Top))
  /\ stack' = << >>
  /\ UNCHANGED <<chunkVars, loc>>

OutOfTime ==
  /\ status = "search" /\ stack = << >>
  /\ TimeIsUp
  /\ UNCHANGED <<chunkVars, loc, docEnd, stack>>

Init ==
  /\ lists \in Chunks
  /\ query \in DOMAIN Trees
  /\ loc = [n \in Words |-> 0]
  /\ docEnd = [prevLoc |-> 0, startLocation |-> 0, endLocation |-> 0, tData |-> 0, offEnd |-> FALSE]
  /\ stack = << >>
  /\ RankerInit

Next ==
  \/ NextDocument \/ SeekTerm \/ NextPhrasePass \/ NextContainerPass \/ GoRoundForEver
  \/ Return \/ ReturnToRanker \/ OutOfTime

Spec == Init /\ [][Next]_vars

-----------------------------------------------------------------------------
(* What the search promises *)

Excludes  == \E n \in Containers : tree[n].contained < Len(tree[n].terms)
Documents == DOMAIN lists[End]
Answered  == {answers[i].doc : i \in DOMAIN answers}

InDocument(l, d) == Within(lists, l, d)
HasPost(key, l) == PostAt(lists, key, l)

Frames ==
  [n : DOMAIN tree \ Words, target : 0..Highest, step : {"first", "pass", "lost"}, i : Nat \ {0},
   post : Words \cup {Null}, start : 0..Highest, end : 0..Highest,
   nearest : Nat \ {0}, farthest : Nat \ {0},
   nearestPost : Words \cup {Null}, farthestPost : Words \cup {Null}, found : BOOLEAN,
   begin : Locations, documentEnd : Locations, passEnd : 0..Highest, passFarthest : Nat \ {0}]

\* Every variable holds a value of its type.
TypeOK ==
  /\ lists \in Chunks /\ query \in DOMAIN Trees
  /\ loc \in [Words -> Locations]
  /\ docEnd \in [prevLoc : Locations, startLocation : Locations, endLocation : Locations,
                 tData : Nat, offEnd : BOOLEAN]
  /\ stack \in Seq(Frames)
  /\ answers \in Seq([doc : Documents, loc : Locations, rank : Ranks])
  /\ ToSet(results) \subseteq DOMAIN answers /\ Len(results) <= MaxResults
  /\ status \in {"search", "done", "timeout", "crash", "hang"}

\* No document is ranked twice, and none before an earlier one: NextDocument
\* moves on from wherever the scoring and the nested readers left docEnd.
AnswersAdvance ==
  \A i, j \in DOMAIN answers : i < j => answers[i].doc < answers[j].doc

\* The post returned is a word of the query, inside the document ranked.
AnswersHoldTheirPost ==
  \A i \in DOMAIN answers :
    /\ \E n \in Words : HasPost(tree[n].key, answers[i].loc)
    /\ InDocument(answers[i].loc, answers[i].doc)

\* Of every reader, what document d has to hold for it to be found there: one of
\* the terms of an OR, the words of a phrase side by side, all the terms of a
\* container.  With an excluded term nothing is found.
Holds(readers, chunk, d) ==
  LET holds[n \in DOMAIN readers] ==
        \/ readers[n].op = "word" /\ \E l \in Locations : PostWithin(chunk, readers[n].key, l, d)
        \/ readers[n].op = "or" /\ \E i \in DOMAIN readers[n].terms : holds[readers[n].terms[i]]
        \/ /\ readers[n].op = "phrase" /\ readers[n].terms # << >>
           /\ \E l \in Locations : \A i \in DOMAIN readers[n].terms :
                PostWithin(chunk, readers[readers[n].terms[i]].key, l + i - 1, d)
        \/ /\ readers[n].op = "container" /\ readers[n].contained = Len(readers[n].terms)
           /\ \A i \in DOMAIN readers[n].terms : holds[readers[n].terms[i]]
  IN  holds

IsThere(n) == \E w \in Words \cap tree[n].under : tree[w].key \in DOMAIN lists

\* No post a container is told of is of a word that then stands in another
\* document: no OR below it has a choice of terms, no container of several terms
\* reads from another one, whose post may be of a document before the one that
\* it is asked for; and no phrase is longer than the code can tell.
Unaliased ==
  /\ \A n \in Containers : \A i \in 1..tree[n].contained :
       LET below == tree[tree[n].terms[i]].under
       IN  /\ \A m \in below : tree[m].op = "or" =>
                \A j, k \in DOMAIN tree[m].terms :
                  IsThere(tree[m].terms[j]) /\ IsThere(tree[m].terms[k]) => j = k
           /\ tree[n].contained > 1 => below \cap Containers = {}
  /\ \A n \in Phrases : Len(tree[n].terms) <= 2

\* Every document ranked satisfies the query where the posts that a container
\* is told of stay what they were: a Post* is read when the search returns, and
\* the passes of a container have moved its reader on by then.
AnswersMatchUnaliased ==
  \A d \in Answered : Unaliased => Holds(tree, lists, d)[Root]

\* A search goes round for ever only for a query with NOT, or a phrase of three
\* words or more; it crashes only for a query with NOT, a phrase with
\* a word twice, or, with two containers in its tree, when it has answered the
\* last document of the chunk.
FaultsOnlyWhere ==
  /\ status = "hang" => Excludes \/ \E n \in Phrases : Len(tree[n].terms) > 2
  /\ status = "crash" =>
       \/ Excludes
       \/ \E n \in Phrases : \E i, j \in DOMAIN tree[n].terms :
            i # j /\ tree[tree[n].terms[i]].key = tree[tree[n].terms[j]].key
       \/ (\E m, n \in Containers : m # n) /\ Len(lists[End]) \in Answered

\* A finished search for one of several words misses a document only where
\* each of its posts is one a Seek starts from: the first of its list, or of
\* its level in it.
MissesOnlySyncPosts ==
  status = "done" /\ Containers = {} /\ Phrases = {} =>
    \A d \in Documents \ Answered : \A n \in Words :
      tree[n].key \in DOMAIN lists =>
        LET list == lists[tree[n].key]
        IN  \A j \in DOMAIN list : InDocument(list[j], d) => SyncPost(list, list[j]) = j
=============================================================================
