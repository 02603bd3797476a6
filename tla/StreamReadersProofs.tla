------------------------- MODULE StreamReadersProofs -------------------------
(***************************************************************************)
(* Proofs about StreamReaders, for any lists of a chunk, any tree of       *)
(* readers and any number of documents.                                    *)
(*                                                                         *)
(* What is said of a frame, of the stack or of the lists has them as its   *)
(* arguments (T the tree, S the lists, L the locations), so that one       *)
(* lemma serves a state and the next one.                                  *)
(***************************************************************************)
EXTENDS StreamReaders, RankerProofs, FiniteSetTheorems

-----------------------------------------------------------------------------
(* Trees and lists *)

LEMMA HighestFacts == Highest \in Nat \ {0} /\ Unset \subseteq 0..Highest /\ Unset # {}
  BY ReadersAssumption

LEMMA TreeFacts ==
  ASSUME query \in DOMAIN Trees
  PROVE  IsTree(tree) /\ Null \notin DOMAIN tree /\ Null \notin Words
  BY ReadersAssumption DEF tree, Words

LEMMA TermsFacts ==
  ASSUME query \in DOMAIN Trees, NEW n \in DOMAIN tree
  PROVE  LET terms == tree[n].terms
         IN  /\ terms \in Seq(DOMAIN tree) /\ Len(terms) \in Nat /\ DOMAIN terms = 1..Len(terms)
             /\ \A i \in 1..Len(terms) : terms[i] \in DOMAIN tree
             /\ tree[n].contained \in Nat /\ tree[n].contained <= Len(terms)
             /\ tree[n].op \in {"word", "or", "phrase", "container"}
             /\ tree[n].op = "word" => terms = << >> /\ tree[n].key # End
             /\ tree[n].op = "container" => Len(terms) > 0
             /\ tree[n].op = "phrase" => \A i \in 1..Len(terms) : terms[i] \in Words
<1>1. IsTree(tree)
  BY TreeFacts
<1>2. tree[n].terms \in Seq(DOMAIN tree) /\ tree[n].contained \in 0..Len(tree[n].terms)
  BY <1>1 DEF IsTree
<1>3. /\ tree[n].op \in {"word", "or", "phrase", "container"}
      /\ tree[n].op = "word" => tree[n].terms = << >> /\ tree[n].key # End
      /\ tree[n].op = "container" => tree[n].terms # << >>
      /\ tree[n].op = "phrase" => \A i \in DOMAIN tree[n].terms : tree[tree[n].terms[i]].op = "word"
  BY <1>1 DEF IsTree
<1> QED
  BY <1>2, <1>3 DEF Words

\* What is under the terms of a reader is under it, it is not itself, and is
\* under one of them only.
LEMMA UnderFacts ==
  ASSUME query \in DOMAIN Trees, NEW n \in DOMAIN tree
  PROVE  LET terms == tree[n].terms
         IN  /\ n \in tree[n].under
             /\ \A i \in 1..Len(terms) : /\ tree[terms[i]].under \subseteq tree[n].under
                                         /\ n \notin tree[terms[i]].under
                                         /\ terms[i] \in tree[terms[i]].under
             /\ \A i, j \in 1..Len(terms) :
                  i # j => tree[terms[i]].under \cap tree[terms[j]].under = {}
             /\ tree[n].op = "word" => tree[n].under = {n}
<1>1. IsTree(tree)
  BY TreeFacts
<1> DEFINE terms == tree[n].terms
           below == [i \in DOMAIN terms |-> tree[terms[i]].under]
<1>2. terms \in Seq(DOMAIN tree) /\ DOMAIN terms = 1..Len(terms)
  BY TermsFacts
<1>3. /\ tree[n].under = {n} \cup UNION {below[i] : i \in DOMAIN terms}
      /\ \A i \in DOMAIN terms : n \notin below[i]
      /\ \A i, j \in DOMAIN terms : i # j => below[i] \cap below[j] = {}
  BY <1>1, Zenon DEF IsTree
<1>4. \A i \in DOMAIN terms : below[i] = tree[terms[i]].under /\ terms[i] \in DOMAIN tree
  BY <1>2
<1>5. \A i \in DOMAIN terms : below[i] \subseteq tree[n].under
  BY <1>3
<1>6. ASSUME NEW m \in DOMAIN tree PROVE m \in tree[m].under
  BY <1>1 DEF IsTree
<1>7. tree[n].op = "word" => tree[n].under = {n}
  <2>1. SUFFICES ASSUME tree[n].op = "word" PROVE tree[n].under = {n}
    OBVIOUS
  <2>2. terms = << >>
    BY <2>1, TermsFacts
  <2>3. DOMAIN terms = {}
    BY <2>2
  <2>4. UNION {below[i] : i \in DOMAIN terms} = {}
    BY <2>3
  <2> QED
    BY <1>3, <2>4
<1> HIDE DEF terms, below
<1> QED
  BY <1>2, <1>3, <1>4, <1>5, <1>6, <1>7 DEF terms

LEMMA ListFacts ==
  ASSUME lists \in Chunks, NEW key \in DOMAIN lists
  PROVE  /\ lists[key] \in Seq(Locations) /\ Len(lists[key]) \in Nat \ {0}
         /\ DOMAIN lists[key] = 1..Len(lists[key])
         /\ \A i \in DOMAIN lists[key] : lists[key][i] \in Locations /\ lists[key][i] \in Nat
         /\ \A i, j \in DOMAIN lists[key] : i < j => lists[key][i] < lists[key][j]
<1>1. IsChunk(lists)
  BY ReadersAssumption
<1>2. lists[key] \in Seq(Locations) /\ lists[key] # << >>
  BY <1>1 DEF IsChunk
<1>3. \A i, j \in DOMAIN lists[key] : i < j => lists[key][i] < lists[key][j]
  BY <1>1 DEF IsChunk
<1> QED
  BY <1>2, <1>3, HighestFacts DEF Locations

LEMMA EndFacts == lists \in Chunks => End \in DOMAIN lists
  BY ReadersAssumption DEF IsChunk

\* A token is in a document, and is not its end.
LEMMA TokenFacts ==
  ASSUME lists \in Chunks, NEW key \in DOMAIN lists, NEW i \in DOMAIN lists[key]
  PROVE  /\ \E d \in DOMAIN lists[End] : lists[key][i] <= lists[End][d]
         /\ \A k2 \in DOMAIN lists : \A j \in DOMAIN lists[k2] : lists[key][i] = lists[k2][j] => key = k2
<1>1. IsChunk(lists)
  BY ReadersAssumption
<1> QED
  BY <1>1, Zenon DEF IsChunk

\* A set of places has a first one.
LEMMA EarliestFacts ==
  ASSUME NEW P, P \subseteq Nat, P # {}
  PROVE  Earliest(P) \in P /\ \A k \in P : Earliest(P) <= k
<1> DEFINE R == {p \in Nat \X Nat : p[1] < p[2]}
<1>1. IsWellFoundedOn(R, Nat)
  BY NatLessThanWellFounded, Zenon DEF OpToRel
<1> HIDE DEF R
<1>2. PICK j \in P : \A k \in P : <<k, j>> \notin R
  BY <1>1, WFMin, Zenon
<1>3. \A k \in P : ~(k < j)
  BY <1>2 DEF R
<1>4. \A k \in P : j <= k
  BY <1>3
<1> QED
  BY <1>4 DEF Earliest

LEMMA EndPostFacts ==
  ASSUME lists \in Chunks, NEW l \in Int
  PROVE  LET ends == lists[End]
             j == EndPost(ends, l)
         IN  /\ j \in 0..Len(ends)
             /\ j = 0 => \A k \in DOMAIN ends : ends[k] < l
             /\ j # 0 => ends[j] >= l /\ \A k \in 1..(j - 1) : ends[k] < l
<1> DEFINE ends == lists[End]
           later == {k \in DOMAIN ends : ends[k] >= l}
<1>1. /\ DOMAIN ends = 1..Len(ends) /\ Len(ends) \in Nat
      /\ \A k \in DOMAIN ends : ends[k] \in Nat
  BY EndFacts, ListFacts
<1> HIDE DEF ends
<1>2. later \subseteq Nat
  BY <1>1
<1>3. CASE later = {}
  <2>1. EndPost(ends, l) = 0
    BY <1>3 DEF EndPost
  <2> QED
    BY <1>1, <1>3, <2>1 DEF ends
<1>4. CASE later # {}
  <2> DEFINE j == Earliest(later)
  <2>1. EndPost(ends, l) = j
    BY <1>4 DEF EndPost
  <2>2. j \in later /\ \A k \in later : j <= k
    BY <1>2, <1>4, EarliestFacts
  <2> HIDE DEF j
  <2>3. \A k \in 1..(j - 1) : ends[k] < l
    <3>1. ASSUME NEW k \in 1..(j - 1) PROVE ends[k] < l
      <4>1. k \in DOMAIN ends /\ k \notin later
        BY <1>1, <2>2
      <4> QED
        BY <1>1, <4>1
    <3> QED
      BY <3>1
  <2> QED
    BY <1>1, <2>1, <2>2, <2>3 DEF ends
<1> QED
  BY <1>3, <1>4

LEMMA WordPostFacts ==
  ASSUME lists \in Chunks, NEW key \in DOMAIN lists, NEW l
  PROVE  /\ WordPost(lists[key], l) \in DOMAIN lists[key]
         /\ SeekWord(lists[key], l) \in Locations
<1> DEFINE list == lists[key]
           later == {k \in DOMAIN list : k > SyncPost(list, l) /\ list[k] >= l}
<1>1. /\ DOMAIN list = 1..Len(list) /\ Len(list) \in Nat \ {0}
      /\ \A k \in DOMAIN list : list[k] \in Locations
  BY ListFacts
<1> HIDE DEF list
<1>2. WordPost(list, l) \in DOMAIN list
  <2>1. later # {} => Earliest(later) \in later
    <3>1. later \subseteq Nat
      BY <1>1
    <3> HIDE DEF later
    <3> QED
      BY <3>1, EarliestFacts
  <2>2. Len(list) \in DOMAIN list
    BY <1>1
  <2> QED
    BY <2>1, <2>2 DEF WordPost
<1> QED
  BY <1>1, <1>2 DEF SeekWord, list

\* The document-end reader after a Seek, where it does not run off its list.
LEMMA SeekEndFacts ==
  ASSUME lists \in Chunks, NEW l \in Int,
         docEnd \in [prevLoc : Locations, startLocation : Locations, endLocation : Locations,
                     tData : Nat, offEnd : BOOLEAN]
  PROVE  LET ends == lists[End]
             d == SeekEnd(l)
             j == EndPost(ends, l)
         IN  /\ d \in [prevLoc : Locations, startLocation : Locations, endLocation : Locations,
                       tData : Nat, offEnd : BOOLEAN]
             /\ d.offEnd <=> j = 0
             /\ ~d.offEnd => /\ j \in DOMAIN ends /\ d.tData + 1 = j /\ d.endLocation = ends[j]
                             /\ d.prevLoc = IF j = 1 THEN 0 ELSE ends[j - 1]
<1> DEFINE ends == lists[End]
           j == EndPost(ends, l)
<1>1. /\ DOMAIN ends = 1..Len(ends) /\ Len(ends) \in Nat \ {0}
      /\ \A k \in DOMAIN ends : ends[k] \in Locations
  BY EndFacts, ListFacts
<1>2. j \in 0..Len(ends)
  BY EndPostFacts
<1> HIDE DEF j, ends
<1>3. 0 \in Locations
  BY HighestFacts DEF Locations
<1>4. CASE j = 0
  <2>1. SeekEnd(l) = [docEnd EXCEPT !.offEnd = TRUE, !.prevLoc = ends[Len(ends)]]
    BY <1>4, Zenon DEF SeekEnd, j, ends
  <2>2. ends[Len(ends)] \in Locations
    BY <1>1
  <2> QED
    BY <1>4, <2>1, <2>2 DEF j, ends
<1>5. CASE j # 0
  <2> DEFINE before == IF j = 1 THEN 0 ELSE ends[j - 1]
  <2>1. j \in DOMAIN ends /\ ends[j] \in Locations /\ before \in Locations /\ j - 1 \in Nat
    BY <1>1, <1>2, <1>3, <1>5
  <2>2. SeekEnd(l) = [prevLoc |-> before, startLocation |-> before,
                      endLocation |-> ends[j], tData |-> j - 1, offEnd |-> FALSE]
    BY <1>5, Zenon DEF SeekEnd, j, ends
  <2> HIDE DEF before
  <2>3. (j - 1) + 1 = j
    BY <1>1, <2>1
  <2> QED
    BY <1>5, <2>1, <2>2, <2>3 DEF j, ends, before
<1> QED
  BY <1>4, <1>5

-----------------------------------------------------------------------------
(* What a Seek holds *)

\* What a term may have found.
Results == [post : Words \cup {Null}, at : Locations, start : 0..Highest]

LEMMA FrameFacts ==
  ASSUME query \in DOMAIN Trees, NEW f \in Frames
  PROVE  /\ f.n \in DOMAIN tree /\ Op(f) \in {"or", "phrase", "container"}
         /\ f.target \in 0..Highest /\ f.target \in Nat /\ f.i \in Nat \ {0}
         /\ f.step \in {"first", "pass", "lost"}
         /\ f.end \in Nat /\ f.end \in 0..Highest /\ f.start \in Nat /\ f.start \in 0..Highest
         /\ f.begin \in Locations /\ f.begin \in Nat
         /\ f.documentEnd \in Locations /\ f.documentEnd \in Nat
         /\ f.passEnd \in Nat /\ f.passFarthest \in Nat \ {0}
         /\ f.nearest \in Nat \ {0} /\ f.farthest \in Nat \ {0} /\ f.found \in BOOLEAN
         /\ {f.post, f.nearestPost, f.farthestPost} \subseteq Words \cup {Null}
         /\ Terms(f) \in Seq(DOMAIN tree) /\ Len(Terms(f)) \in Nat /\ DOMAIN Terms(f) = 1..Len(Terms(f))
         /\ tree[f.n].contained \in Nat /\ tree[f.n].contained <= Len(Terms(f))
         /\ InRound(f) \in Nat /\ InRound(f) <= Len(Terms(f))
<1>1. f.n \in DOMAIN tree /\ f.n \notin Words
  BY DEF Frames
<1>2. /\ Terms(f) \in Seq(DOMAIN tree) /\ Len(Terms(f)) \in Nat /\ DOMAIN Terms(f) = 1..Len(Terms(f))
      /\ tree[f.n].contained \in Nat /\ tree[f.n].contained <= Len(Terms(f))
      /\ Op(f) \in {"word", "or", "phrase", "container"}
  BY <1>1, TermsFacts DEF Op, Terms
<1>3. Op(f) # "word"
  BY <1>1 DEF Words, Op
<1>4. InRound(f) \in Nat /\ InRound(f) <= Len(Terms(f))
  BY <1>2 DEF InRound
<1> QED
  BY <1>1, <1>2, <1>3, <1>4, HighestFacts, SMTT(30) DEF Frames, Locations

LEMMA CalledTyped ==
  ASSUME NEW n \in DOMAIN tree \ Words, NEW l \in 0..Highest
  PROVE  Called(n, l) \in Frames
<1>1. Highest \in 0..Highest /\ 0 \in Locations
  BY HighestFacts DEF Locations
<1> QED
  BY <1>1 DEF Called, Frames

LEMMA TakesTyped ==
  ASSUME query \in DOMAIN Trees, NEW f \in Frames, NEW r \in Results, Asks(f)
  PROVE  Takes(f, r) \in Frames
<1>1. /\ r.post \in Words \cup {Null} /\ r.at \in Nat /\ r.at \in 0..Highest /\ r.at \in Locations
      /\ Locations \subseteq 0..Highest
  BY HighestFacts DEF Results, Locations
<1>2. f.i + 1 \in Nat \ {0} /\ f.i \in Nat \ {0} /\ f.step # "lost"
  BY DEF Frames, Asks
<1>3. Lost(f) \in Frames
  BY DEF Lost, Frames
<1>4. OrTakes(f, r) \in Frames
  BY <1>1, <1>2, ZenonT(30) DEF OrTakes, Frames
<1>5. PhraseFirst(f, r) \in Frames
  BY <1>1, <1>2, <1>3, ZenonT(30) DEF PhraseFirst, Frames
<1>6. Len(Terms(f)) + 1 \in Nat \ {0} /\ tree[f.n].contained + 1 \in Nat \ {0}
  BY FrameFacts
<1>7. PhraseNext(f, r) \in Frames
  <2>1. ASSUME NEW near \in Nat \ {0}, NEW far \in Nat \ {0}
        PROVE  PhraseTakes(f, r, near, far) \in Frames
    <3> DEFINE there == r.at <= ExpectedLoc(f)
               i == IF there THEN f.i + 1 ELSE Len(Terms(f)) + 1
               start == IF r.at <= f.start THEN r.at ELSE f.start
               end == IF r.at >= f.end THEN r.at ELSE f.end
               nearestPost == IF there /\ f.i = near THEN r.post ELSE f.nearestPost
               farthestPost == IF there /\ f.i # near /\ f.i = far THEN r.post ELSE f.farthestPost
    <3>1. /\ there \in BOOLEAN /\ i \in Nat \ {0} /\ start \in 0..Highest /\ end \in 0..Highest
          /\ nearestPost \in Words \cup {Null} /\ farthestPost \in Words \cup {Null}
      BY <1>1, <1>2, <1>6 DEF Frames
    <3>2. PhraseTakes(f, r, near, far) =
            [f EXCEPT !.i = i, !.nearest = near, !.farthest = far, !.found = there,
                      !.start = start, !.end = end,
                      !.nearestPost = nearestPost, !.farthestPost = farthestPost]
      BY DEF PhraseTakes
    <3> HIDE DEF there, i, start, end, nearestPost, farthestPost
    <3> DEFINE g == [f EXCEPT !.i = i, !.nearest = near, !.farthest = far, !.found = there]
    <3>3. g \in Frames
      BY <3>1 DEF Frames
    <3> DEFINE h == [g EXCEPT !.start = start, !.end = end,
                              !.nearestPost = nearestPost, !.farthestPost = farthestPost]
    <3>4. PhraseTakes(f, r, near, far) = h
      BY <3>2 DEF Frames
    <3> HIDE DEF g
    <3>5. h \in Frames
      BY <3>1, <3>3 DEF Frames
    <3> HIDE DEF h
    <3> QED
      BY <3>4, <3>5
  <2>2. f.nearest \in Nat \ {0} /\ f.farthest \in Nat \ {0}
    BY DEF Frames
  <2> QED
    BY <1>2, <1>3, <2>1, <2>2 DEF PhraseNext
<1>8. Farther(f, r) \in Frames
  BY <1>1, <1>2, ZenonT(30) DEF Farther, Frames
<1>9. ContainedNext(f, r) \in Frames
  <2>1. ASSUME r.post # Null PROVE ContainedNext(f, r) \in Frames
    <3> DEFINE here == r.at <= f.documentEnd
               i == IF here THEN f.i + 1 ELSE tree[f.n].contained + 1
               end == IF r.at >= f.end THEN r.at ELSE f.end
               start == IF r.at <= f.start THEN r.at ELSE f.start
               post == IF r.at <= f.start THEN r.post ELSE f.post
    <3>1. /\ here \in BOOLEAN /\ i \in Nat \ {0} /\ start \in 0..Highest /\ end \in 0..Highest
          /\ post \in Words \cup {Null}
      BY <1>1, <1>2, <1>6 DEF Frames
    <3>2. ContainedNext(f, r) =
            [f EXCEPT !.i = i, !.found = here, !.end = end, !.start = start, !.post = post]
      BY <2>1 DEF ContainedNext
    <3> HIDE DEF here, i, end, start, post
    <3> QED
      BY <3>1, <3>2, ZenonT(30) DEF Frames
  <2> QED
    BY <1>3, <2>1 DEF ContainedNext
<1>10. ExcludedNext(f, r) \in Frames
  <2>1. f.documentEnd + 1 \in 0..Highest /\ f.n \in DOMAIN tree \ Words
    BY HighestFacts DEF Frames, Locations
  <2>2. Called(f.n, f.documentEnd + 1) \in Frames
    BY <2>1, CalledTyped
  <2>3. [f EXCEPT !.i = @ + 1] \in Frames
    BY <1>2 DEF Frames
  <2> QED
    BY <2>2, <2>3 DEF ExcludedNext
<1>11. /\ Op(f) \in {"or", "phrase", "container"} /\ f.step \in {"first", "pass"}
       /\ f.i <= tree[f.n].contained \/ f.i > tree[f.n].contained
  BY <1>2, FrameFacts
<1> QED
  BY <1>4, <1>5, <1>7, <1>8, <1>9, <1>10, <1>11, Zenon DEF Takes

LEMMA PostOfTyped ==
  ASSUME TypeOK, NEW f \in Frames, NEW start \in 0..Highest
  PROVE  PostOf(f) \in Words \cup {Null} /\ ResultOf(f, start) \in Results
<1>1. PostOf(f) \in Words \cup {Null}
  <2>1. {f.post, f.nearestPost, f.farthestPost} \subseteq Words \cup {Null}
    BY DEF Frames
  <2>2. PostOf(f) \in {f.post, f.nearestPost, f.farthestPost, Null}
    BY DEF PostOf
  <2> QED
    BY <2>1, <2>2
<1>2. (IF PostOf(f) = Null THEN 0 ELSE loc[PostOf(f)]) \in Locations
  BY <1>1, HighestFacts DEF TypeOK, Locations
<1> QED
  BY <1>1, <1>2 DEF ResultOf, Result, Results

\* The frame on top of the stack.
LEMMA TopFacts ==
  ASSUME NEW s \in Seq(Frames), s # << >>
  PROVE  /\ Len(s) \in Nat \ {0} /\ DOMAIN s = 1..Len(s)
         /\ Last(s) = s[Len(s)] /\ Last(s) \in Frames
         /\ \A k \in 1..Len(s) : s[k] \in Frames
         /\ Front(s) \in Seq(Frames) /\ Len(Front(s)) = Len(s) - 1
         /\ \A k \in 1..(Len(s) - 1) : Front(s)[k] = s[k]
<1>1. Len(s) \in Nat \ {0} /\ DOMAIN s = 1..Len(s)
  OBVIOUS
<1>2. Last(s) = s[Len(s)]
  BY DEF Last
<1>3. Front(s) = SubSeq(s, 1, Len(s) - 1)
  BY DEF Front
<1> QED
  BY <1>1, <1>2, <1>3

\* The current term.
LEMMA TermFacts ==
  ASSUME query \in DOMAIN Trees, NEW f \in Frames, Asks(f)
  PROVE  /\ f.step \in {"first", "pass"} /\ f.i \in 1..Len(Terms(f)) /\ Term(f) = tree[f.n].terms[f.i]
         /\ Term(f) \in DOMAIN tree
         /\ Op(f) = "phrase" => Term(f) \in Words
         /\ TermTarget(f) \in Int
         /\ Op(f) # "phrase" => TermTarget(f) \in 0..Highest
<1>1. /\ f.step \in {"first", "pass"} /\ f.i \in 1..Len(Terms(f)) /\ Term(f) = tree[f.n].terms[f.i]
      /\ f.n \in DOMAIN tree
  BY FrameFacts DEF Asks, Term, Terms
<1>2. Term(f) \in DOMAIN tree
  BY <1>1, TermsFacts DEF Terms
<1>3. Op(f) = "phrase" => Term(f) \in Words
  BY <1>1, TermsFacts DEF Terms, Op
<1>4. ExpectedLoc(f) \in Int
  BY FrameFacts, SMTT(30) DEF ExpectedLoc
<1>5. f.begin \in 0..Highest /\ f.target \in 0..Highest
  BY HighestFacts, FrameFacts DEF Locations
<1>6. TermTarget(f) \in Int /\ (Op(f) # "phrase" => TermTarget(f) \in 0..Highest)
  BY <1>4, <1>5, HighestFacts DEF TermTarget
<1> QED
  BY <1>1, <1>2, <1>3, <1>6

-----------------------------------------------------------------------------
(* Types, and what Ranker is given *)

\* The part of TypeOK that is not Ranker's.
ReadersTypes ==
  /\ lists \in Chunks /\ query \in DOMAIN Trees
  /\ loc \in [Words -> Locations]
  /\ docEnd \in [prevLoc : Locations, startLocation : Locations, endLocation : Locations,
                 tData : Nat, offEnd : BOOLEAN]
  /\ stack \in Seq(Frames)
  /\ status \in {"search", "done", "timeout", "crash", "hang"}

LEMMA TypesInit == Init => ReadersTypes /\ answers = << >> /\ RankerInit
<1>1. 0 \in Locations
  BY HighestFacts DEF Locations
<1> QED
  BY <1>1 DEF Init, RankerInit, ReadersTypes

\* The answers and the status after a step.
AnswersTyped == answers \in Seq([doc : Documents, loc : Locations, rank : Ranks])

LEMMA TypesNextDocument ==
  ASSUME TypeOK, NextDocument
  PROVE  ReadersTypes' /\ AnswersTyped' /\ UNCHANGED rankerVars
<1>1. NextTarget \in 0..Highest
  BY HighestFacts DEF TypeOK, NextTarget, Locations
<1>2. Root \in DOMAIN tree \ Words
  BY TreeFacts DEF TypeOK, IsTree, Words
<1>3. Called(Root, NextTarget) \in Frames
  BY <1>1, <1>2, CalledTyped
<1>4. UNCHANGED <<lists, query, loc, docEnd, answers, results, status>>
  BY DEF NextDocument, chunkVars, rankerVars
<1>5. Words' = Words /\ Frames' = Frames /\ Documents' = Documents
  BY <1>4 DEF Words, Frames, Documents, tree
<1>6. stack' \in Seq(Frames)
  BY <1>3 DEF NextDocument
<1> QED
  BY <1>4, <1>5, <1>6 DEF TypeOK, ReadersTypes, AnswersTyped, rankerVars

\* Replacing the top frame.
LEMMA TopBecomesTyped ==
  ASSUME stack \in Seq(Frames), stack # << >>, NEW f \in Frames, TopBecomes(f)
  PROVE  /\ stack' \in Seq(Frames) /\ Len(stack') = Len(stack)
         /\ stack'[Len(stack)] = f
         /\ \A k \in 1..(Len(stack) - 1) : stack'[k] = stack[k]
  BY DEF TopBecomes

LEMMA TypesSeekTerm ==
  ASSUME TypeOK, SeekTerm
  PROVE  ReadersTypes' /\ AnswersTyped' /\ [RankerNext]_rankerVars
<1> DEFINE n == Term(Top)
           l == TermTarget(Top)
<1>1. status = "search" /\ stack # << >> /\ stack \in Seq(Frames) /\ query \in DOMAIN Trees
  BY DEF TypeOK, SeekTerm, Searching
<1>2. Top \in Frames /\ Asks(Top)
  BY <1>1, TopFacts DEF Top, SeekTerm
<1>3. n \in DOMAIN tree /\ (Op(Top) # "phrase" => l \in 0..Highest) /\ (Op(Top) = "phrase" => n \in Words)
  BY <1>1, <1>2, TermFacts
<1>4. UNCHANGED <<lists, query, docEnd>>
  BY DEF SeekTerm, chunkVars
<1>5. Words' = Words /\ Frames' = Frames /\ Documents' = Documents
  BY <1>4 DEF Words, Frames, Documents, tree
<1>6. SeekTermWord(n, l) \/ SeekTermBelow(n, l)
  BY DEF SeekTerm
<1> HIDE DEF n, l
<1>7. CASE SeekTermWord(n, l)
  <2>1. n \in Words
    BY <1>3, <1>7 DEF SeekTermWord, Words
  <2>2. CASE UNCHANGED <<loc, rankerVars>> /\ TopBecomes(Takes(Top, Result(Null, 0, 0)))
    <3>1. Result(Null, 0, 0) \in Results
      BY HighestFacts DEF Results, Result, Locations
    <3>2. Takes(Top, Result(Null, 0, 0)) \in Frames
      BY <1>1, <1>2, <3>1, TakesTyped
    <3>3. stack' \in Seq(Frames)
      BY <1>1, <2>2, <3>2, TopBecomesTyped
    <3> QED
      BY <1>4, <1>5, <2>2, <3>3 DEF TypeOK, ReadersTypes, AnswersTyped, rankerVars
  <2>3. ASSUME NEW at, at = SeekWord(lists[tree[n].key], l), tree[n].key \in DOMAIN lists,
               loc' = [loc EXCEPT ![n] = at],
               TopBecomes(Takes(Top, Result(IF at < l THEN Null ELSE n, at, at))),
               UNCHANGED rankerVars
        PROVE  ReadersTypes' /\ AnswersTyped' /\ [RankerNext]_rankerVars
    <3>1. at \in Locations /\ at \in 0..Highest
      BY <2>3, WordPostFacts, HighestFacts DEF TypeOK, Locations
    <3>2. Result(IF at < l THEN Null ELSE n, at, at) \in Results
      BY <2>1, <3>1 DEF Results, Result
    <3>3. Takes(Top, Result(IF at < l THEN Null ELSE n, at, at)) \in Frames
      BY <1>1, <1>2, <3>2, TakesTyped
    <3>4. stack' \in Seq(Frames)
      BY <1>1, <2>3, <3>3, TopBecomesTyped
    <3>5. loc' \in [Words -> Locations]
      BY <2>3, <3>1 DEF TypeOK
    <3> QED
      BY <1>4, <1>5, <2>3, <3>4, <3>5 DEF TypeOK, ReadersTypes, AnswersTyped, rankerVars
  <2>4. CASE EndSearch("crash") /\ UNCHANGED <<loc, stack>>
    BY <1>1, <1>4, <1>5, <2>4
    DEF TypeOK, ReadersTypes, AnswersTyped, rankerVars, EndSearch, RankerNext
  <2> QED
    BY <1>7, <2>2, <2>3, <2>4 DEF SeekTermWord
<1>8. CASE SeekTermBelow(n, l)
  <2>1. n \in DOMAIN tree \ Words /\ l \in 0..Highest
    BY <1>3, <1>8 DEF SeekTermBelow, Words
  <2>2. Called(n, l) \in Frames
    BY <2>1, CalledTyped
  <2>3. stack' \in Seq(Frames)
    BY <1>1, <1>8, <2>2 DEF SeekTermBelow
  <2> QED
    BY <1>4, <1>5, <1>8, <2>3 DEF SeekTermBelow, TypeOK, ReadersTypes, AnswersTyped, rankerVars
<1> QED
  BY <1>6, <1>7, <1>8

LEMMA PassTyped ==
  ASSUME NEW f \in Frames
  PROVE  /\ PhrasePass(f) \in Frames /\ Lost(f) \in Frames
         /\ \A d : d.prevLoc \in Locations /\ d.endLocation \in Locations => ContainerPass(f, d) \in Frames
<1>1. f.end \in 0..Highest /\ f.farthest \in Nat \ {0}
  BY DEF Frames
<1>2. ASSUME NEW step \in {"first", "pass", "lost"}, NEW i \in Nat \ {0}, NEW found \in BOOLEAN,
             NEW passEnd \in 0..Highest
      PROVE  [f EXCEPT !.step = step, !.i = i, !.found = found, !.passEnd = passEnd] \in Frames
  BY DEF Frames
<1>3. PhrasePass(f) \in Frames
  <2> DEFINE g == [f EXCEPT !.step = "pass", !.i = 1, !.found = TRUE, !.passEnd = f.end]
  <2>1. g \in Frames
    <3>1. "pass" \in {"first", "pass", "lost"} /\ 1 \in Nat \ {0} /\ TRUE \in BOOLEAN
      OBVIOUS
    <3> QED
      BY <1>1, <1>2, <3>1, Zenon
  <2> DEFINE start == IF f.step = "first" THEN Highest ELSE f.start
  <2>2. PhrasePass(f) = [g EXCEPT !.passFarthest = f.farthest, !.start = start]
    BY DEF PhrasePass, Frames
  <2>3. start \in 0..Highest
    BY HighestFacts DEF Frames
  <2> HIDE DEF g, start
  <2> QED
    BY <1>1, <2>1, <2>2, <2>3, ZenonT(30) DEF Frames
<1>4. ASSUME NEW d, d.prevLoc \in Locations, d.endLocation \in Locations
      PROVE  ContainerPass(f, d) \in Frames
  <2> DEFINE g == [f EXCEPT !.step = "pass", !.i = 1, !.found = FALSE, !.passEnd = f.end]
  <2>1. g \in Frames
    <3>1. "pass" \in {"first", "pass", "lost"} /\ 1 \in Nat \ {0} /\ FALSE \in BOOLEAN
      OBVIOUS
    <3> QED
      BY <1>1, <1>2, <3>1, Zenon
  <2>2. ContainerPass(f, d) = [g EXCEPT !.begin = d.prevLoc, !.documentEnd = d.endLocation]
    BY DEF ContainerPass, Frames
  <2> HIDE DEF g
  <2> QED
    BY <1>4, <2>1, <2>2, ZenonT(30) DEF Frames
<1>5. Lost(f) \in Frames
  BY DEF Lost, Frames
<1> QED
  BY <1>3, <1>4, <1>5

LEMMA TypesPasses ==
  ASSUME TypeOK, NextPhrasePass \/ NextContainerPass \/ GoRoundForEver
  PROVE  ReadersTypes' /\ AnswersTyped' /\ [RankerNext]_rankerVars
<1>1. status = "search" /\ stack # << >> /\ stack \in Seq(Frames) /\ query \in DOMAIN Trees
  BY DEF TypeOK, NextPhrasePass, NextContainerPass, GoRoundForEver, Searching
<1>2. Top \in Frames
  BY <1>1, TopFacts DEF Top
<1>3. UNCHANGED <<lists, query, loc>>
  BY DEF NextPhrasePass, NextContainerPass, GoRoundForEver, chunkVars
<1>4. Words' = Words /\ Frames' = Frames /\ Documents' = Documents
  BY <1>3 DEF Words, Frames, Documents, tree
<1>5. ASSUME EndSearch("crash") \/ EndSearch("hang"), UNCHANGED <<docEnd, stack>>
      PROVE  ReadersTypes' /\ AnswersTyped' /\ [RankerNext]_rankerVars
  BY <1>1, <1>3, <1>4, <1>5 DEF TypeOK, ReadersTypes, AnswersTyped, EndSearch, RankerNext
<1>6. CASE NextPhrasePass
  <2>1. PhrasePass(Top) \in Frames
    BY <1>2, PassTyped
  <2>2. stack' \in Seq(Frames)
    BY <1>1, <1>6, <2>1, TopBecomesTyped DEF NextPhrasePass
  <2> QED
    BY <1>3, <1>4, <1>6, <2>2 DEF NextPhrasePass, TypeOK, ReadersTypes, AnswersTyped, rankerVars
<1>7. CASE NextContainerPass
  <2>1. CASE EndSearch("crash") /\ UNCHANGED <<docEnd, stack>>
    BY <1>5, <2>1
  <2>2. CASE /\ docEnd' = SeekEnd(Top.end)
             /\ TopBecomes(IF docEnd'.offEnd THEN Lost(Top) ELSE ContainerPass(Top, docEnd'))
             /\ UNCHANGED rankerVars
    <3>1. Top.end \in Int
      BY <1>1, <1>2, FrameFacts
    <3>2. docEnd' \in [prevLoc : Locations, startLocation : Locations, endLocation : Locations,
                       tData : Nat, offEnd : BOOLEAN]
      BY <2>2, <3>1, SeekEndFacts, Zenon DEF TypeOK
    <3>3. Lost(Top) \in Frames
      BY <1>2, PassTyped
    <3>4. ContainerPass(Top, docEnd') \in Frames
      <4>1. docEnd'.prevLoc \in Locations /\ docEnd'.endLocation \in Locations
        BY <3>2
      <4> QED
        BY <1>2, <4>1, PassTyped
    <3>5. stack' \in Seq(Frames)
      BY <1>1, <2>2, <3>3, <3>4, TopBecomesTyped
    <3> QED
      BY <1>3, <1>4, <2>2, <3>2, <3>5 DEF TypeOK, ReadersTypes, AnswersTyped, rankerVars
  <2> QED
    BY <1>7, <2>1, <2>2 DEF NextContainerPass
<1>8. CASE GoRoundForEver
  BY <1>5, <1>8 DEF GoRoundForEver
<1> QED
  BY <1>6, <1>7, <1>8

LEMMA StartsFacts ==
  ASSUME NEW f \in Frames, NEW start \in Starts(f)
  PROVE  start \in 0..Highest
BY HighestFacts DEF Starts, Frames

LEMMA TypesReturn ==
  ASSUME TypeOK, Return,
         Len(stack) > 1 => Asks(stack[Len(stack) - 1])
  PROVE  ReadersTypes' /\ AnswersTyped' /\ UNCHANGED rankerVars
<1> DEFINE k == Len(stack) - 1
           f == stack[k]
<1>1. stack # << >> /\ stack \in Seq(Frames) /\ query \in DOMAIN Trees /\ Len(stack) > 1
  BY DEF TypeOK, Return, Searching
<1>2. /\ Top \in Frames /\ k \in 1..k /\ f \in Frames /\ Len(stack) \in Nat /\ DOMAIN stack = 1..Len(stack)
      /\ Front(stack) \in Seq(Frames) /\ Len(Front(stack)) = k /\ Front(stack)[k] = f
  BY <1>1, TopFacts DEF Top
<1>3. UNCHANGED <<lists, query, loc, docEnd, answers, results, status>>
  BY DEF Return, chunkVars, rankerVars
<1>4. Words' = Words /\ Frames' = Frames /\ Documents' = Documents
  BY <1>3 DEF Words, Frames, Documents, tree
<1>5. PICK start \in Starts(Top) :
        stack' = [Front(stack) EXCEPT ![k] = Takes(Front(stack)[k], ResultOf(Top, start))]
  BY DEF Return
<1>6. ResultOf(Top, start) \in Results
  BY <1>2, StartsFacts, PostOfTyped
<1>7. Takes(f, ResultOf(Top, start)) \in Frames
  BY <1>1, <1>2, <1>6, TakesTyped
<1>8. stack' \in Seq(Frames)
  BY <1>2, <1>5, <1>7
<1> QED
  BY <1>3, <1>4, <1>8 DEF TypeOK, ReadersTypes, AnswersTyped, rankerVars

LEMMA TypesReturnToRanker ==
  ASSUME TypeOK, ReturnToRanker
  PROVE  ReadersTypes' /\ AnswersTyped' /\ [RankerNext]_rankerVars
<1>1. status = "search" /\ stack # << >> /\ stack \in Seq(Frames) /\ query \in DOMAIN Trees
  BY DEF TypeOK, ReturnToRanker, Searching
<1>2. Top \in Frames
  BY <1>1, TopFacts DEF Top
<1>3. UNCHANGED <<lists, query, loc>> /\ stack' = << >>
  BY DEF ReturnToRanker, chunkVars
<1>4. Words' = Words /\ Frames' = Frames /\ Documents' = Documents
  BY <1>3 DEF Words, Frames, Documents, tree
<1>5. ASSUME EndSearch("crash") \/ EndSearch("done"),
             docEnd' \in [prevLoc : Locations, startLocation : Locations, endLocation : Locations,
                          tData : Nat, offEnd : BOOLEAN]
      PROVE  ReadersTypes' /\ AnswersTyped' /\ [RankerNext]_rankerVars
  BY <1>1, <1>3, <1>4, <1>5 DEF TypeOK, ReadersTypes, AnswersTyped, EndSearch, RankerNext
<1>6. CASE NoDocument(PostOf(Top))
  BY <1>5, <1>6 DEF NoDocument, TypeOK
<1>7. CASE FindDocument(PostOf(Top))
  <2> DEFINE at == loc[PostOf(Top)]
             d == SeekEnd(at)
  <2>1. PostOf(Top) \in Words \cup {Null} /\ PostOf(Top) # Null
    <3>1. 0 \in 0..Highest
      BY HighestFacts
    <3> QED
      BY <1>2, <1>7, <3>1, PostOfTyped DEF FindDocument
  <2>2. at \in Locations /\ at \in Nat
    BY <2>1, HighestFacts DEF TypeOK, Locations
  <2>3. CASE EndSearch("crash") /\ UNCHANGED docEnd
    BY <1>5, <2>3 DEF TypeOK
  <2>4. CASE /\ docEnd' = d
             /\ IF docEnd'.offEnd THEN EndSearch("done") ELSE RankDocument(docEnd'.tData + 1, at)
    <3>1. /\ d \in [prevLoc : Locations, startLocation : Locations, endLocation : Locations,
                    tData : Nat, offEnd : BOOLEAN]
          /\ ~d.offEnd => d.tData + 1 \in Documents
      <4>1. at \in Int
        BY <2>2
      <4> QED
        BY <4>1, SeekEndFacts DEF TypeOK, Documents
    <3> HIDE DEF d, at
    <3>2. CASE docEnd'.offEnd
      BY <1>5, <2>4, <3>1, <3>2
    <3>3. CASE ~docEnd'.offEnd
      <4> DEFINE doc == d.tData + 1
      <4>1. doc \in Documents /\ doc \in Nat
        BY <2>4, <3>1, <3>3
      <4> HIDE DEF doc
      <4>2. RankDocument(doc, at)
        BY <2>4, <3>3 DEF doc
      <4>3. PICK rank \in Ranks : answers' = Append(answers, [doc |-> doc, loc |-> at, rank |-> rank])
        BY <4>2 DEF RankDocument
      <4>4. [doc |-> doc, loc |-> at, rank |-> rank] \in [doc : Documents, loc : Locations, rank : Ranks]
        BY <2>2, <4>1
      <4>5. AnswersTyped'
        BY <1>4, <4>3, <4>4 DEF TypeOK, AnswersTyped
      <4>6. RankerNext
        BY <1>1, <2>2, <4>1, <4>2 DEF RankerNext
      <4>7. status' = "search"
        BY <1>1, <4>2 DEF RankDocument
      <4> QED
        BY <1>3, <1>4, <2>4, <3>1, <4>5, <4>6, <4>7 DEF TypeOK, ReadersTypes
    <3> QED
      BY <3>2, <3>3
  <2> QED
    BY <1>7, <2>3, <2>4 DEF FindDocument, DocumentOf
<1> QED
  BY <1>6, <1>7 DEF ReturnToRanker

-----------------------------------------------------------------------------
(* A Seek that called another one waits for it *)

\* f waits for g, which seeks its current term.
Calls(T, f, g) ==
  /\ T[f.n].op \in {"or", "container"} /\ f.step # "lost"
  /\ f.i \in DOMAIN T[f.n].terms /\ T[f.n].terms[f.i] = g.n
  /\ T[f.n].op = "container" /\ f.step = "first" => f.i <= T[f.n].contained

Calling(T, s) == \A k \in 1..(Len(s) - 1) : Calls(T, s[k], s[k + 1])

LEMMA CallsFacts ==
  ASSUME query \in DOMAIN Trees, NEW f \in Frames, NEW g
  PROVE  /\ Calls(tree, f, g) => Asks(f) /\ Term(f) = g.n
         /\ Asks(f) /\ Op(f) # "phrase" => (Calls(tree, f, g) <=> g.n = Term(f))
<1>1. /\ f.n \in DOMAIN tree /\ Op(f) \in {"or", "phrase", "container"} /\ f.i \in Nat \ {0}
      /\ Len(Terms(f)) \in Nat /\ DOMAIN Terms(f) = 1..Len(Terms(f)) /\ InRound(f) <= Len(Terms(f))
      /\ InRound(f) \in Nat
  BY FrameFacts
<1>2. Calls(tree, f, g) => Asks(f) /\ Term(f) = g.n
  BY <1>1 DEF Calls, Asks, InRound, Op, Terms, Term
<1>3. Asks(f) /\ Op(f) # "phrase" => (Calls(tree, f, g) <=> g.n = Term(f))
  <2>1. SUFFICES ASSUME Asks(f), Op(f) # "phrase" PROVE Calls(tree, f, g) <=> g.n = Term(f)
    OBVIOUS
  <2>2. f.step # "lost" /\ f.i \in DOMAIN Terms(f)
    BY <1>1, <2>1 DEF Asks
  <2>3. Op(f) = "container" /\ f.step = "first" => f.i <= tree[f.n].contained
    BY <2>1 DEF Asks, InRound
  <2>4. Op(f) \in {"or", "container"}
    BY <1>1, <2>1
  <2> QED
    BY <2>2, <2>3, <2>4 DEF Calls, Op, Terms, Term
<1> QED
  BY <1>2, <1>3

\* Frames are only replaced on top, by frames of the same reader.
LEMMA CallingKept ==
  ASSUME NEW T, NEW s, NEW s2, Len(s) \in Nat, Len(s2) \in Nat, Len(s2) <= Len(s), Calling(T, s),
         \A k \in 1..(Len(s2) - 1) : s2[k] = s[k],
         Len(s2) > 0 => s2[Len(s2)].n = s[Len(s2)].n
  PROVE  Calling(T, s2)
<1>1. SUFFICES ASSUME NEW k \in 1..(Len(s2) - 1) PROVE Calls(T, s2[k], s2[k + 1])
  BY DEF Calling
<1>2. s2[k] = s[k] /\ k \in 1..(Len(s) - 1)
  OBVIOUS
<1>3. Calls(T, s[k], s[k + 1])
  BY <1>2 DEF Calling
<1>4. s2[k + 1].n = s[k + 1].n
  <2>1. CASE k + 1 = Len(s2)
    BY <2>1
  <2>2. CASE k + 1 # Len(s2)
    <3>1. k + 1 \in 1..(Len(s2) - 1)
      BY <2>2
    <3> QED
      BY <3>1
  <2> QED
    BY <2>1, <2>2
<1> QED
  BY <1>2, <1>3, <1>4 DEF Calls

LEMMA TakesReader ==
  ASSUME query \in DOMAIN Trees, NEW f \in Frames, NEW r, Asks(f)
  PROVE  Takes(f, r).n = f.n
<1>1. /\ Op(f) \in {"or", "phrase", "container"} /\ f.step \in {"first", "pass"}
      /\ f.i <= tree[f.n].contained \/ f.i > tree[f.n].contained
  BY FrameFacts DEF Asks
<1>2. OrTakes(f, r).n = f.n
  BY DEF OrTakes, Frames
<1>3. PhraseFirst(f, r).n = f.n /\ PhraseNext(f, r).n = f.n
  BY DEF PhraseFirst, PhraseNext, PhraseTakes, Lost, Frames
<1>4. Farther(f, r).n = f.n /\ ContainedNext(f, r).n = f.n /\ ExcludedNext(f, r).n = f.n
  BY DEF Farther, ContainedNext, ExcludedNext, Called, Lost, Frames
<1> QED
  BY <1>1, <1>2, <1>3, <1>4, Zenon DEF Takes

LEMMA PassReader ==
  ASSUME NEW f \in Frames
  PROVE  /\ PhrasePass(f).n = f.n /\ Lost(f).n = f.n
         /\ \A d : ContainerPass(f, d).n = f.n
  BY DEF PhrasePass, ContainerPass, Lost, Frames

\* What a step does to the stack.
Pushed(s, s2) ==
  \E f : /\ s2 = Append(s, f)
         /\ \/ s = << >> /\ f = Called(Root, NextTarget)
            \/ /\ s # << >> /\ Asks(Last(s)) /\ Op(Last(s)) # "phrase"
               /\ f = Called(Term(Last(s)), TermTarget(Last(s)))

Replaced(s, s2) ==
  /\ Len(s2) \in Nat /\ Len(s2) <= Len(s)
  /\ \A k \in 1..(Len(s2) - 1) : s2[k] = s[k]
  /\ Len(s2) > 0 => s2[Len(s2)].n = s[Len(s2)].n

\* What becomes of the Seek f.
Becomes(f, g) ==
  \/ Asks(f) /\ (\E r \in Results : g = Takes(f, r)) /\ UNCHANGED docEnd
  \/ GoesOn(f) /\ Op(f) = "phrase" /\ g = PhrasePass(f) /\ UNCHANGED docEnd
  \/ /\ GoesOn(f) /\ Op(f) = "container" /\ ~docEnd.offEnd /\ docEnd' = SeekEnd(f.end)
     /\ g = IF docEnd'.offEnd THEN Lost(f) ELSE ContainerPass(f, docEnd')

\* The k-th Seek becomes g, those above it are gone.
Changed(s, s2, k, g) ==
  /\ k \in 1..Len(s) /\ Len(s2) = k /\ s2[k] = g
  /\ \A j \in 1..(k - 1) : s2[j] = s[j]

LEMMA TopChanged ==
  ASSUME stack \in Seq(Frames), stack # << >>, NEW f \in Frames, TopBecomes(f)
  PROVE  Changed(stack, stack', Len(stack), f)
<1>1. /\ stack' \in Seq(Frames) /\ Len(stack') = Len(stack) /\ stack'[Len(stack)] = f
      /\ \A k \in 1..(Len(stack) - 1) : stack'[k] = stack[k]
  BY TopBecomesTyped
<1>2. Len(stack) \in 1..Len(stack)
  BY TopFacts
<1> QED
  BY <1>1, <1>2 DEF Changed

LEMMA StackChanges ==
  ASSUME TypeOK, Calling(tree, stack), Next
  PROVE  \/ UNCHANGED <<stack, docEnd>>
         \/ Pushed(stack, stack') /\ UNCHANGED docEnd
         \/ ReturnToRanker
         \/ \E k \in 1..Len(stack) : \E g : Becomes(stack[k], g) /\ Changed(stack, stack', k, g)
<1>1. stack \in Seq(Frames) /\ query \in DOMAIN Trees
  BY DEF TypeOK
<1>2. ASSUME stack # << >>
      PROVE  /\ Top \in Frames /\ Top = Last(stack) /\ Len(stack) \in 1..Len(stack)
             /\ Top = stack[Len(stack)]
  BY <1>1, <1>2, TopFacts DEF Top
<1>3. CASE NextDocument
  <2> DEFINE f == Called(Root, NextTarget)
  <2>1. stack = << >> /\ stack' = <<f>> /\ UNCHANGED docEnd
    BY <1>3 DEF NextDocument
  <2> HIDE DEF f
  <2>2. <<f>> = Append(<< >>, f)
    OBVIOUS
  <2>3. stack' = Append(stack, f)
    BY <2>1, <2>2
  <2> QED
    BY <2>1, <2>3 DEF Pushed, f
<1>4. CASE SeekTerm
  <2>1. stack # << >> /\ Asks(Top) /\ UNCHANGED docEnd
    BY <1>4 DEF SeekTerm, Searching
  <2>2. CASE SeekTermWord(Term(Top), TermTarget(Top))
    <3>1. ASSUME NEW r \in Results, TopBecomes(Takes(Top, r))
          PROVE  \E k \in 1..Len(stack) : \E g : Becomes(stack[k], g) /\ Changed(stack, stack', k, g)
      <4>1. Takes(Top, r) \in Frames
        BY <1>1, <1>2, <2>1, TakesTyped
      <4>2. Changed(stack, stack', Len(stack), Takes(Top, r))
        BY <1>1, <2>1, <3>1, <4>1, TopChanged
      <4> QED
        BY <1>2, <2>1, <4>2 DEF Becomes
    <3>2. Result(Null, 0, 0) \in Results
      BY HighestFacts DEF Results, Result, Locations
    <3>3. ASSUME Term(Top) \in Words, tree[Term(Top)].key \in DOMAIN lists,
                 NEW at, at = SeekWord(lists[tree[Term(Top)].key], TermTarget(Top))
          PROVE  Result(IF at < TermTarget(Top) THEN Null ELSE Term(Top), at, at) \in Results
      <4>1. at \in Locations /\ at \in 0..Highest
        BY <3>3, WordPostFacts, HighestFacts DEF TypeOK, Locations
      <4> QED
        BY <3>3, <4>1 DEF Results, Result
    <3>4. Term(Top) \in Words
      BY <1>1, <1>2, <2>1, <2>2, TermFacts DEF SeekTermWord, Words
    <3> QED
      BY <2>1, <2>2, <3>1, <3>2, <3>3, <3>4 DEF SeekTermWord
  <2>3. CASE SeekTermBelow(Term(Top), TermTarget(Top))
    <3>1. Op(Top) # "phrase"
      BY <1>1, <1>2, <2>1, <2>3, TermFacts DEF SeekTermBelow, Words
    <3> QED
      BY <1>2, <2>1, <2>3, <3>1 DEF SeekTermBelow, Pushed
  <2> QED
    BY <1>4, <2>2, <2>3 DEF SeekTerm
<1>5. CASE NextPhrasePass
  <2>1. stack # << >> /\ Op(Top) = "phrase" /\ GoesOn(Top) /\ TopBecomes(PhrasePass(Top))
        /\ UNCHANGED docEnd
    BY <1>5 DEF NextPhrasePass, Searching
  <2>2. Changed(stack, stack', Len(stack), PhrasePass(Top))
    BY <1>1, <1>2, <2>1, PassTyped, TopChanged
  <2> QED
    BY <1>2, <2>1, <2>2 DEF Becomes
<1>6. CASE NextContainerPass
  <2>1. stack # << >> /\ Top \in Frames /\ Op(Top) = "container" /\ GoesOn(Top)
    BY <1>2, <1>6 DEF NextContainerPass, Searching
  <2>2. CASE EndSearch("crash") /\ UNCHANGED <<docEnd, stack>>
    BY <2>2
  <2>3. CASE /\ ~docEnd.offEnd /\ docEnd' = SeekEnd(Top.end)
             /\ TopBecomes(IF docEnd'.offEnd THEN Lost(Top) ELSE ContainerPass(Top, docEnd'))
    <3>1. Top.end \in Int
      BY <1>1, <2>1, FrameFacts
    <3>2. docEnd'.prevLoc \in Locations /\ docEnd'.endLocation \in Locations
      BY <2>3, <3>1, SeekEndFacts DEF TypeOK
    <3>3. ContainerPass(Top, docEnd') \in Frames /\ Lost(Top) \in Frames
      BY <2>1, <3>2, PassTyped
    <3> DEFINE g == IF docEnd'.offEnd THEN Lost(Top) ELSE ContainerPass(Top, docEnd')
    <3>4. Becomes(Top, g)
      BY <2>1, <2>3 DEF Becomes
    <3>5. g \in Frames /\ TopBecomes(g)
      BY <2>3, <3>3
    <3> HIDE DEF g
    <3>6. Changed(stack, stack', Len(stack), g)
      BY <1>1, <2>1, <3>5, TopChanged
    <3> QED
      BY <1>2, <2>1, <3>4, <3>6
  <2> QED
    BY <1>6, <2>2, <2>3 DEF NextContainerPass
<1>7. CASE GoRoundForEver
  BY <1>7 DEF GoRoundForEver
<1>8. CASE Return
  <2> DEFINE k == Len(stack) - 1
  <2>1. stack # << >> /\ Len(stack) > 1 /\ UNCHANGED docEnd
    BY <1>8 DEF Return, Searching
  <2>2. /\ Top \in Frames /\ k \in 1..k /\ k \in 1..Len(stack) /\ stack[k] \in Frames /\ Len(stack) \in Nat
        /\ Front(stack) \in Seq(Frames) /\ Len(Front(stack)) = k
        /\ \A j \in 1..k : Front(stack)[j] = stack[j]
    BY <1>1, <2>1, TopFacts DEF Top
  <2>3. PICK start \in Starts(Top) :
          stack' = [Front(stack) EXCEPT ![k] = Takes(Front(stack)[k], ResultOf(Top, start))]
    BY <1>8 DEF Return
  <2>4. Calls(tree, stack[k], stack[k + 1])
    BY <2>2 DEF Calling
  <2>5. Asks(stack[k])
    BY <1>1, <2>2, <2>4, CallsFacts
  <2>6. ResultOf(Top, start) \in Results
    BY <2>2, StartsFacts, PostOfTyped
  <2> DEFINE g == Takes(stack[k], ResultOf(Top, start))
  <2>7. Becomes(stack[k], g)
    BY <2>1, <2>5, <2>6 DEF Becomes
  <2>8. stack' = [Front(stack) EXCEPT ![k] = g]
    BY <2>2, <2>3
  <2> HIDE DEF g
  <2>9. Len(stack') = k /\ stack'[k] = g /\ \A j \in 1..(k - 1) : stack'[j] = stack[j]
    BY <2>2, <2>8
  <2>10. Changed(stack, stack', k, g)
    BY <2>2, <2>9 DEF Changed
  <2> QED
    BY <2>2, <2>7, <2>10
<1>9. CASE OutOfTime
  BY <1>9 DEF OutOfTime
<1> QED
  BY <1>3, <1>4, <1>5, <1>6, <1>7, <1>8, <1>9 DEF Next

LEMMA BecomesReader ==
  ASSUME query \in DOMAIN Trees, NEW f \in Frames, NEW g, Becomes(f, g)
  PROVE  g.n = f.n
BY TakesReader, PassReader DEF Becomes

LEMMA ReplacedTop ==
  ASSUME stack \in Seq(Frames), stack # << >>, NEW f \in Frames, TopBecomes(f), f.n = Top.n
  PROVE  Replaced(stack, stack')
<1>1. Changed(stack, stack', Len(stack), f)
  BY TopChanged
<1>2. Len(stack) \in Nat /\ Top = stack[Len(stack)]
  BY TopFacts DEF Top
<1> QED
  BY <1>1, <1>2 DEF Changed, Replaced

LEMMA StackStep ==
  ASSUME TypeOK, Calling(tree, stack), Next
  PROVE  UNCHANGED stack \/ Pushed(stack, stack') \/ Replaced(stack, stack')
<1>1. stack \in Seq(Frames) /\ query \in DOMAIN Trees
  BY DEF TypeOK
<1>2. CASE ReturnToRanker
  BY <1>1, <1>2 DEF ReturnToRanker, Replaced
<1>3. ASSUME NEW k \in 1..Len(stack), NEW g, Becomes(stack[k], g), Changed(stack, stack', k, g)
      PROVE  Replaced(stack, stack')
  <2>1. stack[k] \in Frames /\ Len(stack) \in Nat
    BY <1>1
  <2>2. g.n = stack[k].n
    BY <1>1, <1>3, <2>1, BecomesReader
  <2> QED
    BY <1>3, <2>1, <2>2 DEF Changed, Replaced
<1> QED
  BY <1>2, <1>3, StackChanges

LEMMA CallingStep ==
  ASSUME TypeOK, Calling(tree, stack), Next
  PROVE  Calling(tree', stack')
<1>1. stack \in Seq(Frames) /\ query \in DOMAIN Trees
  BY DEF TypeOK
<1>2. tree' = tree
  BY DEF tree, Next, NextDocument, SeekTerm, NextPhrasePass, NextContainerPass, GoRoundForEver,
         Return, ReturnToRanker, OutOfTime, chunkVars
<1>3. CASE UNCHANGED stack
  BY <1>2, <1>3
<1>4. CASE Pushed(stack, stack')
  <2>1. PICK f : /\ stack' = Append(stack, f)
                 /\ \/ stack = << >> /\ f = Called(Root, NextTarget)
                    \/ /\ stack # << >> /\ Asks(Last(stack)) /\ Op(Last(stack)) # "phrase"
                       /\ f = Called(Term(Last(stack)), TermTarget(Last(stack)))
    BY <1>4 DEF Pushed
  <2>2. CASE stack = << >>
    BY <1>2, <2>1, <2>2 DEF Calling
  <2>3. CASE stack # << >>
    <3>1. Last(stack) \in Frames /\ Last(stack) = stack[Len(stack)] /\ Len(stack) \in Nat \ {0}
      BY <1>1, <2>3, TopFacts
    <3>2. f.n = Term(Last(stack))
      BY <2>1, <2>3 DEF Called
    <3>3. Calls(tree, stack[Len(stack)], f)
      BY <1>1, <2>1, <2>3, <3>1, <3>2, CallsFacts
    <3>4. /\ Len(stack') = Len(stack) + 1 /\ stack'[Len(stack) + 1] = f
          /\ \A k \in 1..Len(stack) : stack'[k] = stack[k]
      BY <1>1, <2>1
    <3>5. SUFFICES ASSUME NEW k \in 1..Len(stack) PROVE Calls(tree, stack'[k], stack'[k + 1])
      BY <1>2, <3>1, <3>4 DEF Calling
    <3>6. CASE k = Len(stack)
      BY <3>1, <3>3, <3>4, <3>6
    <3>7. CASE k # Len(stack)
      <4>1. k \in 1..(Len(stack) - 1) /\ k + 1 \in 1..Len(stack)
        BY <3>1, <3>7
      <4> QED
        BY <3>4, <4>1 DEF Calling
    <3> QED
      BY <3>6, <3>7
  <2> QED
    BY <2>2, <2>3
<1>5. CASE Replaced(stack, stack') /\ ~UNCHANGED stack
  <2>1. Len(stack) \in Nat
    BY <1>1
  <2> QED
    BY <1>2, <1>5, <2>1, CallingKept DEF Replaced
<1> QED
  BY <1>3, <1>4, <1>5, StackStep

LEMMA RankerPart ==
  TypeOK <=> /\ ReadersTypes /\ AnswersTyped
             /\ ToSet(results) \subseteq DOMAIN answers /\ Len(results) <= MaxResults
  BY DEF TypeOK, ReadersTypes, AnswersTyped

LEMMA ResultsTyped ==
  ASSUME RankerInv
  PROVE  ToSet(results) \subseteq DOMAIN answers /\ Len(results) <= MaxResults
<1>1. /\ results \in Seq(DOMAIN answers) /\ Len(answers) \in Nat /\ Len(results) \in Nat
  BY DEF RankerInv, KeptTypes
<1>2. ToSet(results) \subseteq DOMAIN answers
  BY <1>1 DEF ToSet
<1>3. Len(results) <= MaxResults
  BY <1>1, SomeRoom DEF RankerInv, AllKept, LastKept
<1> QED
  BY <1>2, <1>3

TypesInv == TypeOK /\ Calling(tree, stack) /\ RankerInv

LEMMA TypesInvInit == Init => TypesInv
<1> SUFFICES ASSUME Init PROVE TypesInv
  OBVIOUS
<1>1. ReadersTypes /\ answers = << >> /\ RankerInv
  BY TypesInit, RankerInvInit
<1>2. AnswersTyped
  BY <1>1 DEF AnswersTyped
<1>3. Calling(tree, stack)
  BY DEF Init, Calling
<1> QED
  BY <1>1, <1>2, <1>3, RankerPart, ResultsTyped DEF TypesInv

LEMMA TypesStep ==
  ASSUME TypesInv, Next
  PROVE  ReadersTypes' /\ AnswersTyped' /\ [RankerNext]_rankerVars
<1>1. TypeOK /\ Calling(tree, stack)
  BY DEF TypesInv
<1>2. CASE NextDocument
  BY <1>1, <1>2, TypesNextDocument
<1>3. CASE SeekTerm
  BY <1>1, <1>3, TypesSeekTerm
<1>4. CASE NextPhrasePass \/ NextContainerPass \/ GoRoundForEver
  BY <1>1, <1>4, TypesPasses
<1>5. CASE Return
  <2>1. ASSUME Len(stack) > 1 PROVE Asks(stack[Len(stack) - 1])
    <3> DEFINE k == Len(stack) - 1
    <3>1. stack # << >> /\ stack \in Seq(Frames) /\ query \in DOMAIN Trees
      BY <1>1, <1>5 DEF TypeOK, Return, Searching
    <3>2. k \in 1..k /\ stack[k] \in Frames
      BY <2>1, <3>1, TopFacts
    <3>3. Calls(tree, stack[k], stack[k + 1])
      BY <1>1, <3>2 DEF Calling
    <3> QED
      BY <3>1, <3>2, <3>3, CallsFacts
  <2> QED
    BY <1>1, <1>5, <2>1, TypesReturn
<1>6. CASE ReturnToRanker
  BY <1>1, <1>6, TypesReturnToRanker
<1>7. CASE OutOfTime
  <2>1. /\ UNCHANGED <<lists, query, loc, docEnd, stack>> /\ status = "search" /\ TimeIsUp
        /\ status' = "timeout" /\ UNCHANGED <<answers, results>>
    BY <1>7 DEF OutOfTime, chunkVars, TimeIsUp, EndSearch
  <2>2. Words' = Words /\ Frames' = Frames /\ Documents' = Documents
    BY <2>1 DEF Words, Frames, Documents, tree
  <2> QED
    BY <1>1, <2>1, <2>2 DEF TypeOK, ReadersTypes, AnswersTyped, RankerNext
<1> QED
  BY <1>2, <1>3, <1>4, <1>5, <1>6, <1>7 DEF Next

LEMMA TypesInvStep == TypesInv /\ [Next]_vars => TypesInv'
<1> SUFFICES ASSUME TypesInv, [Next]_vars PROVE TypesInv'
  OBVIOUS
<1>1. CASE Next
  <2>1. ReadersTypes' /\ AnswersTyped' /\ [RankerNext]_rankerVars
    BY <1>1, TypesStep
  <2>2. RankerInv'
    BY <2>1, RankerInvStep DEF TypesInv
  <2>3. (ToSet(results) \subseteq DOMAIN answers /\ Len(results) <= MaxResults)'
    BY <2>2, ResultsTyped, PTL
  <2>4. TypeOK'
    BY <2>1, <2>3, RankerPart, PTL
  <2>5. Calling(tree', stack')
    BY <1>1, CallingStep DEF TypesInv
  <2> QED
    BY <2>2, <2>4, <2>5 DEF TypesInv
<1>2. CASE UNCHANGED vars
  BY <1>2 DEF vars, chunkVars, rankerVars, TypesInv, TypeOK, Frames, Words, Documents, tree, Calling,
              RankerInv, KeptTypes, AllKept, LastKept, BestKept, FirstPlace
<1> QED
  BY <1>1, <1>2

LEMMA TypesAlways == Spec => []TypesInv
  BY TypesInvInit, TypesInvStep, PTL DEF Spec

\* The readers find for any chunk and any tree of readers a document that
\* is there, and what every Seek holds keeps its type: no target leaves 0 to
\* Highest, though one is set behind a document's end.
THEOREM ReadersTyped == Spec => []TypeOK
<1>1. TypesInv => TypeOK
  BY DEF TypesInv
<1> QED
  BY <1>1, TypesAlways, PTL

\* The search drives Ranker as RankerSpec says, hence what is proved of
\* RankerSpec holds of the search.
THEOREM SearchesForRanker == Spec => RankerSpec
<1>1. Init => RankerInit
  BY DEF Init
<1>2. TypesInv /\ [Next]_vars => [RankerNext]_rankerVars
  BY TypesStep DEF vars, rankerVars
<1> QED
  BY <1>1, <1>2, TypesAlways, PTL DEF Spec, RankerSpec

\* The results are the last document ranked and others that no document given
\* up ranks above, in every state of a search.
THEOREM SearchKeepsResults == Spec => []ResultsBestAndLast
  BY SearchesForRanker, ResultsKept, PTL

-----------------------------------------------------------------------------
(* Locations, and the documents they are in *)

LastEnd(S) == S[End][Len(S[End])]

\* No document that ends before l ends behind p.
NotBefore(S, p, l) == \A d \in DOMAIN S[End] : S[End][d] < l => S[End][d] <= p

\* The reader p stands on a post of its list.
Stands(T, S, L, p) == p \in DOMAIN T /\ T[p].op = "word" /\ PostAt(S, T[p].key, L[p])

\* What a Seek of the reader n for l finds: a reader under n that stands on a
\* post, in no document that ends before l.
Finds(T, S, L, n, l, r) ==
  r.post # Null =>
    /\ r.post \in T[n].under /\ Stands(T, S, L, r.post) /\ r.at = L[r.post]
    /\ NotBefore(S, r.at, l)
    /\ T[n].op = "word" => r.post = n /\ r.at >= l

LEMMA LastEndFacts ==
  ASSUME lists \in Chunks
  PROVE  /\ LastEnd(lists) \in Locations /\ LastEnd(lists) \in Nat
         /\ Len(lists[End]) \in DOMAIN lists[End]
         /\ \A d \in DOMAIN lists[End] : lists[End][d] <= LastEnd(lists)
         /\ \A key, l : PostAt(lists, key, l) => l \in Locations /\ l \in Nat /\ l <= LastEnd(lists)
         /\ \A key, l : PostAt(lists, key, l) /\ key # End => \A d \in DOMAIN lists[End] : lists[End][d] # l
<1> DEFINE ends == lists[End]
           n == Len(ends)
<1>1. /\ n \in Nat \ {0} /\ DOMAIN ends = 1..n
      /\ \A d \in 1..n : ends[d] \in Locations /\ ends[d] \in Nat
      /\ \A d, e \in 1..n : d < e => ends[d] < ends[e]
  BY EndFacts, ListFacts
<1>2. LastEnd(lists) = ends[n] /\ n \in 1..n
  BY <1>1 DEF LastEnd
<1> HIDE DEF n, ends
<1>3. \A d \in 1..n : ends[d] <= ends[n]
  <2>1. ASSUME NEW d \in 1..n PROVE ends[d] <= ends[n]
    <3>1. d = n \/ d < n
      BY <1>1
    <3> QED
      BY <1>1, <1>2, <3>1
  <2> QED
    BY <2>1
<1>4. ASSUME NEW key, NEW l, PostAt(lists, key, l)
      PROVE  l \in Locations /\ l \in Nat /\ l <= ends[n]
  <2>1. PICK j \in DOMAIN lists[key] : lists[key][j] = l
    BY <1>4 DEF PostAt
  <2>2. key \in DOMAIN lists
    BY <1>4 DEF PostAt
  <2>3. l \in Locations /\ l \in Nat
    BY <2>1, <2>2, ListFacts
  <2>4. PICK d \in DOMAIN lists[End] : l <= lists[End][d]
    BY <2>1, <2>2, TokenFacts
  <2>5. d \in 1..n /\ l <= ends[d] /\ ends[d] <= ends[n]
    BY <1>1, <1>3, <2>4 DEF ends
  <2> QED
    BY <1>1, <1>2, <2>3, <2>5
<1>5. ASSUME NEW key, NEW l, PostAt(lists, key, l), key # End, NEW d \in DOMAIN lists[End]
      PROVE  lists[End][d] # l
  <2>1. PICK j \in DOMAIN lists[key] : lists[key][j] = l
    BY <1>5 DEF PostAt
  <2>2. key \in DOMAIN lists /\ End \in DOMAIN lists
    BY <1>5, EndFacts DEF PostAt
  <2> QED
    BY <1>5, <2>1, <2>2, TokenFacts, Zenon
<1> QED
  BY <1>1, <1>2, <1>3, <1>4, <1>5 DEF ends, n

LEMMA StandsFacts ==
  ASSUME lists \in Chunks, query \in DOMAIN Trees, NEW L, NEW p, Stands(tree, lists, L, p)
  PROVE  /\ p \in Words /\ L[p] \in Locations /\ L[p] \in Nat /\ L[p] <= LastEnd(lists)
         /\ \A d \in DOMAIN lists[End] : lists[End][d] # L[p]
<1>1. p \in Words /\ tree[p].key # End
  BY TermsFacts DEF Stands, Words
<1>2. PostAt(lists, tree[p].key, L[p])
  BY DEF Stands
<1> QED
  BY <1>1, <1>2, LastEndFacts

LEMMA NotBeforeFacts ==
  ASSUME lists \in Chunks, NEW p \in Int, NEW l \in Int
  PROVE  /\ p >= l => NotBefore(lists, p, l)
         /\ \A m \in Int : m <= l /\ NotBefore(lists, p, l) => NotBefore(lists, p, m)
         /\ \A q \in Int : q >= p /\ NotBefore(lists, p, l) => NotBefore(lists, q, l)
<1>1. \A d \in DOMAIN lists[End] : lists[End][d] \in Nat
  BY EndFacts, ListFacts
<1> QED
  BY <1>1 DEF NotBefore

\* A word's Seek finds a post at its target or beyond it, or nothing.
LEMMA WordFinds ==
  ASSUME TypeOK, NEW n \in Words, tree[n].key \in DOMAIN lists, NEW l \in Int,
         NEW at \in Locations, at = SeekWord(lists[tree[n].key], l),
         NEW L \in [Words -> Locations], L = [loc EXCEPT ![n] = at]
  PROVE  /\ at \in Nat /\ L[n] = at /\ Stands(tree, lists, L, n)
         /\ \A p \in Words : p # n => L[p] = loc[p]
         /\ Finds(tree, lists, L, n, l, Result(IF at < l THEN Null ELSE n, at, at))
<1>1. lists \in Chunks /\ query \in DOMAIN Trees /\ loc \in [Words -> Locations]
  BY DEF TypeOK
<1>2. /\ at \in Locations /\ at \in Nat /\ PostAt(lists, tree[n].key, at)
  <2>1. WordPost(lists[tree[n].key], l) \in DOMAIN lists[tree[n].key] /\ at \in Locations
    BY <1>1, WordPostFacts
  <2> QED
    BY <2>1, HighestFacts DEF PostAt, SeekWord, Locations
<1>3. L[n] = at /\ \A p \in Words : p # n => L[p] = loc[p]
  BY <1>1
<1>4. Stands(tree, lists, L, n)
  BY <1>2, <1>3 DEF Stands, Words
<1>5. at >= l => NotBefore(lists, at, l)
  BY <1>1, <1>2, NotBeforeFacts
<1>6. n \in tree[n].under
  BY <1>1, UnderFacts DEF Words
<1>7. Finds(tree, lists, L, n, l, Result(IF at < l THEN Null ELSE n, at, at))
  BY <1>2, <1>3, <1>4, <1>5, <1>6 DEF Finds, Result
<1> QED
  BY <1>2, <1>3, <1>4, <1>7

-----------------------------------------------------------------------------
(* What holds of a Seek that has not returned *)

\* The readers whose posts a Seek keeps.
Posts(f) == {f.post, f.nearestPost, f.farthestPost} \ {Null}

PostsStand(T, S, L, f) == \A p \in Posts(f) : p \in T[f.n].under /\ Stands(T, S, L, p)

\* ISROr: what the terms before the i-th have found.
OrInv(T, S, L, f) ==
  LET terms == T[f.n].terms
  IN  T[f.n].op = "or" =>
        /\ f.step = "first" /\ f.i <= Len(terms) + 1
        /\ f.post = Null => f.start = Highest
        /\ f.post # Null =>
             /\ f.start = L[f.post] /\ NotBefore(S, f.start, f.target)
             /\ \E j \in 1..(f.i - 1) : f.post \in T[terms[j]].under

\* ISRContainer: the farthest term is in the chunk, or the target is not; a
\* pass is over the document of the farthest term before it.
ContainerInv(T, S, f) ==
  T[f.n].op = "container" =>
    /\ f.target <= f.end /\ (f.end = f.target \/ f.end <= LastEnd(S))
    /\ f.step = "pass" =>
         /\ NotBefore(S, f.begin, f.target) /\ f.begin <= LastEnd(S)
         /\ f.target <= f.passEnd /\ f.passEnd <= f.end
         /\ f.passEnd <= f.documentEnd /\ f.documentEnd <= LastEnd(S)

\* ISRPhrase, step 1: the terms before the i-th are not behind the farthest.
FirstInv(T, S, L, f) ==
  LET terms == T[f.n].terms
  IN  T[f.n].op = "phrase" /\ f.step = "first" =>
        /\ f.target <= f.end /\ f.i <= Len(terms) + 1
        /\ f.nearestPost = Null /\ f.farthestPost = Null
        /\ f.nearest = 1 /\ (f.farthest = 1 \/ f.farthest < f.i)
        /\ \A j \in 1..(f.i - 1) : Stands(T, S, L, terms[j]) /\ L[terms[j]] <= f.end
        /\ f.post # Null => L[f.post] >= f.target /\ \E j \in 1..(f.i - 1) : f.post = terms[j]

\* ISRPhrase, a pass: the terms up to the one that was the farthest stand side
\* by side, up to the location this one had; those behind it stand behind it.
PassInv(T, S, L, f) ==
  LET terms == T[f.n].terms
      end == f.passEnd
      farthest == f.passFarthest
  IN  T[f.n].op = "phrase" /\ f.step = "pass" =>
        /\ f.target <= end /\ end <= f.end
        /\ f.i <= Len(terms) + 1
        /\ terms # << >> => farthest <= Len(terms) /\ f.farthest <= Len(terms) /\ f.nearest <= Len(terms)
        /\ terms = << >> => Posts(f) = {} /\ f.found
        /\ ~f.found => f.i = Len(terms) + 1
        /\ f.found =>
             /\ IF f.i <= farthest + 1 THEN f.end = end /\ f.farthest = farthest ELSE f.farthest = f.i - 1
             /\ f.nearest < f.i => f.nearestPost = terms[f.nearest]
             /\ \A j \in 1..(f.i - 1) :
                  /\ Stands(T, S, L, terms[j])
                  /\ IF j <= farthest THEN L[terms[j]] = end - farthest + j ELSE L[terms[j]] >= end

FrameInv(T, S, L, f) ==
  /\ PostsStand(T, S, L, f) /\ OrInv(T, S, L, f) /\ ContainerInv(T, S, f)
  /\ FirstInv(T, S, L, f) /\ PassInv(T, S, L, f)

\* A Seek that is called.
LEMMA CalledInv ==
  ASSUME NEW T, NEW S, NEW L, NEW n, NEW l \in Nat, Len(T[n].terms) \in Nat
  PROVE  FrameInv(T, S, L, Called(n, l))
<1> DEFINE f == Called(n, l)
<1>1. /\ f.n = n /\ f.target = l /\ f.step = "first" /\ f.i = 1 /\ f.post = Null /\ f.start = Highest
      /\ f.end = l /\ f.nearest = 1 /\ f.farthest = 1 /\ f.nearestPost = Null /\ f.farthestPost = Null
  BY DEF Called
<1> HIDE DEF f
<1>2. Posts(f) = {} /\ PostsStand(T, S, L, f)
  BY <1>1 DEF Posts, PostsStand
<1>3. OrInv(T, S, L, f)
  BY <1>1 DEF OrInv
<1>4. ContainerInv(T, S, f)
  BY <1>1 DEF ContainerInv
<1>5. FirstInv(T, S, L, f)
  BY <1>1 DEF FirstInv
<1>6. PassInv(T, S, L, f)
  BY <1>1 DEF PassInv
<1> QED
  BY <1>2, <1>3, <1>4, <1>5, <1>6 DEF FrameInv, f

\* Only readers under the current term of a Seek move.
LEMMA MovesKeep ==
  ASSUME query \in DOMAIN Trees, NEW f \in Frames, FrameInv(tree, lists, loc, f), NEW L,
         \A p : Stands(tree, lists, loc, p) => Stands(tree, lists, L, p),
         \A j \in 1..(f.i - 1) : j <= Len(Terms(f)) =>
            \A p \in tree[Terms(f)[j]].under : p \in Words => L[p] = loc[p]
  PROVE  FrameInv(tree, lists, L, f)
<1> DEFINE terms == tree[f.n].terms
<1>1. /\ f.n \in DOMAIN tree /\ f.i \in Nat \ {0} /\ Len(terms) \in Nat /\ DOMAIN terms = 1..Len(terms)
      /\ terms = Terms(f)
  BY FrameFacts DEF Terms
<1>2. \A j \in 1..Len(terms) : terms[j] \in DOMAIN tree /\ terms[j] \in tree[terms[j]].under
  BY <1>1, TermsFacts, UnderFacts
<1> HIDE DEF terms
<1>3. ASSUME NEW p, Stands(tree, lists, loc, p) PROVE p \in Words
  BY <1>3 DEF Stands, Words
<1>4. ASSUME NEW j \in 1..(f.i - 1), j <= Len(terms), Stands(tree, lists, loc, terms[j])
      PROVE  L[terms[j]] = loc[terms[j]] /\ Stands(tree, lists, L, terms[j])
  <2>1. terms[j] \in tree[terms[j]].under /\ terms[j] \in Words
    BY <1>1, <1>2, <1>3, <1>4
  <2> QED
    BY <1>1, <1>4, <2>1
<1>5. PostsStand(tree, lists, L, f)
  BY DEF FrameInv, PostsStand
<1>6. OrInv(tree, lists, L, f)
  <2>1. SUFFICES ASSUME Op(f) = "or", f.post # Null PROVE L[f.post] = loc[f.post]
    <3>1. OrInv(tree, lists, loc, f)
      BY DEF FrameInv
    <3> QED
      BY <2>1, <3>1 DEF OrInv, Op
  <2>2. f.post \in Words
    BY <1>3, <2>1 DEF FrameInv, PostsStand, Posts
  <2>3. PICK j \in 1..(f.i - 1) : f.post \in tree[terms[j]].under
    BY <2>1 DEF FrameInv, OrInv, Op, terms
  <2>4. j <= Len(terms)
    BY <1>1, <2>1 DEF FrameInv, OrInv, Op, terms
  <2> QED
    BY <1>1, <2>2, <2>3, <2>4
<1>7. ContainerInv(tree, lists, f)
  BY DEF FrameInv
<1>8. FirstInv(tree, lists, L, f)
  <2>1. SUFFICES ASSUME Op(f) = "phrase", f.step = "first" PROVE FirstInv(tree, lists, L, f)
    BY DEF FirstInv, Op
  <2>2. /\ f.target <= f.end /\ f.i <= Len(terms) + 1
        /\ f.nearestPost = Null /\ f.farthestPost = Null
        /\ f.nearest = 1 /\ (f.farthest = 1 \/ f.farthest < f.i)
        /\ \A j \in 1..(f.i - 1) : Stands(tree, lists, loc, terms[j]) /\ loc[terms[j]] <= f.end
        /\ f.post # Null => loc[f.post] >= f.target /\ \E j \in 1..(f.i - 1) : f.post = terms[j]
    BY <2>1 DEF FrameInv, FirstInv, Op, terms
  <2>3. \A j \in 1..(f.i - 1) : L[terms[j]] = loc[terms[j]] /\ Stands(tree, lists, L, terms[j])
    <3>1. ASSUME NEW j \in 1..(f.i - 1) PROVE j <= Len(terms)
      BY <1>1, <2>2
    <3> QED
      BY <1>4, <2>2, <3>1
  <2> QED
    BY <2>2, <2>3 DEF FirstInv, terms
<1>9. PassInv(tree, lists, L, f)
  <2>1. SUFFICES ASSUME Op(f) = "phrase", f.step = "pass" PROVE PassInv(tree, lists, L, f)
    BY DEF PassInv, Op
  <2>2. PassInv(tree, lists, loc, f) /\ f.i <= Len(terms) + 1
    BY <2>1 DEF FrameInv, PassInv, Op, terms
  <2>3. ASSUME f.found
        PROVE  \A j \in 1..(f.i - 1) : L[terms[j]] = loc[terms[j]] /\ Stands(tree, lists, L, terms[j])
    <3>1. ASSUME NEW j \in 1..(f.i - 1) PROVE j <= Len(terms)
      BY <1>1, <2>2
    <3>2. \A j \in 1..(f.i - 1) : Stands(tree, lists, loc, terms[j])
      BY <2>1, <2>2, <2>3 DEF PassInv, Op, terms
    <3> QED
      BY <1>4, <3>1, <3>2
  <2> QED
    BY <2>1, <2>2, <2>3 DEF PassInv, Op, terms
<1> QED
  BY <1>5, <1>6, <1>7, <1>8, <1>9 DEF FrameInv

\* f takes what its current term has found.
Taking(L, f, r) ==
  /\ lists \in Chunks /\ query \in DOMAIN Trees
  /\ f \in Frames /\ r \in Results /\ Asks(f)
  /\ FrameInv(tree, lists, L, f)
  /\ Finds(tree, lists, L, Term(f), TermTarget(f), r)

LEMMA TakingFacts ==
  ASSUME NEW L, NEW f, NEW r, Taking(L, f, r)
  PROVE  LET terms == tree[f.n].terms
         IN  /\ f.n \in DOMAIN tree /\ Len(terms) \in Nat /\ DOMAIN terms = 1..Len(terms)
             /\ f.i \in 1..Len(terms) /\ f.i \in Nat
             /\ f.target \in Nat /\ f.end \in Nat /\ f.start \in Nat /\ r.at \in Nat /\ r.start \in Nat
             /\ r.post # Null =>
                  /\ r.post \in tree[terms[f.i]].under /\ r.post \in tree[f.n].under
                  /\ Stands(tree, lists, L, r.post) /\ r.at = L[r.post]
                  /\ r.at <= LastEnd(lists) /\ r.at < Highest
                  /\ NotBefore(lists, r.at, TermTarget(f))
                  /\ Op(f) = "phrase" => r.post = terms[f.i] /\ r.at >= TermTarget(f)
<1> DEFINE terms == tree[f.n].terms
<1>1. /\ f \in Frames /\ r \in Results /\ Asks(f) /\ query \in DOMAIN Trees /\ lists \in Chunks
      /\ Finds(tree, lists, L, Term(f), TermTarget(f), r)
  BY DEF Taking
<1>2. /\ f.n \in DOMAIN tree /\ Len(terms) \in Nat /\ DOMAIN terms = 1..Len(terms)
      /\ f.target \in Nat /\ f.end \in Nat /\ f.start \in Nat
  BY <1>1, FrameFacts DEF Terms
<1>3. f.i \in 1..Len(terms) /\ f.i \in Nat /\ Term(f) = terms[f.i]
  BY <1>1, <1>2, TermFacts DEF Terms
<1>4. r.at \in Nat /\ r.start \in Nat
  BY <1>1, HighestFacts DEF Results, Locations
<1>5. tree[terms[f.i]].under \subseteq tree[f.n].under
  BY <1>1, <1>2, <1>3, UnderFacts
<1>6. ASSUME r.post # Null
      PROVE  /\ r.post \in tree[terms[f.i]].under /\ Stands(tree, lists, L, r.post) /\ r.at = L[r.post]
             /\ r.at <= LastEnd(lists) /\ r.at < Highest
             /\ NotBefore(lists, r.at, TermTarget(f))
  <2>1. /\ r.post \in tree[terms[f.i]].under /\ Stands(tree, lists, L, r.post) /\ r.at = L[r.post]
        /\ NotBefore(lists, r.at, TermTarget(f))
    BY <1>1, <1>3, <1>6 DEF Finds
  <2>2. L[r.post] \in Locations /\ L[r.post] <= LastEnd(lists)
    BY <1>1, <2>1, StandsFacts
  <2> QED
    BY <2>1, <2>2, HighestFacts DEF Locations
<1>7. ASSUME r.post # Null, Op(f) = "phrase" PROVE r.post = terms[f.i] /\ r.at >= TermTarget(f)
  <2>1. terms[f.i] \in Words
    BY <1>1, <1>3, <1>7, TermFacts
  <2> QED
    BY <1>1, <1>3, <1>7, <2>1 DEF Finds, Words
<1> HIDE DEF terms
<1> QED
  BY <1>2, <1>3, <1>4, <1>5, <1>6, <1>7 DEF terms

LEMMA OrTakesKeeps ==
  ASSUME NEW L, NEW f, NEW r, Taking(L, f, r), Op(f) = "or"
  PROVE  FrameInv(tree, lists, L, OrTakes(f, r))
<1> DEFINE g == OrTakes(f, r)
           terms == tree[f.n].terms
<1>1. f \in Frames /\ FrameInv(tree, lists, L, f) /\ tree[f.n].op = "or"
  BY DEF Taking, Op
<1>2. /\ Len(terms) \in Nat /\ f.i \in 1..Len(terms) /\ f.i \in Nat
      /\ f.target \in Nat /\ f.start \in Nat /\ r.at \in Nat
      /\ r.post # Null =>
           /\ r.post \in tree[terms[f.i]].under /\ r.post \in tree[f.n].under
           /\ Stands(tree, lists, L, r.post) /\ r.at = L[r.post] /\ r.at < Highest
           /\ NotBefore(lists, r.at, TermTarget(f))
  BY TakingFacts
<1>3. TermTarget(f) = f.target
  BY <1>1 DEF TermTarget, Op
<1>4. /\ g.n = f.n /\ g.target = f.target /\ g.step = f.step /\ g.i = f.i + 1
      /\ g.nearestPost = f.nearestPost /\ g.farthestPost = f.farthestPost
      /\ IF r.post # Null /\ r.at < f.start THEN g.post = r.post /\ g.start = r.at
         ELSE g.post = f.post /\ g.start = f.start
  BY <1>1 DEF OrTakes, Frames
<1> HIDE DEF g, terms
<1>5. PostsStand(tree, lists, L, g)
  BY <1>1, <1>2, <1>4 DEF FrameInv, PostsStand, Posts
<1>6. /\ f.step = "first"
      /\ f.post = Null => f.start = Highest
      /\ f.post # Null =>
           /\ f.start = L[f.post] /\ NotBefore(lists, f.start, f.target)
           /\ \E j \in 1..(f.i - 1) : f.post \in tree[terms[j]].under
  BY <1>1 DEF FrameInv, OrInv, terms
<1>7. g.step = "first" /\ g.i <= Len(terms) + 1
  BY <1>2, <1>4, <1>6
<1>8. OrInv(tree, lists, L, g) => FrameInv(tree, lists, L, g)
  BY <1>1, <1>4, <1>5 DEF FrameInv, ContainerInv, FirstInv, PassInv
<1> QED
  <2>1. OrInv(tree, lists, L, g)
    <3>1. CASE r.post # Null /\ r.at < f.start
      <4>1. f.i \in 1..(g.i - 1)
        BY <1>2, <1>4
      <4> QED
        BY <1>1, <1>2, <1>3, <1>4, <1>7, <3>1, <4>1 DEF OrInv, terms
    <3>2. CASE ~(r.post # Null /\ r.at < f.start)
      <4>1. \A j \in 1..(f.i - 1) : j \in 1..(g.i - 1)
        BY <1>2, <1>4
      <4> QED
        BY <1>1, <1>2, <1>4, <1>6, <1>7, <3>2, <4>1 DEF OrInv, terms
    <3> QED
      BY <3>1, <3>2
  <2> QED
    BY <1>8, <2>1 DEF g

LEMMA FartherKeeps ==
  ASSUME NEW L, NEW f, NEW r, Taking(L, f, r), Op(f) = "container", f.step = "first"
  PROVE  FrameInv(tree, lists, L, Farther(f, r))
<1> DEFINE g == Farther(f, r)
<1>1. f \in Frames /\ FrameInv(tree, lists, L, f) /\ tree[f.n].op = "container"
  BY DEF Taking, Op
<1>2. f.target \in Nat /\ f.end \in Nat /\ r.at \in Nat /\ (r.post # Null => r.at <= LastEnd(lists))
  BY TakingFacts
<1>3. /\ g.n = f.n /\ g.target = f.target /\ g.step = f.step /\ g.i = f.i + 1 /\ g.post = f.post
      /\ g.nearestPost = f.nearestPost /\ g.farthestPost = f.farthestPost
      /\ g.end = IF r.post # Null /\ r.at >= f.end THEN r.at ELSE f.end
  BY <1>1 DEF Farther, Frames
<1> HIDE DEF g
<1>4. PostsStand(tree, lists, L, g)
  BY <1>1, <1>3 DEF FrameInv, PostsStand, Posts
<1>5. ContainerInv(tree, lists, g)
  BY <1>1, <1>2, <1>3 DEF FrameInv, ContainerInv
<1>6. FrameInv(tree, lists, L, g)
  BY <1>1, <1>3, <1>4, <1>5 DEF FrameInv, OrInv, FirstInv, PassInv
<1> QED
  BY <1>6 DEF g

LEMMA LostKeeps ==
  ASSUME NEW L, NEW f \in Frames, FrameInv(tree, lists, L, f), Op(f) # "or"
  PROVE  FrameInv(tree, lists, L, Lost(f))
<1> DEFINE g == Lost(f)
<1>1. /\ g.n = f.n /\ g.target = f.target /\ g.step = "lost" /\ g.i = f.i /\ g.post = f.post
      /\ g.nearestPost = f.nearestPost /\ g.farthestPost = f.farthestPost /\ g.end = f.end
  BY DEF Lost, Frames
<1> HIDE DEF g
<1>2. PostsStand(tree, lists, L, g)
  BY <1>1 DEF FrameInv, PostsStand, Posts
<1>3. ContainerInv(tree, lists, g)
  BY <1>1 DEF FrameInv, ContainerInv
<1>4. OrInv(tree, lists, L, g) /\ FirstInv(tree, lists, L, g) /\ PassInv(tree, lists, L, g)
  BY <1>1 DEF OrInv, FirstInv, PassInv, Op
<1> QED
  BY <1>2, <1>3, <1>4 DEF FrameInv, g

LEMMA ContainedKeeps ==
  ASSUME NEW L, NEW f, NEW r, Taking(L, f, r), Op(f) = "container", f.step = "pass"
  PROVE  FrameInv(tree, lists, L, ContainedNext(f, r))
<1>1. f \in Frames /\ FrameInv(tree, lists, L, f) /\ tree[f.n].op = "container"
  BY DEF Taking, Op
<1>2. CASE r.post = Null
  BY <1>1, <1>2, LostKeeps DEF ContainedNext, Op
<1>3. CASE r.post # Null
  <2> DEFINE g == ContainedNext(f, r)
  <2>1. /\ f.target \in Nat /\ f.end \in Nat /\ r.at \in Nat /\ r.at <= LastEnd(lists)
        /\ r.post \in tree[f.n].under /\ Stands(tree, lists, L, r.post)
    BY <1>3, TakingFacts
  <2>2. /\ g.n = f.n /\ g.target = f.target /\ g.step = f.step
        /\ g.nearestPost = f.nearestPost /\ g.farthestPost = f.farthestPost
        /\ g.begin = f.begin /\ g.documentEnd = f.documentEnd /\ g.passEnd = f.passEnd
        /\ g.end = IF r.at >= f.end THEN r.at ELSE f.end
        /\ g.post \in {r.post, f.post}
    BY <1>1, <1>3 DEF ContainedNext, Frames
  <2>3. f.passEnd \in Nat
    BY <1>1, FrameFacts DEF Taking
  <2> HIDE DEF g
  <2>4. PostsStand(tree, lists, L, g)
    BY <1>1, <2>1, <2>2 DEF FrameInv, PostsStand, Posts
  <2>5. ContainerInv(tree, lists, g)
    BY <1>1, <2>1, <2>2, <2>3 DEF FrameInv, ContainerInv
  <2>6. OrInv(tree, lists, L, g) /\ FirstInv(tree, lists, L, g) /\ PassInv(tree, lists, L, g)
    BY <1>1, <2>2 DEF OrInv, FirstInv, PassInv
  <2> QED
    BY <2>4, <2>5, <2>6 DEF FrameInv, g
<1> QED
  BY <1>2, <1>3

LEMMA ExcludedKeeps ==
  ASSUME NEW L, NEW f, NEW r, Taking(L, f, r), Op(f) = "container", f.step = "pass"
  PROVE  /\ FrameInv(tree, lists, L, ExcludedNext(f, r))
         /\ ExcludedNext(f, r).target >= f.target
<1>1. f \in Frames /\ FrameInv(tree, lists, L, f) /\ tree[f.n].op = "container" /\ query \in DOMAIN Trees
  BY DEF Taking, Op
<1>2. f.target \in Nat /\ f.passEnd \in Nat /\ f.documentEnd \in Nat
  BY <1>1, FrameFacts
<1>3. Len(tree[f.n].terms) \in Nat
  BY TakingFacts
<1>4. CASE ExcludedNext(f, r) = Called(f.n, f.documentEnd + 1)
  <2>1. f.target <= f.passEnd /\ f.passEnd <= f.documentEnd
    BY <1>1 DEF FrameInv, ContainerInv
  <2>2. Called(f.n, f.documentEnd + 1).target = f.documentEnd + 1
    BY DEF Called
  <2>3. f.documentEnd + 1 \in Nat
    BY <1>2
  <2>4. FrameInv(tree, lists, L, Called(f.n, f.documentEnd + 1))
    BY <1>3, <2>3, CalledInv
  <2> QED
    BY <1>2, <1>4, <2>1, <2>2, <2>4
<1>5. CASE ExcludedNext(f, r) = [f EXCEPT !.i = @ + 1]
  <2> DEFINE g == [f EXCEPT !.i = @ + 1]
  <2>1. /\ g.n = f.n /\ g.target = f.target /\ g.step = f.step /\ g.post = f.post
        /\ g.nearestPost = f.nearestPost /\ g.farthestPost = f.farthestPost
        /\ g.begin = f.begin /\ g.documentEnd = f.documentEnd /\ g.passEnd = f.passEnd
        /\ g.end = f.end
    BY <1>1 DEF Frames
  <2> HIDE DEF g
  <2>2. FrameInv(tree, lists, L, g)
    BY <1>1, <2>1 DEF FrameInv, PostsStand, Posts, OrInv, ContainerInv, FirstInv, PassInv
  <2>3. g.target >= f.target
    BY <1>2, <2>1
  <2> QED
    BY <1>5, <2>2, <2>3 DEF g
<1> QED
  BY <1>4, <1>5 DEF ExcludedNext

LEMMA PhraseFirstKeeps ==
  ASSUME NEW L, NEW f, NEW r, Taking(L, f, r), Op(f) = "phrase", f.step = "first"
  PROVE  FrameInv(tree, lists, L, PhraseFirst(f, r))
<1> DEFINE terms == tree[f.n].terms
           g == PhraseFirst(f, r)
<1>1. f \in Frames /\ FrameInv(tree, lists, L, f) /\ tree[f.n].op = "phrase"
  BY DEF Taking, Op
<1>2. CASE r.post = Null
  BY <1>1, <1>2, LostKeeps DEF PhraseFirst, Op
<1>3. CASE r.post # Null
  <2>1. /\ Len(terms) \in Nat /\ f.i \in 1..Len(terms) /\ f.i \in Nat
        /\ f.target \in Nat /\ f.end \in Nat /\ r.at \in Nat
        /\ r.post = terms[f.i] /\ r.post \in tree[f.n].under
        /\ Stands(tree, lists, L, terms[f.i]) /\ r.at = L[terms[f.i]]
        /\ r.at >= TermTarget(f)
    BY <1>3, TakingFacts
  <2>2. TermTarget(f) = f.target
    BY DEF TermTarget
  <2>3. /\ f.target <= f.end
        /\ f.nearestPost = Null /\ f.farthestPost = Null
        /\ f.nearest = 1 /\ (f.farthest = 1 \/ f.farthest < f.i)
        /\ \A j \in 1..(f.i - 1) : Stands(tree, lists, L, terms[j]) /\ L[terms[j]] <= f.end
        /\ f.post # Null => L[f.post] >= f.target /\ \E j \in 1..(f.i - 1) : f.post = terms[j]
    BY <1>1 DEF FrameInv, FirstInv
  <2>4. /\ g.n = f.n /\ g.target = f.target /\ g.step = "first" /\ g.i = f.i + 1
        /\ g.nearestPost = f.nearestPost /\ g.farthestPost = f.farthestPost /\ g.nearest = f.nearest
        /\ IF r.at >= f.end THEN g.end = r.at /\ g.farthest = f.i /\ g.post = r.post
           ELSE g.end = f.end /\ g.farthest = f.farthest /\ g.post = f.post
    BY <1>1, <1>3 DEF PhraseFirst, Frames
  <2> HIDE DEF g, terms
  <2>5. \A j \in 1..(f.i - 1) : L[terms[j]] \in Nat
    BY <2>3, StandsFacts DEF Taking
  <2>6. \A j \in 1..(g.i - 1) : j \in 1..(f.i - 1) \/ j = f.i
    BY <2>1, <2>4
  <2>7. f.farthest \in Nat
    BY <1>1, FrameFacts DEF Taking
  <2>8. \A j \in 1..(g.i - 1) : Stands(tree, lists, L, terms[j]) /\ L[terms[j]] <= g.end
    BY <2>1, <2>3, <2>4, <2>5, <2>6, SMTT(30)
  <2>9. g.post # Null => L[g.post] >= f.target /\ \E j \in 1..(g.i - 1) : g.post = terms[j]
    <3>1. CASE r.at >= f.end
      <4>1. f.i \in 1..(g.i - 1)
        BY <2>1, <2>4
      <4> QED
        BY <2>1, <2>2, <2>4, <3>1, <4>1
    <3>2. CASE ~(r.at >= f.end)
      <4>1. \A j \in 1..(f.i - 1) : j \in 1..(g.i - 1)
        BY <2>1, <2>4
      <4> QED
        BY <2>3, <2>4, <3>2, <4>1
    <3> QED
      BY <3>1, <3>2
  <2>10. /\ g.target <= g.end /\ g.i <= Len(terms) + 1
         /\ g.farthest = 1 \/ g.farthest < g.i
    BY <2>1, <2>2, <2>3, <2>4, <2>7
  <2>11. FirstInv(tree, lists, L, g)
    BY <2>3, <2>4, <2>8, <2>9, <2>10 DEF FirstInv, terms
  <2>12. PostsStand(tree, lists, L, g)
    BY <1>1, <2>1, <2>4 DEF FrameInv, PostsStand, Posts
  <2>13. OrInv(tree, lists, L, g) /\ ContainerInv(tree, lists, g) /\ PassInv(tree, lists, L, g)
    BY <1>1, <2>4 DEF OrInv, ContainerInv, PassInv
  <2> QED
    BY <2>11, <2>12, <2>13 DEF FrameInv, g
<1> QED
  BY <1>2, <1>3

LEMMA PhraseNextKeeps ==
  ASSUME NEW L, NEW f, NEW r, Taking(L, f, r), Op(f) = "phrase", f.step = "pass"
  PROVE  FrameInv(tree, lists, L, PhraseNext(f, r))
<1> DEFINE terms == tree[f.n].terms
           g == PhraseNext(f, r)
           E0 == f.passEnd
           F0 == f.passFarthest
           there == r.at <= ExpectedLoc(f)
<1>1. f \in Frames /\ FrameInv(tree, lists, L, f) /\ tree[f.n].op = "phrase"
  BY DEF Taking, Op
<1>2. CASE r.post = Null
  BY <1>1, <1>2, LostKeeps DEF PhraseNext, Op
<1>3. CASE r.post # Null
  <2>1. /\ Len(terms) \in Nat /\ f.i \in 1..Len(terms) /\ f.i \in Nat
        /\ f.target \in Nat /\ f.end \in Nat /\ r.at \in Nat
        /\ r.post = terms[f.i] /\ r.post \in tree[f.n].under
        /\ Stands(tree, lists, L, terms[f.i]) /\ r.at = L[terms[f.i]]
        /\ r.at >= ExpectedLoc(f)
    <3>1. TermTarget(f) = ExpectedLoc(f)
      BY <1>1 DEF TermTarget, Op
    <3> QED
      BY <1>3, <3>1, TakingFacts
  <2>2. /\ E0 \in Nat /\ F0 \in Nat \ {0} /\ f.farthest \in Nat \ {0} /\ f.nearest \in Nat \ {0}
        /\ f.start \in Nat
    BY <1>1, FrameFacts DEF Taking
  <2>3. /\ f.target <= E0 /\ E0 <= f.end
        /\ F0 <= Len(terms) /\ f.farthest <= Len(terms) /\ f.nearest <= Len(terms)
        /\ IF f.i <= F0 + 1 THEN f.end = E0 /\ f.farthest = F0 ELSE f.farthest = f.i - 1
        /\ f.nearest < f.i => f.nearestPost = terms[f.nearest]
        /\ \A j \in 1..(f.i - 1) :
             /\ Stands(tree, lists, L, terms[j])
             /\ IF j <= F0 THEN L[terms[j]] = E0 - F0 + j ELSE L[terms[j]] >= E0
    <3>1. terms # << >>
      BY <2>1, SMTT(30)
    <3>2. f.found
      BY <1>1, <2>1, SMTT(30) DEF FrameInv, PassInv
    <3> QED
      BY <1>1, <3>1, <3>2 DEF FrameInv, PassInv
  <2>4. /\ ExpectedLoc(f) \in Int
        /\ f.i <= F0 => ExpectedLoc(f) = E0 - F0 + f.i
        /\ f.i > F0 => ExpectedLoc(f) >= f.end
    <3>1. f.i > F0 => f.i > f.farthest
      BY <2>1, <2>2, <2>3
    <3>2. f.i > F0 => ExpectedLoc(f) = f.end + (f.farthest - 1) + (f.i - 1)
      BY <2>1, <2>2, <3>1, SMTT(30) DEF ExpectedLoc
    <3>3. f.i <= F0 => f.farthest = F0 /\ f.end = E0
      BY <2>1, <2>2, <2>3
    <3>4. f.i <= F0 => ExpectedLoc(f) = E0 - F0 + f.i
      BY <3>3 DEF ExpectedLoc
    <3>5. ExpectedLoc(f) \in Int
      BY <2>1, <2>2, SMTT(30) DEF ExpectedLoc
    <3>6. f.i > F0 => ExpectedLoc(f) >= f.end
      BY <2>1, <2>2, <3>2, SMTT(30)
    <3> QED
      BY <3>4, <3>5, <3>6
  <2> DEFINE near == IF r.at <= f.start THEN f.i ELSE f.nearest
             far == IF r.at >= f.end THEN f.i ELSE f.farthest
  <2>5. /\ g.n = f.n /\ g.target = f.target /\ g.step = "pass"
        /\ g.passEnd = E0 /\ g.passFarthest = F0 /\ g.post = f.post
        /\ g.i = IF there THEN f.i + 1 ELSE Len(terms) + 1
        /\ g.nearest = near /\ g.farthest = far /\ (g.found <=> there)
        /\ g.end = IF r.at >= f.end THEN r.at ELSE f.end
        /\ g.nearestPost = IF there /\ f.i = near THEN r.post ELSE f.nearestPost
        /\ g.farthestPost \in {r.post, f.farthestPost}
    BY <1>1, <1>3, ZenonT(30) DEF PhraseNext, PhraseTakes, Frames, Terms
  <2> HIDE DEF g, terms, there
  <2>6. PostsStand(tree, lists, L, g)
    BY <1>1, <2>1, <2>5 DEF FrameInv, PostsStand, Posts
  <2>7. OrInv(tree, lists, L, g) /\ ContainerInv(tree, lists, g) /\ FirstInv(tree, lists, L, g)
    BY <1>1, <2>5 DEF OrInv, ContainerInv, FirstInv
  <2>8. /\ g.target <= E0 /\ E0 <= g.end /\ g.i <= Len(terms) + 1
        /\ g.farthest <= Len(terms) /\ g.nearest <= Len(terms)
    BY <2>1, <2>2, <2>3, <2>5, SMTT(30)
  <2>9. ASSUME g.found
        PROVE  /\ IF g.i <= F0 + 1 THEN g.end = E0 /\ g.farthest = F0 ELSE g.farthest = g.i - 1
               /\ g.nearest < g.i => g.nearestPost = terms[g.nearest]
               /\ \A j \in 1..(g.i - 1) :
                    /\ Stands(tree, lists, L, terms[j])
                    /\ IF j <= F0 THEN L[terms[j]] = E0 - F0 + j ELSE L[terms[j]] >= E0
    <3>1. there /\ g.i = f.i + 1 /\ r.at = ExpectedLoc(f)
      BY <2>1, <2>4, <2>5, <2>9 DEF there
    <3>2. IF g.i <= F0 + 1 THEN g.end = E0 /\ g.farthest = F0 ELSE g.farthest = g.i - 1
      <4>1. CASE f.i <= F0
        BY <2>1, <2>2, <2>3, <2>4, <2>5, <3>1, <4>1, SMTT(30)
      <4>2. CASE f.i > F0
        BY <2>1, <2>2, <2>3, <2>4, <2>5, <3>1, <4>2, SMTT(30)
      <4> QED
        BY <2>1, <2>2, <4>1, <4>2
    <3>3. g.nearest < g.i => g.nearestPost = terms[g.nearest]
      <4>1. CASE f.i = near
        BY <2>1, <2>5, <3>1, <4>1
      <4>2. CASE f.i # near
        BY <2>1, <2>2, <2>3, <2>5, <3>1, <4>2, SMTT(30)
      <4> QED
        BY <4>1, <4>2
    <3>4. /\ Stands(tree, lists, L, terms[f.i])
          /\ IF f.i <= F0 THEN L[terms[f.i]] = E0 - F0 + f.i ELSE L[terms[f.i]] >= E0
      BY <2>1, <2>2, <2>3, <2>4, <3>1
    <3>5. \A j \in 1..(g.i - 1) : j \in 1..(f.i - 1) \/ j = f.i
      BY <2>1, <3>1
    <3> QED
      BY <2>3, <3>2, <3>3, <3>4, <3>5
  <2>10. terms # << >> /\ (~g.found => g.i = Len(terms) + 1)
    BY <2>1, <2>5
  <2>11. PassInv(tree, lists, L, g)
    <3>1. g.passEnd = E0 /\ g.passFarthest = F0 /\ tree[g.n].terms = terms
      BY <2>5 DEF terms
    <3>2. F0 <= Len(terms)
      BY <2>3
    <3> HIDE DEF E0, F0
    <3> QED
      BY <2>8, <2>9, <2>10, <3>1, <3>2 DEF PassInv
  <2> QED
    BY <2>6, <2>7, <2>11 DEF FrameInv, g
<1> QED
  BY <1>2, <1>3

\* A Seek that goes on with its next term, or begins again.
LEMMA TakesKeeps ==
  ASSUME NEW L, NEW f, NEW r, Taking(L, f, r)
  PROVE  FrameInv(tree, lists, L, Takes(f, r)) /\ Takes(f, r).target >= f.target
<1>1. f \in Frames /\ Asks(f) /\ query \in DOMAIN Trees
  BY DEF Taking
<1>2. /\ Op(f) \in {"or", "phrase", "container"} /\ f.step \in {"first", "pass"}
      /\ f.i \in Nat /\ tree[f.n].contained \in Nat /\ f.target \in Nat
  BY <1>1, FrameFacts DEF Asks
<1>3. CASE Op(f) = "or"
  <2>1. OrTakes(f, r).target = f.target
    BY <1>1 DEF OrTakes, Frames
  <2> QED
    BY <1>2, <1>3, <2>1, OrTakesKeeps DEF Takes
<1>4. CASE Op(f) = "phrase" /\ f.step = "first"
  <2>1. PhraseFirst(f, r).target = f.target
    BY <1>1 DEF PhraseFirst, Lost, Frames
  <2> QED
    BY <1>2, <1>4, <2>1, PhraseFirstKeeps DEF Takes
<1>5. CASE Op(f) = "phrase" /\ f.step = "pass"
  <2>1. PhraseNext(f, r).target = f.target
    BY <1>1 DEF PhraseNext, PhraseTakes, Lost, Frames
  <2> QED
    BY <1>2, <1>5, <2>1, PhraseNextKeeps DEF Takes
<1>6. CASE Op(f) = "container" /\ f.step = "first"
  <2>1. Farther(f, r).target = f.target
    BY <1>1 DEF Farther, Frames
  <2> QED
    BY <1>2, <1>6, <2>1, FartherKeeps DEF Takes
<1>7. CASE Op(f) = "container" /\ f.step = "pass" /\ f.i <= tree[f.n].contained
  <2>1. ContainedNext(f, r).target = f.target
    BY <1>1 DEF ContainedNext, Lost, Frames
  <2> QED
    BY <1>2, <1>7, <2>1, ContainedKeeps DEF Takes
<1>8. CASE Op(f) = "container" /\ f.step = "pass" /\ f.i > tree[f.n].contained
  <2>1. ~(f.i <= tree[f.n].contained)
    BY <1>2, <1>8
  <2>2. Takes(f, r) = ExcludedNext(f, r)
    BY <1>8, <2>1 DEF Takes
  <2> QED
    BY <1>8, <2>2, ExcludedKeeps
<1>9. f.i <= tree[f.n].contained \/ f.i > tree[f.n].contained
  BY <1>2
<1> QED
  BY <1>2, <1>3, <1>4, <1>5, <1>6, <1>7, <1>8, <1>9

\* The next pass of a phrase.
LEMMA PhrasePassKeeps ==
  ASSUME query \in DOMAIN Trees, NEW L, NEW f \in Frames, FrameInv(tree, lists, L, f),
         Op(f) = "phrase", RoundDone(f)
  PROVE  FrameInv(tree, lists, L, PhrasePass(f))
<1> DEFINE g == PhrasePass(f)
           terms == tree[f.n].terms
<1>1. /\ Len(terms) \in Nat /\ f.i \in Nat /\ f.i > Len(terms) /\ f.step \in {"first", "pass"}
      /\ f.end \in Nat /\ f.target \in Nat /\ f.farthest \in Nat \ {0} /\ f.nearest \in Nat \ {0}
      /\ f.passEnd \in Nat
      /\ terms \in Seq(DOMAIN tree)
  BY FrameFacts DEF RoundDone, InRound, Terms, Op
<1>2. /\ g.n = f.n /\ g.target = f.target /\ g.step = "pass" /\ g.i = 1 /\ g.found = TRUE
      /\ g.end = f.end /\ g.passEnd = f.end /\ g.farthest = f.farthest /\ g.passFarthest = f.farthest
      /\ g.nearest = f.nearest /\ g.post = f.post
      /\ g.nearestPost = f.nearestPost /\ g.farthestPost = f.farthestPost
  BY DEF PhrasePass, Frames
<1> HIDE DEF g
<1>3. PostsStand(tree, lists, L, g) /\ Posts(g) = Posts(f)
  BY <1>2 DEF FrameInv, PostsStand, Posts
<1>4. /\ f.target <= f.end
      /\ terms # << >> => f.farthest <= Len(terms) /\ f.nearest <= Len(terms)
      /\ terms = << >> => Posts(f) = {}
  <2>1. CASE f.step = "first"
    <3>1. /\ f.target <= f.end /\ f.i <= Len(terms) + 1
          /\ f.nearestPost = Null /\ f.farthestPost = Null
          /\ f.nearest = 1 /\ (f.farthest = 1 \/ f.farthest < f.i)
          /\ f.post # Null => \E j \in 1..(f.i - 1) : f.post = terms[j]
      BY <2>1 DEF FrameInv, FirstInv, Op
    <3>2. terms # << >> => Len(terms) >= 1
      BY <1>1
    <3>3. terms # << >> => f.farthest <= Len(terms) /\ f.nearest <= Len(terms)
      BY <1>1, <3>1, <3>2
    <3>4. terms = << >> => f.post = Null
      BY <1>1, <3>1
    <3> QED
      BY <3>1, <3>3, <3>4 DEF Posts
  <2>2. CASE f.step = "pass"
    <3>1. /\ f.target <= f.passEnd /\ f.passEnd <= f.end
          /\ terms # << >> => f.farthest <= Len(terms) /\ f.nearest <= Len(terms)
          /\ terms = << >> => Posts(f) = {}
      BY <2>2 DEF FrameInv, PassInv, Op
    <3> QED
      BY <1>1, <3>1
  <2> QED
    BY <1>1, <2>1, <2>2
<1>5. PassInv(tree, lists, L, g)
  BY <1>1, <1>2, <1>3, <1>4 DEF PassInv
<1>6. OrInv(tree, lists, L, g) /\ ContainerInv(tree, lists, g) /\ FirstInv(tree, lists, L, g)
  BY <1>2 DEF OrInv, ContainerInv, FirstInv, Op
<1> QED
  BY <1>3, <1>5, <1>6 DEF FrameInv, g

\* The next pass of a container.
LEMMA ContainerPassKeeps ==
  ASSUME TypeOK, NEW L, NEW f \in Frames, FrameInv(tree, lists, L, f), Op(f) = "container",
         NEW d, d = SeekEnd(f.end), ~d.offEnd
  PROVE  FrameInv(tree, lists, L, ContainerPass(f, d))
<1> DEFINE g == ContainerPass(f, d)
           ends == lists[End]
           j == EndPost(ends, f.end)
<1>1. lists \in Chunks /\ query \in DOMAIN Trees
  BY DEF TypeOK
<1>2. f.end \in Nat /\ f.target \in Nat /\ f.target <= f.end /\ (f.end = f.target \/ f.end <= LastEnd(lists))
  BY <1>1, FrameFacts DEF FrameInv, ContainerInv, Op
<1>3. /\ DOMAIN ends = 1..Len(ends) /\ Len(ends) \in Nat
      /\ \A k \in 1..Len(ends) : ends[k] \in Nat /\ ends[k] <= LastEnd(lists)
      /\ \A k, m \in 1..Len(ends) : k < m => ends[k] < ends[m]
      /\ LastEnd(lists) \in Nat
  BY <1>1, EndFacts, ListFacts, LastEndFacts
<1>4. /\ j \in 1..Len(ends) /\ d.endLocation = ends[j]
      /\ d.prevLoc = IF j = 1 THEN 0 ELSE ends[j - 1]
  <2>1. f.end \in Int
    BY <1>2
  <2> HIDE DEF j, ends
  <2>2. /\ d.offEnd <=> j = 0
        /\ ~d.offEnd => /\ j \in DOMAIN ends /\ d.endLocation = ends[j]
                        /\ d.prevLoc = IF j = 1 THEN 0 ELSE ends[j - 1]
    BY <1>1, <2>1, SeekEndFacts DEF TypeOK, j, ends
  <2> QED
    BY <1>3, <2>2
<1>5. ends[j] >= f.end
  <2>1. f.end \in Int /\ j # 0
    BY <1>2, <1>3, <1>4
  <2> QED
    BY <1>1, <2>1, EndPostFacts
<1> HIDE DEF j, ends
<1>6. d.prevLoc \in Nat /\ d.prevLoc <= LastEnd(lists)
  BY <1>3, <1>4
<1>7. ASSUME NEW k \in DOMAIN ends, ends[k] < f.target PROVE ends[k] <= d.prevLoc
  <2>1. ends[k] < ends[j] /\ k \in 1..Len(ends) /\ ends[k] \in Nat /\ ends[j] \in Nat
    BY <1>2, <1>3, <1>4, <1>5, <1>7
  <2>2. ~(j < k) /\ j # k
    BY <1>3, <1>4, <2>1
  <2>3. k <= j - 1 /\ j # 1 /\ j - 1 \in 1..Len(ends)
    BY <1>3, <1>4, <2>1, <2>2
  <2>4. k = j - 1 \/ k < j - 1
    BY <1>3, <1>4, <2>1, <2>3
  <2> QED
    BY <1>3, <1>4, <2>1, <2>3, <2>4
<1>8. /\ g.n = f.n /\ g.target = f.target /\ g.step = "pass" /\ g.end = f.end /\ g.passEnd = f.end
      /\ g.begin = d.prevLoc /\ g.documentEnd = d.endLocation /\ g.post = f.post
      /\ g.nearestPost = f.nearestPost /\ g.farthestPost = f.farthestPost
  BY DEF ContainerPass, Frames
<1> HIDE DEF g
<1>9. PostsStand(tree, lists, L, g)
  BY <1>8 DEF FrameInv, PostsStand, Posts
<1>10. NotBefore(lists, g.begin, g.target)
  BY <1>7, <1>8 DEF NotBefore, ends
<1>11. f.end <= ends[j] /\ ends[j] <= LastEnd(lists)
  BY <1>2, <1>3, <1>4, <1>5
<1>12. ContainerInv(tree, lists, g)
  BY <1>2, <1>4, <1>6, <1>8, <1>10, <1>11 DEF ContainerInv
<1>13. OrInv(tree, lists, L, g) /\ FirstInv(tree, lists, L, g) /\ PassInv(tree, lists, L, g)
  BY <1>8 DEF OrInv, FirstInv, PassInv, Op
<1> QED
  BY <1>9, <1>12, <1>13 DEF FrameInv, g

\* The post a phrase returns: the terms that stand side by side with it up to
\* the farthest are tokens, hence no document ends between them.
LEMMA PhraseFinds ==
  ASSUME TypeOK, NEW f \in Frames, FrameInv(tree, lists, loc, f), Op(f) = "phrase",
         f.step = "pass", RoundDone(f), f.found, PostOf(f) # Null
  PROVE  NotBefore(lists, loc[PostOf(f)], f.target)
<1> DEFINE terms == tree[f.n].terms
           E0 == f.passEnd
           F0 == f.passFarthest
           m == f.nearest
           p == loc[terms[m]]
<1>1. lists \in Chunks /\ query \in DOMAIN Trees
  BY DEF TypeOK
<1>2. /\ Len(terms) \in Nat /\ f.i \in Nat /\ f.i > Len(terms)
      /\ f.target \in Nat /\ f.farthest \in Nat \ {0} /\ m \in Nat \ {0}
      /\ E0 \in Nat /\ F0 \in Nat \ {0}
  BY <1>1, FrameFacts DEF RoundDone, InRound, Terms, Op
<1>3. /\ f.target <= E0 /\ f.i <= Len(terms) + 1
      /\ terms # << >> => F0 <= Len(terms) /\ f.farthest <= Len(terms) /\ m <= Len(terms)
      /\ terms = << >> => Posts(f) = {}
      /\ IF f.i <= F0 + 1 THEN f.end = E0 /\ f.farthest = F0 ELSE f.farthest = f.i - 1
      /\ m < f.i => f.nearestPost = terms[m]
      /\ \A j \in 1..(f.i - 1) :
           /\ Stands(tree, lists, loc, terms[j])
           /\ IF j <= F0 THEN loc[terms[j]] = E0 - F0 + j ELSE loc[terms[j]] >= E0
  BY DEF FrameInv, PassInv, Op
<1>4. PostOf(f) = IF f.farthest < m THEN f.farthestPost ELSE f.nearestPost
  BY DEF PostOf
<1>5. terms # << >>
  BY <1>3, <1>4 DEF Posts
<1> HIDE DEF terms, E0, F0, m
<1>6. f.i = Len(terms) + 1 /\ f.farthest = Len(terms) /\ m \in 1..Len(terms)
  <2>1. f.i = Len(terms) + 1
    BY <1>2, <1>3
  <2>2. F0 <= Len(terms) /\ m <= Len(terms)
    BY <1>3, <1>5
  <2>3. IF f.i <= F0 + 1 THEN f.farthest = F0 ELSE f.farthest = f.i - 1
    BY <1>3
  <2> QED
    BY <1>2, <2>1, <2>2, <2>3
<1>7. PostOf(f) = terms[m]
  BY <1>2, <1>3, <1>4, <1>6
<1>8. \A j \in 1..Len(terms) :
        /\ Stands(tree, lists, loc, terms[j])
        /\ IF j <= F0 THEN loc[terms[j]] = E0 - F0 + j ELSE loc[terms[j]] >= E0
  BY <1>2, <1>3, <1>6
<1>9. p \in Nat
  BY <1>1, <1>6, <1>8, StandsFacts
<1>10. ASSUME NEW d \in DOMAIN lists[End], lists[End][d] < f.target PROVE lists[End][d] <= p
  <2> DEFINE e == lists[End][d]
  <2>1. e \in Nat /\ e < f.target
    BY <1>1, <1>10, EndFacts, ListFacts
  <2> HIDE DEF e, p
  <2>2. CASE m > F0
    <3>1. p >= E0
      BY <1>2, <1>6, <1>8, <2>2 DEF p
    <3> QED
      BY <1>2, <1>3, <1>9, <2>1, <3>1 DEF e
  <2>3. CASE m <= F0
    <3>1. p = E0 - F0 + m
      BY <1>6, <1>8, <2>3 DEF p
    <3>2. SUFFICES ASSUME e > p PROVE FALSE
      BY <1>9, <2>1 DEF e
    <3> DEFINE k == e - E0 + F0
    <3>3. k \in 1..Len(terms) /\ k <= F0 /\ E0 - F0 + k = e
      BY <1>2, <1>3, <1>5, <1>6, <2>1, <2>3, <3>1, <3>2
    <3> HIDE DEF k
    <3>4. loc[terms[k]] = e /\ Stands(tree, lists, loc, terms[k])
      BY <1>8, <3>3
    <3> QED
      BY <1>1, <1>10, <3>4, StandsFacts DEF e
  <2> QED
    BY <1>2, <2>2, <2>3 DEF e
<1> QED
  BY <1>7, <1>10 DEF NotBefore, p

\* What a Seek that is finished returns.
LEMMA ResultFinds ==
  ASSUME TypeOK, NEW f \in Frames, FrameInv(tree, lists, loc, f), Finished(f),
         NEW start \in 0..Highest
  PROVE  Finds(tree, lists, loc, f.n, f.target, ResultOf(f, start))
<1> DEFINE p == PostOf(f)
<1>1. lists \in Chunks /\ query \in DOMAIN Trees
  BY DEF TypeOK
<1>2. f.n \in DOMAIN tree /\ tree[f.n].op # "word" /\ f.target \in Nat /\ f.begin \in Nat
      /\ Op(f) \in {"or", "phrase", "container"}
  BY <1>1, FrameFacts DEF Op
<1>3. SUFFICES ASSUME p # Null PROVE Stands(tree, lists, loc, p) /\ p \in tree[f.n].under
                                     /\ NotBefore(lists, loc[p], f.target)
  BY <1>2 DEF Finds, ResultOf, Result
<1>4. f.step # "lost" /\ RoundDone(f)
  BY <1>3 DEF PostOf, Finished
<1>5. p \in Posts(f)
  BY <1>3 DEF PostOf, Posts
<1>6. Stands(tree, lists, loc, p) /\ p \in tree[f.n].under
  BY <1>5 DEF FrameInv, PostsStand
<1>7. loc[p] \in Nat
  BY <1>1, <1>6, StandsFacts
<1>8. NotBefore(lists, loc[p], f.target)
  <2>1. CASE Op(f) = "or"
    BY <1>3, <1>4, <2>1 DEF PostOf, FrameInv, OrInv, Op
  <2>2. CASE Op(f) = "phrase" /\ f.step = "pass"
    BY <1>3, <1>4, <2>2, PhraseFinds DEF Finished
  <2>3. CASE Op(f) = "phrase" /\ f.step # "pass"
    <3>1. f.step = "first"
      BY <1>1, <1>4, <2>3, FrameFacts
    <3>2. p = f.post
      BY <2>3, <3>1 DEF PostOf
    <3>3. loc[p] >= f.target
      BY <1>3, <2>3, <3>1, <3>2 DEF FrameInv, FirstInv, Op
    <3> QED
      BY <1>1, <1>2, <1>7, <3>3, NotBeforeFacts
  <2>4. CASE Op(f) = "container"
    <3>1. f.step = "pass"
      BY <1>4, <2>4 DEF Finished
    <3>2. p = f.post /\ ~(loc[p] < f.begin)
      BY <1>3, <2>4, <3>1 DEF PostOf
    <3>3. NotBefore(lists, f.begin, f.target)
      BY <2>4, <3>1 DEF FrameInv, ContainerInv, Op
    <3> QED
      BY <1>1, <1>2, <1>7, <3>2, <3>3, NotBeforeFacts
  <2> QED
    BY <1>2, <2>1, <2>2, <2>3, <2>4
<1> QED
  BY <1>6, <1>8

-----------------------------------------------------------------------------
(* The stack *)

\* From where f has its current term sought, if that has terms itself.
Asked(T, f) == IF T[f.n].op = "container" /\ f.step = "pass" THEN f.begin ELSE f.target

\* Every Seek is for what the one below it asked, or for what is behind that,
\* and is of a reader under its current term.
Shape(T, s) ==
  /\ \A k \in 1..(Len(s) - 1) : Asked(T, s[k]) <= s[k + 1].target
  /\ \A m \in 1..Len(s) : \A k \in 1..(m - 1) : T[s[m].n].under \subseteq T[T[s[k].n].terms[s[k].i]].under

FramesInv(T, S, L, s) == \A k \in 1..Len(s) : FrameInv(T, S, L, s[k])

LEMMA AskedFacts ==
  ASSUME query \in DOMAIN Trees, NEW f \in Frames
  PROVE  /\ Asked(tree, f) \in Nat
         /\ Op(f) # "phrase" => TermTarget(f) = Asked(tree, f)
<1>1. f.begin \in Nat /\ f.target \in Nat /\ Op(f) \in {"or", "phrase", "container"}
  BY FrameFacts, SMTT(30)
<1> QED
  BY <1>1 DEF Asked, TermTarget, Op

LEMMA ShapeReplaced ==
  ASSUME query \in DOMAIN Trees, NEW s \in Seq(Frames), NEW s2 \in Seq(Frames), Shape(tree, s),
         Replaced(s, s2),
         Len(s2) > 0 => s2[Len(s2)].target >= s[Len(s2)].target
  PROVE  Shape(tree, s2)
<1>1. /\ Len(s) \in Nat /\ Len(s2) \in Nat /\ Len(s2) <= Len(s)
      /\ \A k \in 1..Len(s) : s[k] \in Frames
      /\ \A k \in 1..Len(s2) : s2[k] \in Frames
      /\ \A k \in 1..(Len(s2) - 1) : s2[k] = s[k]
      /\ Len(s2) > 0 => s2[Len(s2)].n = s[Len(s2)].n
  BY DEF Replaced
<1>2. \A k \in 1..Len(s2) : /\ s2[k].n = s[k].n /\ s2[k].target >= s[k].target
                            /\ s2[k].target \in Nat /\ s[k].target \in Nat
  <2>1. SUFFICES ASSUME NEW k \in 1..Len(s2)
                 PROVE  /\ s2[k].n = s[k].n /\ s2[k].target >= s[k].target
                        /\ s2[k].target \in Nat /\ s[k].target \in Nat
    OBVIOUS
  <2>2. s2[k].target \in Nat /\ s[k].target \in Nat
    <3>1. s2[k] \in Frames /\ s[k] \in Frames
      BY <1>1
    <3> QED
      BY <3>1, FrameFacts
  <2>3. CASE k = Len(s2)
    BY <1>1, <2>2, <2>3
  <2>4. CASE k # Len(s2)
    <3>1. k \in 1..(Len(s2) - 1)
      BY <1>1, <2>4
    <3> QED
      BY <1>1, <2>2, <3>1
  <2> QED
    BY <2>3, <2>4
<1>3. ASSUME NEW k \in 1..(Len(s2) - 1) PROVE Asked(tree, s2[k]) <= s2[k + 1].target
  <2>1. /\ k \in 1..(Len(s) - 1) /\ s2[k] = s[k] /\ k + 1 \in 1..Len(s2) /\ s[k] \in Frames
    BY <1>1, SMTT(30)
  <2>2. Asked(tree, s[k]) <= s[k + 1].target
    BY <2>1 DEF Shape
  <2>3. Asked(tree, s[k]) \in Nat
    BY <2>1, AskedFacts, SMTT(30)
  <2> QED
    BY <1>2, <2>1, <2>2, <2>3
<1>4. ASSUME NEW m \in 1..Len(s2), NEW k \in 1..(m - 1)
      PROVE  tree[s2[m].n].under \subseteq tree[tree[s2[k].n].terms[s2[k].i]].under
  <2>1. m \in 1..Len(s) /\ k \in 1..(Len(s2) - 1)
    BY <1>1
  <2>2. s2[m].n = s[m].n /\ s2[k] = s[k]
    BY <1>1, <1>2, <2>1
  <2> QED
    BY <2>1, <2>2 DEF Shape
<1> QED
  BY <1>3, <1>4 DEF Shape

LEMMA ShapePushed ==
  ASSUME query \in DOMAIN Trees, NEW s \in Seq(Frames), s # << >>, Shape(tree, s),
         NEW f \in Frames, f = Last(s), Asks(f), Op(f) # "phrase"
  PROVE  Shape(tree, Append(s, Called(Term(f), TermTarget(f))))
<1> DEFINE g == Called(Term(f), TermTarget(f))
           s2 == Append(s, g)
           n == Len(s)
<1>1. /\ n \in Nat \ {0} /\ f = s[n] /\ \A k \in 1..n : s[k] \in Frames
  BY TopFacts
<1>2. Len(s2) = n + 1 /\ s2[n + 1] = g /\ \A k \in 1..n : s2[k] = s[k]
  OBVIOUS
<1>3. g.n = Term(f) /\ g.target = Asked(tree, f) /\ Asked(tree, f) \in Nat
  BY AskedFacts DEF Called
<1>4. /\ f.n \in DOMAIN tree /\ Term(f) = tree[f.n].terms[f.i]
      /\ tree[Term(f)].under \subseteq tree[f.n].under
  <2>1. /\ f.n \in DOMAIN tree /\ Term(f) = tree[f.n].terms[f.i] /\ f.i \in 1..Len(tree[f.n].terms)
    BY FrameFacts, TermFacts DEF Terms
  <2> QED
    BY <2>1, UnderFacts
<1> HIDE DEF g, s2, n
<1>5. ASSUME NEW k \in 1..(Len(s2) - 1) PROVE Asked(tree, s2[k]) <= s2[k + 1].target
  <2>1. k \in 1..n
    BY <1>1, <1>2
  <2>2. CASE k = n
    BY <1>1, <1>2, <1>3, <2>1, <2>2
  <2>3. CASE k # n
    <3>1. k \in 1..(n - 1) /\ k + 1 \in 1..n
      BY <1>1, <2>1, <2>3, SMTT(30)
    <3> QED
      BY <1>2, <2>1, <3>1 DEF Shape, n
  <2> QED
    BY <2>2, <2>3
<1>6. ASSUME NEW m \in 1..Len(s2), NEW k \in 1..(m - 1)
      PROVE  tree[s2[m].n].under \subseteq tree[tree[s2[k].n].terms[s2[k].i]].under
  <2>1. k \in 1..n /\ s2[k] = s[k]
    BY <1>1, <1>2, SMTT(30)
  <2>2. CASE m = n + 1 /\ k = n
    BY <1>1, <1>2, <1>3, <1>4, <2>1, <2>2, SMTT(30)
  <2>3. CASE m = n + 1 /\ k # n
    <3>1. k \in 1..(n - 1) /\ n \in 1..n
      BY <1>1, <2>1, <2>3, SMTT(30)
    <3>2. tree[f.n].under \subseteq tree[tree[s[k].n].terms[s[k].i]].under
      BY <1>1, <3>1, SMTT(30) DEF Shape, n
    <3> QED
      BY <1>2, <1>3, <1>4, <2>1, <2>3, <3>2
  <2>4. CASE m # n + 1
    <3>1. m \in 1..n
      BY <1>1, <1>2, <2>4
    <3> QED
      BY <1>2, <2>1, <3>1 DEF Shape, n
  <2> QED
    BY <2>2, <2>3, <2>4
<1> QED
  BY <1>5, <1>6 DEF Shape, s2, g

\* The current word of the Seek on top is under no term that a Seek has been
\* through.
LEMMA WordMovesAside ==
  ASSUME TypeOK, Calling(tree, stack), Shape(tree, stack), stack # << >>, Asks(Top), NEW n \in Words,
         n = Term(Top), NEW k \in 1..Len(stack)
  PROVE  /\ stack[k] \in Frames /\ stack[k].i \in 1..Len(Terms(stack[k]))
         /\ \A j \in 1..(stack[k].i - 1) : n \notin tree[Terms(stack[k])[j]].under
<1>1. query \in DOMAIN Trees /\ stack \in Seq(Frames)
  BY DEF TypeOK
<1>2. /\ Len(stack) \in Nat \ {0} /\ \A m \in 1..Len(stack) : stack[m] \in Frames
      /\ Top = stack[Len(stack)] /\ Top \in Frames
  BY <1>1, TopFacts DEF Top
<1> DEFINE f == stack[k]
<1>3. f \in Frames
  BY <1>2
<1>4. f.i \in 1..Len(Terms(f)) /\ n \in tree[Terms(f)[f.i]].under /\ f.n \in DOMAIN tree
  <2>0. n \in tree[n].under /\ n = tree[Top.n].terms[Top.i] /\ Top.n \in DOMAIN tree
        /\ Top.i \in 1..Len(tree[Top.n].terms)
    BY <1>1, <1>2, TermFacts, FrameFacts, UnderFacts, ZenonT(30) DEF Words, Terms
  <2>1. CASE k = Len(stack)
    BY <1>1, <1>2, <2>0, <2>1, FrameFacts DEF Terms
  <2>2. CASE k # Len(stack)
    <3>1. k \in 1..(Len(stack) - 1) /\ Len(stack) \in 1..Len(stack)
      BY <1>2, <2>2
    <3>2. tree[Top.n].under \subseteq tree[tree[f.n].terms[f.i]].under
      BY <1>2, <3>1, SMTT(30) DEF Shape
    <3>3. n \in tree[Top.n].under
      BY <1>1, <2>0, UnderFacts
    <3>4. f.i \in DOMAIN tree[f.n].terms
      BY <3>1 DEF Calling, Calls
    <3> QED
      BY <1>1, <1>3, <3>2, <3>3, <3>4, FrameFacts DEF Terms
  <2> QED
    BY <2>1, <2>2
<1> HIDE DEF f
<1>5. ASSUME NEW j \in 1..(f.i - 1) PROVE n \notin tree[Terms(f)[j]].under
  <2>1. j # f.i /\ j \in 1..Len(Terms(f))
    BY <1>4, <1>5
  <2>2. tree[Terms(f)[j]].under \cap tree[Terms(f)[f.i]].under = {}
    BY <1>1, <1>4, <2>1, UnderFacts, ZenonT(30) DEF Terms
  <2> QED
    BY <1>4, <2>2
<1> QED
  BY <1>3, <1>4, <1>5 DEF f

\* When it moves, what holds of the Seeks still does.
LEMMA WordMovesKeep ==
  ASSUME TypeOK, Calling(tree, stack), FramesInv(tree, lists, loc, stack), Shape(tree, stack),
         stack # << >>, Asks(Top), NEW n \in Words, n = Term(Top),
         NEW L, Stands(tree, lists, L, n), \A p \in Words : p # n => L[p] = loc[p]
  PROVE  FramesInv(tree, lists, L, stack)
<1>1. query \in DOMAIN Trees
  BY DEF TypeOK
<1>2. ASSUME NEW p, Stands(tree, lists, loc, p) PROVE Stands(tree, lists, L, p)
  <2>1. p \in Words
    BY <1>2 DEF Stands, Words
  <2>2. CASE p = n
    BY <2>2
  <2>3. CASE p # n
    <3>1. L[p] = loc[p]
      BY <2>1, <2>3
    <3> QED
      BY <1>2, <3>1 DEF Stands
  <2> QED
    BY <2>2, <2>3
<1>3. SUFFICES ASSUME NEW k \in 1..Len(stack) PROVE FrameInv(tree, lists, L, stack[k])
  BY DEF FramesInv
<1> DEFINE f == stack[k]
<1>4. f \in Frames /\ FrameInv(tree, lists, loc, f)
  BY WordMovesAside DEF FramesInv
<1>5. ASSUME NEW j \in 1..(f.i - 1), j <= Len(Terms(f)), NEW p \in tree[Terms(f)[j]].under, p \in Words
      PROVE  L[p] = loc[p]
  <2>1. p # n
    BY <1>5, WordMovesAside
  <2> QED
    BY <1>5, <2>1
<1> HIDE DEF f
<1> QED
  BY <1>1, <1>2, <1>4, <1>5, MovesKeep DEF f

\* The Seeks and their readers.
SeeksInv(T, S, L, s) == FramesInv(T, S, L, s) /\ Shape(T, s)

\* The root's Seek goes on, for the same target or for a later one.
RootGoesOn == stack' # << >> /\ stack'[1].target >= stack[1].target

LEMMA TopReplaced ==
  ASSUME TypeOK, SeeksInv(tree, lists, loc, stack), stack # << >>, NEW L,
         FramesInv(tree, lists, L, stack), NEW f \in Frames, TopBecomes(f),
         f.n = Top.n, f.target >= Top.target, FrameInv(tree, lists, L, f)
  PROVE  SeeksInv(tree, lists, L, stack') /\ RootGoesOn
<1>1. stack \in Seq(Frames) /\ query \in DOMAIN Trees
  BY DEF TypeOK
<1>2. Len(stack) \in Nat \ {0} /\ Top = stack[Len(stack)]
  BY <1>1, TopFacts DEF Top
<1>3. /\ stack' \in Seq(Frames) /\ Len(stack') = Len(stack) /\ stack'[Len(stack)] = f
      /\ \A k \in 1..(Len(stack) - 1) : stack'[k] = stack[k]
  BY <1>1, TopBecomesTyped
<1>4. Replaced(stack, stack')
  BY <1>1, ReplacedTop
<1>5. Shape(tree, stack')
  BY <1>1, <1>2, <1>3, <1>4, ShapeReplaced DEF SeeksInv
<1>6. ASSUME NEW k \in 1..Len(stack') PROVE FrameInv(tree, lists, L, stack'[k])
  <2>1. CASE k = Len(stack)
    BY <1>3, <2>1
  <2>2. CASE k # Len(stack)
    <3>1. k \in 1..(Len(stack) - 1) /\ k \in 1..Len(stack)
      BY <1>2, <1>3, <2>2
    <3> QED
      BY <1>3, <3>1 DEF FramesInv
  <2> QED
    BY <2>1, <2>2
<1>7. RootGoesOn
  <2>1. stack' # << >> /\ stack[1] \in Frames
    BY <1>1, <1>2, <1>3, TopFacts
  <2>2. stack[1].target \in Int
    BY <1>1, <2>1, FrameFacts
  <2>3. CASE Len(stack) = 1
    BY <1>2, <1>3, <2>1, <2>3 DEF RootGoesOn
  <2>4. CASE Len(stack) # 1
    <3>1. stack'[1] = stack[1]
      BY <1>2, <1>3, <2>4
    <3> QED
      BY <2>1, <2>2, <3>1 DEF RootGoesOn
  <2> QED
    BY <2>3, <2>4
<1> QED
  BY <1>5, <1>6, <1>7 DEF SeeksInv, FramesInv

LEMMA SeeksNextDocument ==
  ASSUME TypeOK, NextDocument
  PROVE  SeeksInv(tree, lists, loc, stack')
<1>1. NextTarget \in Nat
  BY HighestFacts DEF TypeOK, NextTarget, Locations
<1>2. Root \in DOMAIN tree /\ query \in DOMAIN Trees
  BY TreeFacts DEF TypeOK, IsTree
<1>3. Len(tree[Root].terms) \in Nat
  BY <1>2, TermsFacts
<1> DEFINE f == Called(Root, NextTarget)
<1>4. FrameInv(tree, lists, loc, f)
  BY <1>1, <1>3, CalledInv
<1>5. stack' = <<f>>
  BY DEF NextDocument
<1> HIDE DEF f
<1>6. Len(stack') = 1 /\ stack'[1] = f
  BY <1>5
<1> QED
  BY <1>4, <1>6 DEF SeeksInv, FramesInv, Shape

LEMMA SeeksSeekTerm ==
  ASSUME TypeOK, Calling(tree, stack), SeeksInv(tree, lists, loc, stack), SeekTerm
  PROVE  SeeksInv(tree, lists, loc', stack') /\ RootGoesOn
<1> DEFINE n == Term(Top)
           l == TermTarget(Top)
<1>1. stack # << >> /\ stack \in Seq(Frames) /\ query \in DOMAIN Trees /\ lists \in Chunks
  BY DEF TypeOK, SeekTerm, Searching
<1>2. Top \in Frames /\ Asks(Top) /\ Top = stack[Len(stack)] /\ Top = Last(stack) /\ Len(stack) \in Nat \ {0}
  BY <1>1, TopFacts DEF Top, SeekTerm
<1>3. n \in DOMAIN tree /\ (Op(Top) # "phrase" => l \in 0..Highest) /\ (Op(Top) = "phrase" => n \in Words)
      /\ l \in Int
  BY <1>1, <1>2, TermFacts
<1>4. Len(stack) \in 1..Len(stack)
  BY <1>2
<1>9. stack[1].target \in Int
  BY <1>1, TopFacts, FrameFacts
<1> HIDE DEF n, l
<1>5. ASSUME NEW L, NEW r \in Results, FramesInv(tree, lists, L, stack), Finds(tree, lists, L, n, l, r),
             TopBecomes(Takes(Top, r))
      PROVE  SeeksInv(tree, lists, L, stack') /\ RootGoesOn
  <2>1. FrameInv(tree, lists, L, Top)
    BY <1>2, <1>4, <1>5 DEF FramesInv
  <2>2. Taking(L, Top, r)
    BY <1>1, <1>2, <1>5, <2>1 DEF Taking, n, l
  <2>3. FrameInv(tree, lists, L, Takes(Top, r)) /\ Takes(Top, r).target >= Top.target
    BY <2>2, TakesKeeps
  <2>4. Takes(Top, r) \in Frames /\ Takes(Top, r).n = Top.n
    BY <1>1, <1>2, TakesTyped, TakesReader
  <2> QED
    BY <1>1, <1>5, <2>3, <2>4, TopReplaced
<1>6. CASE SeekTermWord(n, l)
  <2>1. n \in Words
    BY <1>3, <1>6 DEF SeekTermWord, Words
  <2>2. CASE loc' = loc /\ TopBecomes(Takes(Top, Result(Null, 0, 0)))
    <3>1. Result(Null, 0, 0) \in Results /\ Finds(tree, lists, loc, n, l, Result(Null, 0, 0))
      BY HighestFacts DEF Results, Result, Locations, Finds
    <3> QED
      BY <1>5, <2>2, <3>1 DEF SeeksInv
  <2>3. ASSUME NEW at, at = SeekWord(lists[tree[n].key], l), tree[n].key \in DOMAIN lists,
               loc' = [loc EXCEPT ![n] = at],
               TopBecomes(Takes(Top, Result(IF at < l THEN Null ELSE n, at, at)))
        PROVE  SeeksInv(tree, lists, loc', stack') /\ RootGoesOn
    <3> DEFINE r == Result(IF at < l THEN Null ELSE n, at, at)
               L == [loc EXCEPT ![n] = at]
    <3>1. at \in Locations /\ at \in 0..Highest
      BY <1>1, <2>3, WordPostFacts, HighestFacts DEF Locations
    <3>2. r \in Results
      BY <2>1, <3>1 DEF Results, Result
    <3>4. loc' = L /\ TopBecomes(Takes(Top, r))
      BY <2>3
    <3>7. L = [loc EXCEPT ![n] = at] /\ r = Result(IF at < l THEN Null ELSE n, at, at)
      OBVIOUS
    <3>8. L \in [Words -> Locations]
      BY <2>1, <3>1 DEF TypeOK
    <3> HIDE DEF L, r
    <3>3. /\ Stands(tree, lists, L, n) /\ Finds(tree, lists, L, n, l, r)
          /\ \A p \in Words : p # n => L[p] = loc[p]
      <4>1. l \in Int /\ tree[n].key \in DOMAIN lists /\ at = SeekWord(lists[tree[n].key], l)
        BY <1>3, <2>3
      <4>2. Finds(tree, lists, L, n, l, Result(IF at < l THEN Null ELSE n, at, at))
            /\ Stands(tree, lists, L, n) /\ \A p \in Words : p # n => L[p] = loc[p]
        BY <2>1, <3>1, <3>7, <3>8, <4>1, WordFinds
      <4> QED
        BY <3>7, <4>2
    <3>5. FramesInv(tree, lists, L, stack)
      BY <1>1, <1>2, <2>1, <3>3, WordMovesKeep DEF SeeksInv, n
    <3>6. SeeksInv(tree, lists, L, stack') /\ RootGoesOn
      BY <1>5, <3>2, <3>3, <3>4, <3>5
    <3> QED
      BY <3>4, <3>6
  <2>4. CASE UNCHANGED <<loc, stack>>
    <3>1. RootGoesOn
      BY <1>1, <1>9, <2>4 DEF RootGoesOn
    <3> QED
      BY <2>4, <3>1
  <2> QED
    BY <1>6, <2>2, <2>3, <2>4 DEF SeekTermWord
<1>7. CASE SeekTermBelow(n, l)
  <2> DEFINE f == Called(n, l)
  <2>1. Op(Top) # "phrase" /\ l \in Nat
    BY <1>3, <1>7, HighestFacts DEF SeekTermBelow, Words
  <2>2. Len(tree[n].terms) \in Nat
    BY <1>1, <1>3, TermsFacts
  <2>3. FrameInv(tree, lists, loc, f)
    BY <2>1, <2>2, CalledInv
  <2>4. stack' = Append(stack, f) /\ loc' = loc
    BY <1>7 DEF SeekTermBelow
  <2>5. Shape(tree, stack')
    BY <1>1, <1>2, <2>1, <2>4, ShapePushed DEF SeeksInv, n, l
  <2> HIDE DEF f
  <2>6. /\ Len(stack') = Len(stack) + 1 /\ stack'[Len(stack) + 1] = f
        /\ \A k \in 1..Len(stack) : stack'[k] = stack[k]
    BY <1>1, <2>4
  <2>7. FramesInv(tree, lists, loc, stack')
    <3>1. SUFFICES ASSUME NEW k \in 1..Len(stack') PROVE FrameInv(tree, lists, loc, stack'[k])
      BY DEF FramesInv
    <3>2. k \in 1..Len(stack) \/ k = Len(stack) + 1
      BY <1>2, <2>6
    <3> QED
      BY <2>3, <2>6, <3>2 DEF SeeksInv, FramesInv
  <2>8. stack' # << >> /\ stack'[1] = stack[1]
    BY <1>2, <2>6
  <2> QED
    BY <1>9, <2>4, <2>5, <2>7, <2>8 DEF SeeksInv, RootGoesOn
<1>8. SeekTermWord(n, l) \/ SeekTermBelow(n, l)
  BY DEF SeekTerm, n, l
<1> QED
  BY <1>6, <1>7, <1>8

LEMMA SeeksPasses ==
  ASSUME TypeOK, SeeksInv(tree, lists, loc, stack), NextPhrasePass \/ NextContainerPass
  PROVE  SeeksInv(tree, lists, loc, stack') /\ RootGoesOn
<1>1. stack # << >> /\ stack \in Seq(Frames) /\ query \in DOMAIN Trees /\ lists \in Chunks /\ GoesOn(Top)
  BY DEF TypeOK, NextPhrasePass, NextContainerPass, Searching
<1>2. Top \in Frames /\ Top = stack[Len(stack)] /\ Len(stack) \in Nat \ {0}
  BY <1>1, TopFacts DEF Top
<1>3. FrameInv(tree, lists, loc, Top)
  <2>1. Len(stack) \in 1..Len(stack)
    BY <1>2
  <2> QED
    BY <1>2, <2>1 DEF SeeksInv, FramesInv
<1>4. ASSUME NEW f \in Frames, TopBecomes(f), f.n = Top.n, f.target = Top.target,
             FrameInv(tree, lists, loc, f)
      PROVE  SeeksInv(tree, lists, loc, stack') /\ RootGoesOn
  <2>1. f.target >= Top.target
    BY <1>1, <1>2, <1>4, FrameFacts
  <2> QED
    BY <1>1, <1>4, <2>1, TopReplaced DEF SeeksInv
<1>5. /\ PhrasePass(Top).target = Top.target /\ Lost(Top).target = Top.target
      /\ \A d : ContainerPass(Top, d).target = Top.target
  BY <1>2 DEF PhrasePass, Lost, ContainerPass, Frames
<1>6. CASE NextPhrasePass
  <2>1. Op(Top) = "phrase" /\ RoundDone(Top) /\ TopBecomes(PhrasePass(Top))
    BY <1>6 DEF NextPhrasePass, GoesOn
  <2>2. FrameInv(tree, lists, loc, PhrasePass(Top))
    BY <1>1, <1>2, <1>3, <2>1, PhrasePassKeeps
  <2> QED
    BY <1>2, <1>4, <1>5, <2>1, <2>2, PassTyped, PassReader
<1>7. CASE NextContainerPass
  <2>1. Op(Top) = "container"
    BY <1>7 DEF NextContainerPass
  <2>2. CASE UNCHANGED stack
    <3>1. stack[1].target \in Int
      BY <1>1, TopFacts, FrameFacts
    <3> QED
      BY <1>1, <2>2, <3>1 DEF RootGoesOn
  <2>3. ASSUME NEW d, d = SeekEnd(Top.end),
               TopBecomes(IF d.offEnd THEN Lost(Top) ELSE ContainerPass(Top, d))
        PROVE  SeeksInv(tree, lists, loc, stack') /\ RootGoesOn
    <3>1. CASE d.offEnd
      <4>1. FrameInv(tree, lists, loc, Lost(Top))
        BY <1>2, <1>3, <2>1, LostKeeps
      <4> QED
        BY <1>2, <1>4, <1>5, <2>3, <3>1, <4>1, PassTyped, PassReader
    <3>2. CASE ~d.offEnd
      <4>1. FrameInv(tree, lists, loc, ContainerPass(Top, d))
        BY <1>2, <1>3, <2>1, <2>3, <3>2, ContainerPassKeeps
      <4>2. Top.end \in Int
        BY <1>1, <1>2, FrameFacts
      <4>3. d.prevLoc \in Locations /\ d.endLocation \in Locations
        BY <1>1, <2>3, <4>2, SeekEndFacts DEF TypeOK
      <4>4. ContainerPass(Top, d) \in Frames
        BY <1>2, <4>3, PassTyped
      <4> QED
        BY <1>2, <1>4, <1>5, <2>3, <3>2, <4>1, <4>4, PassReader
    <3> QED
      BY <3>1, <3>2
  <2> QED
    BY <1>7, <2>2, <2>3 DEF NextContainerPass
<1> QED
  BY <1>6, <1>7

\* What a Seek that returns gives to the one that called it.
LEMMA ReturnTakes ==
  ASSUME TypeOK, Calling(tree, stack), SeeksInv(tree, lists, loc, stack), Return
  PROVE  LET k == Len(stack) - 1
             f == stack[k]
         IN  /\ k \in Nat \ {0} /\ Top = stack[k + 1] /\ Top \in Frames /\ Finished(Top)
             /\ f \in Frames /\ Term(f) = Top.n /\ TermTarget(f) \in Int /\ TermTarget(f) <= Top.target
             /\ \E start \in 0..Highest : \E g \in Frames :
                  /\ Taking(loc, f, ResultOf(Top, start)) /\ g = Takes(f, ResultOf(Top, start))
                  /\ stack' \in Seq(Frames) /\ Changed(stack, stack', k, g)
<1> DEFINE k == Len(stack) - 1
           f == stack[k]
<1>1. /\ stack # << >> /\ stack \in Seq(Frames) /\ query \in DOMAIN Trees /\ lists \in Chunks
      /\ Len(stack) > 1 /\ Finished(Top)
  BY DEF TypeOK, Return, Searching
<1>2. /\ Top \in Frames /\ Top = stack[k + 1] /\ k \in Nat \ {0} /\ f \in Frames /\ Len(stack) = k + 1
      /\ Front(stack) \in Seq(Frames) /\ Len(Front(stack)) = k
      /\ \A j \in 1..k : Front(stack)[j] = stack[j]
  BY <1>1, TopFacts DEF Top
<1>3. PICK start \in Starts(Top) :
        stack' = [Front(stack) EXCEPT ![k] = Takes(Front(stack)[k], ResultOf(Top, start))]
  BY DEF Return
<1> DEFINE r == ResultOf(Top, start)
<1>4. start \in 0..Highest /\ r \in Results
  BY <1>2, StartsFacts, PostOfTyped
<1>5. FrameInv(tree, lists, loc, Top) /\ FrameInv(tree, lists, loc, f)
  <2>1. k \in 1..Len(stack) /\ k + 1 \in 1..Len(stack)
    BY <1>2
  <2> QED
    BY <1>2, <2>1 DEF SeeksInv, FramesInv
<1>6. Finds(tree, lists, loc, Top.n, Top.target, r)
  BY <1>1, <1>2, <1>4, <1>5, ResultFinds
<1> HIDE DEF r, k, f
<1>7. Asks(f) /\ Term(f) = Top.n /\ Op(f) # "phrase"
  <2>1. Calls(tree, f, Top)
    BY <1>2 DEF Calling, f
  <2> QED
    BY <1>1, <1>2, <2>1, CallsFacts DEF Calls, Op
<1>8. TermTarget(f) <= Top.target /\ TermTarget(f) \in Int
  <2>1. Asked(tree, f) <= Top.target
    BY <1>2 DEF SeeksInv, Shape, f
  <2> QED
    BY <1>1, <1>2, <1>7, <2>1, AskedFacts, SMTT(30)
<1>9. Finds(tree, lists, loc, Term(f), TermTarget(f), r)
  <2>1. SUFFICES ASSUME r.post # Null
                 PROVE  NotBefore(lists, r.at, TermTarget(f)) /\ tree[Top.n].op # "word"
    BY <1>6, <1>7 DEF Finds
  <2>2. r.at \in Int /\ Top.target \in Int
    BY <1>1, <1>2, <1>4, HighestFacts, FrameFacts, SMTT(30) DEF Results, Locations
  <2>3. NotBefore(lists, r.at, Top.target)
    BY <1>6, <2>1 DEF Finds
  <2>4. tree[Top.n].op # "word"
    BY <1>1, <1>2, FrameFacts, ZenonT(30) DEF Op
  <2> QED
    BY <1>1, <1>8, <2>2, <2>3, <2>4, NotBeforeFacts
<1>10. Taking(loc, f, r)
  BY <1>1, <1>2, <1>4, <1>5, <1>7, <1>9 DEF Taking
<1> DEFINE g == Takes(f, r)
<1>11. g \in Frames
  BY <1>1, <1>2, <1>4, <1>7, TakesTyped
<1>12. stack' = [Front(stack) EXCEPT ![k] = g]
  <2>1. k \in 1..k
    BY <1>2
  <2>2. Front(stack)[k] = f
    BY <1>2, <2>1 DEF f
  <2> QED
    BY <1>3, <2>2, Zenon DEF r
<1>13. g = Takes(f, ResultOf(Top, start)) /\ Taking(loc, f, ResultOf(Top, start))
  BY <1>10 DEF r
<1> HIDE DEF g
<1>14. stack' \in Seq(Frames) /\ Changed(stack, stack', k, g)
  BY <1>2, <1>11, <1>12 DEF Changed
<1> QED
  BY <1>1, <1>2, <1>4, <1>7, <1>8, <1>11, <1>13, <1>14 DEF k, f

LEMMA SeeksReturn ==
  ASSUME TypeOK, Calling(tree, stack), SeeksInv(tree, lists, loc, stack), Return
  PROVE  SeeksInv(tree, lists, loc, stack') /\ RootGoesOn
<1> DEFINE k == Len(stack) - 1
           f == stack[k]
<1>1. /\ stack # << >> /\ stack \in Seq(Frames) /\ query \in DOMAIN Trees
      /\ k \in Nat \ {0} /\ Len(stack) = k + 1 /\ f \in Frames
  <2>1. k \in Nat \ {0} /\ f \in Frames
    BY ReturnTakes
  <2>2. stack # << >> /\ stack \in Seq(Frames) /\ query \in DOMAIN Trees
    BY DEF TypeOK, Return, Searching
  <2>3. Len(stack) \in Nat
    BY <2>2
  <2> QED
    BY <2>1, <2>2, <2>3
<1>2. PICK start \in 0..Highest : \E g \in Frames :
        /\ Taking(loc, f, ResultOf(Top, start)) /\ g = Takes(f, ResultOf(Top, start))
        /\ stack' \in Seq(Frames) /\ Changed(stack, stack', k, g)
  BY ReturnTakes
<1>3. PICK g \in Frames :
        /\ Taking(loc, f, ResultOf(Top, start)) /\ g = Takes(f, ResultOf(Top, start))
        /\ stack' \in Seq(Frames) /\ Changed(stack, stack', k, g)
  BY <1>2
<1>4. FrameInv(tree, lists, loc, g) /\ g.target >= f.target /\ g.n = f.n
  BY <1>1, <1>3, TakesKeeps, TakesReader DEF Taking
<1> HIDE DEF k, f
<1>5. /\ Len(stack') = k /\ stack'[k] = g
      /\ \A j \in 1..(k - 1) : stack'[j] = stack[j]
  BY <1>3 DEF Changed
<1>6. Replaced(stack, stack')
  BY <1>1, <1>4, <1>5 DEF Replaced, f
<1>7. Shape(tree, stack')
  BY <1>1, <1>3, <1>4, <1>5, <1>6, ShapeReplaced DEF SeeksInv, f
<1>8. ASSUME NEW j \in 1..Len(stack') PROVE FrameInv(tree, lists, loc, stack'[j])
  <2>1. CASE j = k
    BY <1>4, <1>5, <2>1
  <2>2. CASE j # k
    <3>1. j \in 1..(k - 1) /\ j \in 1..Len(stack)
      BY <1>1, <1>5, <2>2
    <3> QED
      BY <1>5, <3>1 DEF SeeksInv, FramesInv
  <2> QED
    BY <2>1, <2>2
<1>9. RootGoesOn
  <2>1. stack' # << >> /\ 1 \in 1..Len(stack)
    BY <1>1, <1>5
  <2>2. stack[1].target \in Int
    <3>1. stack[1] \in Frames
      BY <1>1, <2>1, TopFacts
    <3> QED
      BY <1>1, <3>1, FrameFacts
  <2>3. CASE k = 1
    BY <1>4, <1>5, <2>1, <2>3 DEF RootGoesOn, f
  <2>4. CASE k # 1
    <3>1. stack'[1] = stack[1]
      BY <1>1, <1>5, <2>4
    <3> QED
      BY <2>1, <2>2, <3>1 DEF RootGoesOn
  <2> QED
    BY <2>3, <2>4
<1> QED
  BY <1>7, <1>8, <1>9 DEF SeeksInv, FramesInv

-----------------------------------------------------------------------------
(* The documents ranked *)

LastDoc(a) == a[Len(a)].doc

\* The next Seek of the root is for what is behind the document last ranked.
Onward(S, d, s, a, st) ==
  /\ s = << >> /\ st = "search" => d.endLocation = IF a = << >> THEN 0 ELSE S[End][LastDoc(a)]
  /\ s # << >> => (a # << >> => S[End][LastDoc(a)] < s[1].target)

AnswersInv ==
  /\ SeeksInv(tree, lists, loc, stack) /\ Onward(lists, docEnd, stack, answers, status)
  /\ AnswersHoldTheirPost /\ AnswersAdvance

\* The document that docEnd moves to when a post is found.
LEMMA DocumentFound ==
  ASSUME TypeOK, NEW p, Stands(tree, lists, loc, p), NEW l \in Nat, NotBefore(lists, loc[p], l)
  PROVE  LET d == SeekEnd(loc[p])
         IN  /\ ~d.offEnd /\ d.tData + 1 \in Documents /\ d.endLocation = lists[End][d.tData + 1]
             /\ InDocument(loc[p], d.tData + 1)
             /\ \A e \in Documents : lists[End][e] < l => e < d.tData + 1
<1> DEFINE ends == lists[End]
           at == loc[p]
           j == EndPost(ends, at)
           d == SeekEnd(at)
<1>1. lists \in Chunks /\ query \in DOMAIN Trees
  BY DEF TypeOK
<1>2. at \in Int /\ at <= LastEnd(lists) /\ \A e \in DOMAIN ends : ends[e] # at
  BY <1>1, StandsFacts
<1>3. /\ DOMAIN ends = 1..Len(ends) /\ Len(ends) \in Nat \ {0}
      /\ \A e \in DOMAIN ends : ends[e] \in Nat
      /\ \A e1, e2 \in DOMAIN ends : e1 < e2 => ends[e1] < ends[e2]
  BY <1>1, EndFacts, ListFacts
<1>4. /\ j \in 0..Len(ends) /\ (j = 0 => \A k \in DOMAIN ends : ends[k] < at)
      /\ j # 0 => ends[j] >= at /\ \A k \in 1..(j - 1) : ends[k] < at
  BY <1>1, <1>2, EndPostFacts
<1>5. j # 0
  BY <1>2, <1>3, <1>4 DEF LastEnd
<1>6. ~d.offEnd /\ d.endLocation = ends[j] /\ d.tData = j - 1
  BY <1>5 DEF SeekEnd
<1> HIDE DEF j, d, at, ends
<1>7. InDocument(at, j)
  BY <1>3, <1>4, <1>5 DEF InDocument, Within, ends
<1>8. ASSUME NEW e \in DOMAIN ends, ends[e] < l PROVE e < j
  <2>1. ends[e] <= at /\ ends[e] # at
    BY <1>2, <1>8 DEF NotBefore, ends, at
  <2>2. ends[e] < ends[j]
    BY <1>2, <1>3, <1>4, <1>5, <2>1
  <2>3. ~(j < e) /\ j # e
    BY <1>3, <1>4, <1>5, <1>8, <2>2
  <2> QED
    BY <1>3, <1>4, <1>8, <2>3
<1> QED
  BY <1>3, <1>4, <1>5, <1>6, <1>7, <1>8 DEF Documents, d, at, ends

LEMMA AnswersInvInit == Init => AnswersInv
<1> SUFFICES ASSUME Init PROVE AnswersInv
  OBVIOUS
<1>1. stack = << >> /\ answers = << >> /\ docEnd.endLocation = 0
  BY DEF Init, RankerInit
<1>2. SeeksInv(tree, lists, loc, stack)
  BY <1>1 DEF SeeksInv, FramesInv, Shape
<1>3. Onward(lists, docEnd, stack, answers, status)
  BY <1>1 DEF Onward
<1> QED
  BY <1>1, <1>2, <1>3 DEF AnswersInv, AnswersHoldTheirPost, AnswersAdvance

\* A step that ranks no document.
LEMMA SameAnswers ==
  ASSUME AnswersInv, UNCHANGED <<lists, query, answers>>
  PROVE  AnswersHoldTheirPost' /\ AnswersAdvance'
BY DEF AnswersInv, AnswersHoldTheirPost, AnswersAdvance, HasPost, InDocument, Within, Words, tree

LEMMA AnswersFacts ==
  ASSUME TypeOK
  PROVE  /\ Len(answers) \in Nat /\ DOMAIN answers = 1..Len(answers)
         /\ \A i \in DOMAIN answers : answers[i].doc \in Documents /\ answers[i].loc \in Locations
<1> DEFINE answer == [doc : Documents, loc : Locations, rank : Ranks]
<1>1. \A a \in answer : a.doc \in Documents /\ a.loc \in Locations
  OBVIOUS
<1>2. answers \in Seq(answer)
  BY DEF TypeOK
<1> HIDE DEF answer
<1> QED
  BY <1>1, <1>2

\* The document last ranked ends behind a post.
LEMMA LastDocFacts ==
  ASSUME TypeOK, AnswersHoldTheirPost, answers # << >>
  PROVE  /\ Len(answers) \in Nat \ {0} /\ LastDoc(answers) \in Documents
         /\ lists[End][LastDoc(answers)] \in Nat /\ lists[End][LastDoc(answers)] > 0
<1>1. lists \in Chunks /\ query \in DOMAIN Trees
  BY DEF TypeOK
<1>2. answers \in Seq([doc : Documents, loc : Locations, rank : Ranks])
  BY DEF TypeOK
<1>3. Len(answers) \in Nat \ {0} /\ Len(answers) \in DOMAIN answers
  BY <1>2
<1> DEFINE a == answers[Len(answers)]
<1>4. a.doc \in Documents /\ a.loc \in Nat /\ LastDoc(answers) = a.doc
  BY <1>3, AnswersFacts, HighestFacts DEF LastDoc, Locations
<1>5. PICK n \in Words : HasPost(tree[n].key, a.loc)
  BY <1>3 DEF AnswersHoldTheirPost
<1>6. a.loc <= lists[End][a.doc]
  BY <1>3 DEF AnswersHoldTheirPost, InDocument, Within
<1>7. tree[n].key # End
  BY <1>1, TermsFacts DEF Words
<1>8. lists[End][a.doc] # a.loc
  BY <1>1, <1>4, <1>5, <1>7, LastEndFacts DEF HasPost, PostAt, Documents
<1>9. lists[End][a.doc] \in Nat
  BY <1>1, <1>4, EndFacts, ListFacts DEF Documents
<1> HIDE DEF a
<1> QED
  BY <1>3, <1>4, <1>6, <1>8, <1>9

LEMMA AnswersNextDocument ==
  ASSUME TypeOK, AnswersInv, NextDocument
  PROVE  AnswersInv'
<1>1. stack = << >> /\ status = "search" /\ stack' = <<Called(Root, NextTarget)>>
      /\ UNCHANGED <<lists, query, loc, docEnd, answers, results, status>>
  BY DEF NextDocument, chunkVars, rankerVars
<1>2. SeeksInv(tree, lists, loc, stack')
  BY SeeksNextDocument
<1>3. stack' # << >> /\ stack'[1].target = NextTarget
  BY <1>1 DEF Called
<1>4. ASSUME answers # << >> PROVE lists[End][LastDoc(answers)] < NextTarget
  <2>1. docEnd.endLocation = lists[End][LastDoc(answers)]
    BY <1>1, <1>4 DEF AnswersInv, Onward
  <2>2. docEnd.endLocation \in Nat /\ docEnd.endLocation > 0
    BY <1>4, <2>1, LastDocFacts DEF AnswersInv
  <2> QED
    BY <2>1, <2>2 DEF NextTarget
<1>5. Onward(lists, docEnd, stack', answers, status)
  BY <1>3, <1>4 DEF Onward
<1>6. tree' = tree
  BY <1>1 DEF tree
<1> QED
  BY <1>1, <1>2, <1>5, <1>6, SameAnswers DEF AnswersInv

\* A step of the Seeks.
LEMMA AnswersSeek ==
  ASSUME TypesInv, AnswersInv, SeekTerm \/ NextPhrasePass \/ NextContainerPass \/ Return
  PROVE  AnswersInv'
<1>1. TypeOK /\ Calling(tree, stack) /\ SeeksInv(tree, lists, loc, stack)
  BY DEF TypesInv, AnswersInv
<1>2. SeeksInv(tree, lists, loc', stack') /\ RootGoesOn
  <2>1. CASE SeekTerm
    BY <1>1, <2>1, SeeksSeekTerm
  <2>2. CASE NextPhrasePass \/ NextContainerPass
    <3>1. loc' = loc
      BY <2>2 DEF NextPhrasePass, NextContainerPass
    <3> QED
      BY <1>1, <2>2, <3>1, SeeksPasses
  <2>3. CASE Return
    <3>1. loc' = loc
      BY <2>3 DEF Return
    <3> QED
      BY <1>1, <2>3, <3>1, SeeksReturn
  <2> QED
    BY <2>1, <2>2, <2>3
<1>3. stack # << >> /\ stack \in Seq(Frames) /\ UNCHANGED <<lists, query, answers>>
  BY <1>1 DEF TypeOK, SeekTerm, SeekTermWord, SeekTermBelow, NextPhrasePass, NextContainerPass, Return,
                  Searching, EndSearch, chunkVars, rankerVars
<1>4. Onward(lists, docEnd', stack', answers, status')
  <2>1. ASSUME answers # << >> PROVE lists[End][LastDoc(answers)] < stack'[1].target
    <3>1. lists[End][LastDoc(answers)] < stack[1].target
      BY <1>3, <2>1 DEF AnswersInv, Onward
    <3>2. lists[End][LastDoc(answers)] \in Nat
      BY <1>1, <2>1, LastDocFacts DEF AnswersInv
    <3>3. stack[1].target \in Int /\ stack'[1].target \in Int
      <4>1. stack[1] \in Frames
        BY <1>3, TopFacts
      <4>2. ReadersTypes'
        BY TypesStep DEF Next
      <4>3. stack' \in Seq(Frames)
        BY <1>3, <4>2 DEF ReadersTypes, Frames, Words, tree
      <4>4. stack'[1] \in Frames
        BY <1>2, <4>3, TopFacts DEF RootGoesOn
      <4> QED
        BY <1>1, <4>1, <4>4, FrameFacts, SMTT(30) DEF TypeOK
    <3> QED
      BY <1>2, <3>1, <3>2, <3>3 DEF RootGoesOn
  <2> QED
    BY <1>2, <2>1 DEF Onward, RootGoesOn
<1>5. tree' = tree
  BY <1>3 DEF tree
<1> QED
  BY <1>2, <1>3, <1>4, <1>5, SameAnswers DEF AnswersInv

\* A document is ranked.
LEMMA AnswersRank ==
  ASSUME TypeOK, AnswersInv, NEW p, Stands(tree, lists, loc, p), NEW l \in Nat,
         NotBefore(lists, loc[p], l), answers # << >> => lists[End][LastDoc(answers)] < l,
         docEnd' = SeekEnd(loc[p]), RankDocument(docEnd'.tData + 1, loc[p]),
         UNCHANGED <<lists, query, loc>>, stack' = << >>
  PROVE  AnswersInv'
<1> DEFINE doc == docEnd'.tData + 1
           at == loc[p]
           n == Len(answers)
<1>1. answers \in Seq([doc : Documents, loc : Locations, rank : Ranks]) /\ lists \in Chunks
      /\ query \in DOMAIN Trees
  BY DEF TypeOK
<1>2. /\ doc \in Documents /\ docEnd'.endLocation = lists[End][doc] /\ InDocument(at, doc)
      /\ \A e \in Documents : lists[End][e] < l => e < doc
  BY DocumentFound
<1>3. at \in Locations /\ p \in Words /\ HasPost(tree[p].key, at)
  BY <1>1, StandsFacts DEF HasPost, Stands, PostAt
<1>4. PICK rank \in Ranks : answers' = Append(answers, [doc |-> doc, loc |-> at, rank |-> rank])
  BY DEF RankDocument
<1>5. n \in Nat /\ DOMAIN answers = 1..n /\ \A i \in 1..n : answers[i].doc \in Documents
  BY AnswersFacts
<1>6. \A e \in Documents : e \in Nat
  BY <1>1, EndFacts, ListFacts DEF Documents
<1> HIDE DEF doc, at, n
<1>7. /\ Len(answers') = n + 1 /\ DOMAIN answers' = 1..(n + 1)
      /\ answers'[n + 1] = [doc |-> doc, loc |-> at, rank |-> rank]
      /\ \A i \in 1..n : answers'[i] = answers[i]
  BY <1>1, <1>4, <1>5 DEF n
<1>8. tree' = tree /\ Words' = Words
  BY DEF tree, Words
<1>9. AnswersHoldTheirPost'
  <2>1. ASSUME NEW i \in DOMAIN answers'
        PROVE  /\ \E w \in Words : HasPost(tree[w].key, answers'[i].loc)
               /\ InDocument(answers'[i].loc, answers'[i].doc)
    <3>1. CASE i = n + 1
      BY <1>2, <1>3, <1>7, <3>1
    <3>2. CASE i # n + 1
      <4>1. i \in DOMAIN answers /\ answers'[i] = answers[i]
        BY <1>5, <1>7, <3>2
      <4> QED
        BY <4>1 DEF AnswersInv, AnswersHoldTheirPost
    <3> QED
      BY <3>1, <3>2
  <2> QED
    BY <1>8, <2>1 DEF AnswersHoldTheirPost, HasPost, InDocument, Within
<1>10. ASSUME NEW i \in 1..n PROVE answers[i].doc < doc
  <2>1. n \in 1..n /\ LastDoc(answers) = answers[n].doc /\ answers # << >>
    BY <1>5, <1>10 DEF LastDoc, n
  <2>2. answers[n].doc < doc
    BY <1>2, <1>5, <2>1
  <2>3. i = n \/ answers[i].doc < answers[n].doc
    BY <1>5, <2>1 DEF AnswersInv, AnswersAdvance
  <2> QED
    BY <1>2, <1>5, <1>6, <2>1, <2>2, <2>3
<1>11. AnswersAdvance'
  <2>1. ASSUME NEW i \in DOMAIN answers', NEW j \in DOMAIN answers', i < j
        PROVE  answers'[i].doc < answers'[j].doc
    <3>1. i \in 1..n /\ answers'[i] = answers[i]
      BY <1>5, <1>7, <2>1
    <3>2. CASE j = n + 1
      BY <1>7, <1>10, <3>1, <3>2
    <3>3. CASE j # n + 1
      <4>1. j \in 1..n
        BY <1>5, <1>7, <3>3
      <4> QED
        BY <1>5, <1>7, <2>1, <3>1, <4>1 DEF AnswersInv, AnswersAdvance
    <3> QED
      BY <3>2, <3>3
  <2> QED
    BY <2>1 DEF AnswersAdvance
<1>12. Onward(lists, docEnd', stack', answers', status')
  <2>1. LastDoc(answers') = doc /\ answers' # << >>
    BY <1>5, <1>7 DEF LastDoc
  <2> QED
    BY <1>2, <2>1 DEF Onward
<1>13. SeeksInv(tree, lists, loc, stack')
  BY DEF SeeksInv, FramesInv, Shape
<1> QED
  BY <1>8, <1>9, <1>11, <1>12, <1>13 DEF AnswersInv

LEMMA AnswersReturnToRanker ==
  ASSUME TypesInv, AnswersInv, ReturnToRanker
  PROVE  AnswersInv'
<1>1. TypeOK /\ stack # << >> /\ stack \in Seq(Frames) /\ query \in DOMAIN Trees /\ lists \in Chunks
      /\ Finished(Top) /\ Len(stack) = 1
  BY DEF TypesInv, TypeOK, ReturnToRanker, Searching
<1>2. Top \in Frames /\ Top = stack[1] /\ 1 \in 1..Len(stack)
  BY <1>1, TopFacts DEF Top
<1>3. UNCHANGED <<lists, query, loc>> /\ stack' = << >>
  BY DEF ReturnToRanker, chunkVars
<1>4. CASE EndSearch("done") \/ EndSearch("crash")
  <2>1. UNCHANGED answers /\ status' # "search"
    BY <1>4 DEF EndSearch
  <2>2. SeeksInv(tree, lists, loc, stack') /\ Onward(lists, docEnd', stack', answers, status')
    BY <1>3, <2>1 DEF SeeksInv, FramesInv, Shape, Onward
  <2>3. tree' = tree
    BY <1>3 DEF tree
  <2> QED
    BY <1>3, <2>1, <2>2, <2>3, SameAnswers DEF AnswersInv
<1>5. ASSUME PostOf(Top) # Null, docEnd' = SeekEnd(loc[PostOf(Top)]),
             RankDocument(docEnd'.tData + 1, loc[PostOf(Top)])
      PROVE  AnswersInv'
  <2> DEFINE p == PostOf(Top)
  <2>1. FrameInv(tree, lists, loc, Top)
    BY <1>2 DEF AnswersInv, SeeksInv, FramesInv
  <2>2. 0 \in 0..Highest
    BY HighestFacts
  <2>3. Finds(tree, lists, loc, Top.n, Top.target, ResultOf(Top, 0))
    BY <1>1, <1>2, <2>1, <2>2, ResultFinds
  <2>4. Stands(tree, lists, loc, p) /\ NotBefore(lists, loc[p], Top.target)
    BY <1>5, <2>3 DEF Finds, ResultOf, Result
  <2>5. Top.target \in Nat
    BY <1>1, <1>2, FrameFacts
  <2>6. answers # << >> => lists[End][LastDoc(answers)] < Top.target
    BY <1>1, <1>2 DEF AnswersInv, Onward
  <2> HIDE DEF p
  <2>7. docEnd' = SeekEnd(loc[p]) /\ RankDocument(docEnd'.tData + 1, loc[p])
    BY <1>5 DEF p
  <2> QED
    BY <1>1, <1>3, <2>4, <2>5, <2>6, <2>7, AnswersRank
<1> QED
  BY <1>4, <1>5 DEF ReturnToRanker, FindDocument, NoDocument, DocumentOf

LEMMA AnswersInvStep == TypesInv /\ AnswersInv /\ [Next]_vars => AnswersInv'
<1> SUFFICES ASSUME TypesInv, AnswersInv, [Next]_vars PROVE AnswersInv'
  OBVIOUS
<1>1. TypeOK
  BY DEF TypesInv
<1>2. CASE NextDocument
  BY <1>1, <1>2, AnswersNextDocument
<1>3. CASE SeekTerm \/ NextPhrasePass \/ NextContainerPass \/ Return
  BY <1>3, AnswersSeek
<1>4. CASE ReturnToRanker
  BY <1>4, AnswersReturnToRanker
<1>5. CASE GoRoundForEver \/ OutOfTime
  <2>1. UNCHANGED <<lists, query, loc, docEnd, stack, answers>> /\ status' # "search"
    BY <1>5 DEF GoRoundForEver, OutOfTime, TimeIsUp, EndSearch, chunkVars
  <2>2. Onward(lists, docEnd', stack', answers, status')
    BY <2>1 DEF AnswersInv, Onward
  <2>3. tree' = tree
    BY <2>1 DEF tree
  <2> QED
    BY <2>1, <2>2, <2>3, SameAnswers DEF AnswersInv
<1>6. CASE UNCHANGED vars
  <2>1. UNCHANGED <<lists, query, loc, docEnd, stack, answers, status>>
    BY <1>6 DEF vars, chunkVars, rankerVars
  <2>2. tree' = tree
    BY <2>1 DEF tree
  <2> QED
    BY <2>1, <2>2, SameAnswers DEF AnswersInv
<1> QED
  BY <1>2, <1>3, <1>4, <1>5, <1>6 DEF Next

LEMMA AnswersAlways == Spec => []AnswersInv
  BY AnswersInvInit, AnswersInvStep, TypesAlways, PTL DEF Spec

\* A document is ranked for a post of a word of the query, and that post is in
\* the document: between the end of the one before it and its own.
THEOREM AnswersHoldPosts == Spec => []AnswersHoldTheirPost
<1>1. AnswersInv => AnswersHoldTheirPost
  BY DEF AnswersInv
<1> QED
  BY <1>1, AnswersAlways, PTL

\* The documents are ranked in the order of the chunk, none of them twice.
THEOREM AnswersGoOn == Spec => []AnswersAdvance
<1>1. AnswersInv => AnswersAdvance
  BY DEF AnswersInv
<1> QED
  BY <1>1, AnswersAlways, PTL

-----------------------------------------------------------------------------
(* Where a search may go round for ever, or crash *)

\* No term of the reader n is excluded.
NoneExcluded(T, n) == T[n].op = "container" => T[n].contained = Len(T[n].terms)

DistinctKeys(T, n) ==
  \A i, j \in DOMAIN T[n].terms : i # j => T[T[n].terms[i]].key # T[T[n].terms[j]].key

\* A pass in vain has found a location further on, or another farthest term:
\* always of a container without excluded terms, and of a phrase of two words
\* at most.  The words of a phrase have room before the farthest location.
OnFurther(T, f) ==
  f.step = "pass" =>
    /\ T[f.n].op = "container" /\ NoneExcluded(T, f.n) /\ f.i > T[f.n].contained /\ ~f.found =>
         f.end > f.passEnd
    /\ T[f.n].op = "phrase" /\ ~f.found /\ Len(T[f.n].terms) <= 2 =>
         f.end > f.passEnd \/ f.farthest # f.passFarthest
    /\ T[f.n].op = "phrase" /\ DistinctKeys(T, f.n) => f.end >= Len(T[f.n].terms) - 1

\* Different locations up to the last of them.
LEMMA DistinctLocations ==
  ASSUME NEW n \in Nat, NEW end \in Nat, NEW at \in [1..n -> 0..end],
         \A i, j \in 1..n : i # j => at[i] # at[j]
  PROVE  end >= n - 1
<1>1. at \in Injection(1..n, 0..end)
  BY DEF Injection, IsInjective
<1>2. IsFiniteSet(0..end) /\ Cardinality(0..end) = end + 1
  BY FS_Interval
<1>3. Cardinality(1..n) = n
  BY FS_Interval
<1>4. Cardinality(1..n) <= Cardinality(0..end)
  BY <1>1, <1>2, FS_Injection
<1> QED
  BY <1>2, <1>3, <1>4

LEMMA PhrasePassFurther ==
  ASSUME TypeOK, NEW f \in Frames, FrameInv(tree, lists, loc, f), OnFurther(tree, f), Op(f) = "phrase",
         GoesOn(f)
  PROVE  OnFurther(tree, PhrasePass(f))
<1> DEFINE g == PhrasePass(f)
           terms == tree[f.n].terms
<1>1. /\ query \in DOMAIN Trees /\ lists \in Chunks
  BY DEF TypeOK
<1>2. /\ f.n \in DOMAIN tree /\ f.end \in Nat /\ terms = Terms(f) /\ Len(terms) \in Nat
      /\ DOMAIN terms = 1..Len(terms) /\ f.step \in {"first", "pass", "lost"} /\ f.i \in Nat
  BY <1>1, FrameFacts DEF Terms
<1>3. f.step \in {"first", "pass"} /\ f.i > Len(terms)
  BY <1>2 DEF GoesOn, RoundDone, InRound
<1>4. g.n = f.n /\ g.found = TRUE /\ g.end = f.end
  BY DEF PhrasePass, Frames
<1> HIDE DEF g, terms
<1>5. ASSUME DistinctKeys(tree, f.n) PROVE f.end >= Len(terms) - 1
  <2>1. CASE f.step = "pass"
    BY <1>5, <2>1 DEF OnFurther, Op, terms
  <2>2. CASE f.step = "first"
    <3>1. ASSUME NEW j \in 1..Len(terms)
          PROVE  Stands(tree, lists, loc, terms[j]) /\ loc[terms[j]] <= f.end
      <4>1. j \in 1..(f.i - 1)
        BY <1>2, <1>3
      <4> QED
        BY <2>2, <4>1 DEF FrameInv, FirstInv, Op, terms
    <3> DEFINE at == [j \in 1..Len(terms) |-> loc[terms[j]]]
    <3>2. at \in [1..Len(terms) -> 0..f.end]
      BY <1>1, <1>2, <3>1, StandsFacts
    <3>3. ASSUME NEW i \in 1..Len(terms), NEW j \in 1..Len(terms), i # j
          PROVE  loc[terms[i]] # loc[terms[j]]
      <4>1. tree[terms[i]].key # tree[terms[j]].key
        BY <1>2, <1>5, <3>3 DEF DistinctKeys, terms
      <4>2. PostAt(lists, tree[terms[i]].key, loc[terms[i]]) /\ PostAt(lists, tree[terms[j]].key, loc[terms[j]])
        BY <3>1 DEF Stands
      <4> QED
        BY <1>1, <4>1, <4>2, TokenFacts DEF PostAt
    <3>4. \A i, j \in 1..Len(terms) : i # j => at[i] # at[j]
      BY <3>3
    <3> HIDE DEF at
    <3> QED
      BY <1>2, <3>2, <3>4, DistinctLocations
  <2> QED
    BY <1>3, <2>1, <2>2
<1> QED
  BY <1>4, <1>5 DEF OnFurther, Op, g, terms

LEMMA PhraseNextFurther ==
  ASSUME TypeOK, NEW f \in Frames, FrameInv(tree, lists, loc, f), OnFurther(tree, f), Op(f) = "phrase",
         f.step = "pass", Asks(f), NEW r \in Results
  PROVE  OnFurther(tree, PhraseNext(f, r))
<1> DEFINE g == PhraseNext(f, r)
           n == Len(Terms(f))
<1>1. query \in DOMAIN Trees
  BY DEF TypeOK
<1>2. /\ f.end \in Nat /\ f.passEnd \in Nat /\ f.i \in Nat \ {0} /\ n \in Nat /\ f.i <= n
      /\ f.farthest \in Nat \ {0} /\ f.passFarthest \in Nat \ {0} /\ f.found \in BOOLEAN
      /\ Terms(f) = tree[f.n].terms
  BY <1>1, FrameFacts DEF Asks, InRound, Terms
<1>3. CASE r.post = Null
  BY <1>3 DEF PhraseNext, Lost, OnFurther, Frames
<1>4. CASE r.post # Null
  <2>1. r.at \in Nat
    BY HighestFacts DEF Results, Locations
  <2>2. /\ g.n = f.n /\ g.found = (r.at <= ExpectedLoc(f)) /\ g.end = IF r.at >= f.end THEN r.at ELSE f.end
        /\ g.farthest = IF r.at >= f.end THEN f.i ELSE f.farthest
        /\ g.passEnd = f.passEnd /\ g.passFarthest = f.passFarthest
    BY <1>4 DEF PhraseNext, PhraseTakes, Frames
  <2> HIDE DEF g
  <2>3. /\ f.passEnd <= f.end /\ (Terms(f) # << >> => f.passFarthest <= n)
        /\ ~f.found => f.i = n + 1
        /\ f.found /\ f.i <= f.passFarthest + 1 => f.end = f.passEnd /\ f.farthest = f.passFarthest
    BY <1>2 DEF FrameInv, PassInv, Op
  <2>4. f.found /\ f.passFarthest <= n
    BY <1>2, <2>3
  <2>5. g.end >= f.end
    BY <1>2, <2>1, <2>2
  <2>6. ASSUME n <= 2, ~g.found PROVE g.end > g.passEnd \/ g.farthest # g.passFarthest
    <3>1. f.end = f.passEnd /\ f.farthest = f.passFarthest
      BY <1>2, <2>3, <2>4, <2>6, SMTT(30)
    <3>2. f.i \in {1, 2} /\ f.farthest \in {1, 2}
      BY <1>2, <2>4, <2>6, <3>1
    <3>3. ~(r.at <= ExpectedLoc(f))
      BY <2>2, <2>6, Zenon
    <3>4. CASE f.i = 1 /\ f.farthest = 2
      BY <1>2, <2>1, <2>2, <3>1, <3>3, <3>4 DEF ExpectedLoc
    <3>5. CASE ~(f.i = 1 /\ f.farthest = 2)
      <4>1. ExpectedLoc(f) >= f.end
        BY <1>2, <3>2, <3>5, SMTT(30) DEF ExpectedLoc
      <4>2. r.at > f.end
        <5>1. ExpectedLoc(f) \in Int
          BY <1>2, SMTT(30) DEF ExpectedLoc
        <5> QED
          BY <1>2, <2>1, <3>3, <4>1, <5>1
      <4> QED
        BY <1>2, <2>1, <2>2, <3>1, <4>2
    <3> QED
      BY <3>4, <3>5
  <2>7. DistinctKeys(tree, f.n) => f.end >= n - 1
    BY <1>2 DEF OnFurther, Op
  <2> HIDE DEF n
  <2>8. Op(f) = tree[g.n].op /\ n = Len(tree[g.n].terms)
    BY <1>2, <2>2 DEF Op, n
  <2> QED
    BY <1>2, <2>1, <2>2, <2>5, <2>6, <2>7, <2>8, SMTT(30) DEF OnFurther, g
<1> QED
  BY <1>3, <1>4

LEMMA ContainedNextFurther ==
  ASSUME TypeOK, NEW f \in Frames, FrameInv(tree, lists, loc, f), Op(f) = "container", f.step = "pass",
         NEW r \in Results
  PROVE  OnFurther(tree, ContainedNext(f, r))
<1>1. query \in DOMAIN Trees
  BY DEF TypeOK
<1>2. f.end \in Nat /\ f.passEnd \in Nat /\ f.documentEnd \in Nat
  BY <1>1, FrameFacts
<1>3. CASE r.post = Null
  BY <1>3 DEF ContainedNext, Lost, OnFurther, Frames
<1>4. CASE r.post # Null
  <2>1. r.at \in Nat
    BY HighestFacts DEF Results, Locations
  <2> DEFINE g == ContainedNext(f, r)
  <2>2. /\ g.n = f.n /\ g.found = (r.at <= f.documentEnd) /\ g.end = IF r.at >= f.end THEN r.at ELSE f.end
        /\ g.passEnd = f.passEnd
    BY <1>4 DEF ContainedNext, Frames
  <2> HIDE DEF g
  <2>3. f.passEnd <= f.documentEnd /\ f.passEnd <= f.end
    BY DEF FrameInv, ContainerInv, Op
  <2>4. ASSUME ~g.found PROVE g.end > g.passEnd
    <3>1. ~(r.at <= f.documentEnd)
      BY <2>2, <2>4, Zenon
    <3> QED
      BY <1>2, <2>1, <2>2, <2>3, <3>1
  <2>5. tree[g.n].op = "container"
    BY <2>2 DEF Op
  <2> QED
    BY <2>4, <2>5 DEF OnFurther, g
<1> QED
  BY <1>3, <1>4

LEMMA BecomesFurther ==
  ASSUME TypeOK, NEW f \in Frames, FrameInv(tree, lists, loc, f), OnFurther(tree, f), NEW g,
         Becomes(f, g)
  PROVE  OnFurther(tree, g)
<1>1. query \in DOMAIN Trees
  BY DEF TypeOK
<1>2. /\ Op(f) \in {"or", "phrase", "container"} /\ f.step \in {"first", "pass", "lost"}
      /\ f.n \in DOMAIN tree /\ f.i \in Nat /\ tree[f.n].contained \in Nat
  BY <1>1, FrameFacts
<1>3. ASSUME NEW r \in Results, Asks(f), g = Takes(f, r) PROVE OnFurther(tree, g)
  <2>1. CASE Op(f) = "or"
    <3>1. f.step = "first"
      BY <2>1 DEF FrameInv, OrInv, Op
    <3>2. g.step = "first"
      BY <1>3, <2>1, <3>1 DEF Takes, OrTakes, Frames
    <3> QED
      BY <3>2 DEF OnFurther
  <2>2. CASE Op(f) = "phrase" /\ f.step = "first"
    <3>1. g = PhraseFirst(f, r)
      BY <1>3, <2>2 DEF Takes
    <3>2. g.step # "pass"
      BY <2>2, <3>1 DEF PhraseFirst, Lost, Frames
    <3> QED
      BY <3>2 DEF OnFurther
  <2>3. CASE Op(f) = "phrase" /\ f.step = "pass"
    <3>1. g = PhraseNext(f, r)
      BY <1>3, <2>3 DEF Takes
    <3> QED
      BY <1>3, <2>3, <3>1, PhraseNextFurther
  <2>4. CASE Op(f) = "container" /\ f.step = "first"
    <3>1. g = Farther(f, r)
      BY <1>3, <2>4 DEF Takes
    <3>2. g.step # "pass"
      BY <2>4, <3>1 DEF Farther, Frames
    <3> QED
      BY <3>2 DEF OnFurther
  <2>5. CASE Op(f) = "container" /\ f.step = "pass" /\ f.i <= tree[f.n].contained
    <3>1. g = ContainedNext(f, r)
      BY <1>2, <1>3, <2>5 DEF Takes
    <3> QED
      BY <2>5, <3>1, ContainedNextFurther
  <2>6. CASE Op(f) = "container" /\ f.step = "pass" /\ f.i > tree[f.n].contained
    <3>1. g = ExcludedNext(f, r)
      BY <1>2, <1>3, <2>6 DEF Takes
    <3>2. g.n = f.n /\ (g.step = "first" \/ g.step = f.step)
      BY <3>1 DEF ExcludedNext, Called, Frames
    <3>3. ~NoneExcluded(tree, f.n)
      <4>1. f.i <= Len(tree[f.n].terms) /\ Len(tree[f.n].terms) \in Nat
        BY <1>1, <1>3, <2>6, FrameFacts DEF Asks, InRound, Terms
      <4> QED
        BY <1>2, <2>6, <4>1 DEF NoneExcluded, Op
    <3> QED
      BY <2>6, <3>2, <3>3 DEF OnFurther, Op
  <2>7. f.step \in {"first", "pass"} /\ (f.i <= tree[f.n].contained \/ f.i > tree[f.n].contained)
    BY <1>2, <1>3 DEF Asks
  <2> QED
    BY <1>2, <2>1, <2>2, <2>3, <2>4, <2>5, <2>6, <2>7
<1>4. ASSUME GoesOn(f), Op(f) = "phrase", g = PhrasePass(f) PROVE OnFurther(tree, g)
  BY <1>4, PhrasePassFurther
<1>5. ASSUME Op(f) = "container", g = Lost(f) PROVE OnFurther(tree, g)
  BY <1>5 DEF Lost, Frames, OnFurther
<1>6. ASSUME Op(f) = "container", NEW d, g = ContainerPass(f, d) PROVE OnFurther(tree, g)
  <2>1. g.n = f.n /\ g.i = 1
    BY <1>6 DEF ContainerPass, Frames
  <2>2. tree[f.n].terms # << >> /\ tree[f.n].terms \in Seq(DOMAIN tree)
    BY <1>1, <1>2, <1>6, TermsFacts DEF Op
  <2>3. ~(NoneExcluded(tree, f.n) /\ 1 > tree[f.n].contained)
    BY <1>2, <1>6, <2>2 DEF NoneExcluded, Op
  <2> QED
    BY <1>6, <2>1, <2>3 DEF OnFurther, Op
<1> QED
  BY <1>3, <1>4, <1>5, <1>6 DEF Becomes

LEMMA CalledFurther ==
  \A T, n, l : OnFurther(T, Called(n, l)) /\ Called(n, l).n = n /\ Called(n, l).target = l
  BY DEF OnFurther, Called

\* The Seeks that have not returned go on further.
LEMMA FurtherStep ==
  ASSUME TypesInv, FramesInv(tree, lists, loc, stack), Next,
         \A k \in 1..Len(stack) : OnFurther(tree, stack[k])
  PROVE  \A k \in 1..Len(stack') : OnFurther(tree, stack'[k])
<1>1. TypeOK /\ Calling(tree, stack) /\ stack \in Seq(Frames) /\ Len(stack) \in Nat
  BY DEF TypesInv, TypeOK
<1>2. CASE UNCHANGED stack
  BY <1>2
<1>3. CASE ReturnToRanker
  BY <1>3 DEF ReturnToRanker
<1>4. CASE Pushed(stack, stack')
  <2>1. PICK n, l : stack' = Append(stack, Called(n, l))
    BY <1>4 DEF Pushed
  <2> DEFINE f == Called(n, l)
  <2>2. OnFurther(tree, f)
    BY CalledFurther
  <2> HIDE DEF f
  <2>3. /\ Len(stack') = Len(stack) + 1 /\ stack'[Len(stack) + 1] = f
        /\ \A k \in 1..Len(stack) : stack'[k] = stack[k]
    BY <1>1, <2>1 DEF f
  <2>4. ASSUME NEW k \in 1..Len(stack') PROVE k \in 1..Len(stack) \/ k = Len(stack) + 1
    BY <1>1, <2>3
  <2> QED
    BY <2>2, <2>3, <2>4
<1>5. ASSUME NEW m \in 1..Len(stack), NEW g, Becomes(stack[m], g), Changed(stack, stack', m, g),
             NEW k \in 1..Len(stack')
      PROVE  OnFurther(tree, stack'[k])
  <2>1. stack[m] \in Frames /\ FrameInv(tree, lists, loc, stack[m]) /\ OnFurther(tree, stack[m])
    BY <1>1, <1>5 DEF FramesInv
  <2>2. OnFurther(tree, g)
    BY <1>1, <1>5, <2>1, BecomesFurther
  <2>3. CASE k = m
    BY <1>5, <2>2, <2>3 DEF Changed
  <2>4. CASE k # m
    <3>1. k \in 1..(m - 1) /\ k \in 1..Len(stack)
      BY <1>1, <1>5, <2>4 DEF Changed
    <3> QED
      BY <1>5, <3>1 DEF Changed
  <2> QED
    BY <2>3, <2>4
<1> QED
  BY <1>1, <1>2, <1>3, <1>4, <1>5, StackChanges

\* A search that goes round for ever does so where it may.
LEMMA HangsWhere ==
  ASSUME TypesInv, FramesInv(tree, lists, loc, stack),
         \A k \in 1..Len(stack) : OnFurther(tree, stack[k]),
         GoRoundForEver
  PROVE  Excludes \/ \E n \in Phrases : Len(tree[n].terms) > 2
<1>1. TypeOK /\ stack \in Seq(Frames) /\ stack # << >> /\ query \in DOMAIN Trees
  BY DEF TypesInv, TypeOK, GoRoundForEver, Searching
<1>2. Top \in Frames /\ Len(stack) \in 1..Len(stack) /\ Top = stack[Len(stack)]
  BY <1>1, TopFacts DEF Top
<1>3. FrameInv(tree, lists, loc, Top) /\ OnFurther(tree, Top)
  BY <1>2 DEF FramesInv
<1>4. /\ Top.step = "pass" /\ ~Top.found /\ Top.end = Top.passEnd /\ Top.i > Len(Terms(Top))
      /\ Op(Top) = "phrase" => Top.farthest = Top.passFarthest
  BY DEF GoRoundForEver, Stuck, RoundDone, InRound
<1>5. /\ Top.n \in DOMAIN tree /\ Op(Top) \in {"or", "phrase", "container"} /\ Top.end \in Nat
      /\ Terms(Top) = tree[Top.n].terms /\ Len(Terms(Top)) \in Nat /\ Top.i \in Nat
      /\ tree[Top.n].contained \in Nat /\ tree[Top.n].contained <= Len(Terms(Top))
  BY <1>1, <1>2, FrameFacts DEF Terms
<1>6. Op(Top) # "or"
  BY <1>3, <1>4 DEF FrameInv, OrInv, Op
<1>7. CASE Op(Top) = "phrase"
  BY <1>3, <1>4, <1>5, <1>7 DEF OnFurther, Phrases, Op
<1>8. CASE Op(Top) = "container"
  <2>1. ~NoneExcluded(tree, Top.n)
    BY <1>3, <1>4, <1>5, <1>8 DEF OnFurther, Op
  <2>2. Top.n \in Containers /\ tree[Top.n].contained < Len(tree[Top.n].terms)
    BY <1>5, <1>8, <2>1 DEF NoneExcluded, Containers, Op
  <2> QED
    BY <2>2 DEF Excludes
<1> QED
  BY <1>5, <1>6, <1>7, <1>8

\* A target below 0 is that of a phrase with a word twice.
LEMMA WrapsWhere ==
  ASSUME TypeOK, NEW f \in Frames, FrameInv(tree, lists, loc, f), OnFurther(tree, f), Asks(f),
         TermTarget(f) < 0
  PROVE  f.n \in Phrases /\ ~DistinctKeys(tree, f.n)
<1>1. query \in DOMAIN Trees
  BY DEF TypeOK
<1>2. /\ Op(f) \in {"or", "phrase", "container"} /\ f.target \in Nat /\ f.begin \in Nat /\ f.n \in DOMAIN tree
      /\ Terms(f) = tree[f.n].terms /\ Len(Terms(f)) \in Nat /\ f.end \in Nat /\ f.i \in Nat \ {0}
      /\ f.farthest \in Nat \ {0}
  BY <1>1, FrameFacts DEF Terms
<1>3. Op(f) = "phrase" /\ f.step = "pass" /\ TermTarget(f) = ExpectedLoc(f)
  BY <1>2 DEF TermTarget
<1>4. f.i <= Len(Terms(f)) /\ Terms(f) # << >>
  BY <1>2, <1>3 DEF Asks, InRound
<1>5. f.farthest <= Len(Terms(f))
  BY <1>2, <1>3, <1>4 DEF FrameInv, PassInv, Op
<1>6. ExpectedLoc(f) < 0
  BY <1>3
<1>7. f.end < Len(Terms(f)) - 1
  BY <1>2, <1>4, <1>5, <1>6, SMTT(30) DEF ExpectedLoc
<1>8. ~DistinctKeys(tree, f.n)
  BY <1>2, <1>3, <1>7 DEF OnFurther, Op
<1> QED
  BY <1>2, <1>3, <1>8 DEF Phrases, Op

\* Nothing is sought past the chunk but by first rounds that seek past it, once
\* its last document is ranked.
Beyond(S, s) ==
  \A m \in 1..Len(s) : \A k \in 1..(m - 1) :
    s[m].target > LastEnd(S) => s[k].target > LastEnd(S) /\ s[k].step = "first"

RootTarget(S, s, a) ==
  s # << >> => s[1].target = IF a = << >> THEN 0 ELSE S[End][LastDoc(a)] + 1

\* One of the Seeks has been over a term that c is under.
Over(T, s, c) ==
  \E k \in 1..Len(s) : \E j \in 1..(s[k].i - 1) :
    j <= Len(T[s[k].n].terms) /\ c \in T[T[s[k].n].terms[j]].under

\* The document-end reader runs off its list in a Seek of a container past the
\* chunk, which is lost.
OffEnd(T, S, d, s) ==
  d.offEnd =>
    /\ s # << >> /\ s[Len(s)].target > LastEnd(S)
    /\ \E c \in DOMAIN T : /\ T[c].op = "container"
                          /\ \/ Over(T, s, c)
                             \/ s[Len(s)].n = c /\ s[Len(s)].step = "lost"

LEMMA TakesOn ==
  ASSUME query \in DOMAIN Trees, ~Excludes, NEW f \in Frames, Asks(f), NEW r
  PROVE  LET g == Takes(f, r)
         IN  /\ g.target = f.target /\ g.i >= f.i /\ g.step \in {f.step, "lost"}
             /\ Op(f) # "phrase" /\ f.step = "first" => g.i = f.i + 1
<1> DEFINE g == Takes(f, r)
           c == tree[f.n].contained
<1>1. /\ Op(f) \in {"or", "phrase", "container"} /\ f.step \in {"first", "pass"} /\ f.n \in DOMAIN tree
      /\ f.i \in Nat /\ c \in Nat /\ (f.i <= c \/ f.i > c) /\ Len(Terms(f)) \in Nat
      /\ f.i <= Len(Terms(f)) /\ Terms(f) = tree[f.n].terms /\ InRound(f) <= Len(Terms(f)) /\ InRound(f) \in Nat
  BY FrameFacts DEF Asks, Terms
<1>2. Op(f) = "container" => c = Len(Terms(f))
  <2>1. c <= Len(Terms(f))
    BY FrameFacts
  <2> QED
    BY <1>1, <2>1 DEF Excludes, Containers, Op
<1>3. CASE Op(f) = "or"
  <2>1. g = OrTakes(f, r)
    BY <1>3 DEF Takes
  <2> QED
    BY <1>1, <2>1 DEF OrTakes, Frames
<1>4. CASE Op(f) = "phrase" /\ f.step = "first"
  <2>1. g = PhraseFirst(f, r)
    BY <1>4 DEF Takes
  <2> QED
    BY <1>1, <1>4, <2>1 DEF PhraseFirst, Lost, Frames
<1>5. CASE Op(f) = "phrase" /\ f.step = "pass"
  <2>1. g = PhraseNext(f, r)
    BY <1>5 DEF Takes
  <2>2. /\ g.target = f.target /\ g.step \in {f.step, "lost"}
        /\ g.i = f.i \/ g.i = f.i + 1 \/ g.i = Len(Terms(f)) + 1
    BY <1>1, <1>5, <2>1 DEF PhraseNext, PhraseTakes, Lost, Frames
  <2> QED
    BY <1>1, <1>5, <2>2
<1>6. CASE Op(f) = "container" /\ f.step = "first"
  <2>1. g = Farther(f, r)
    BY <1>6 DEF Takes
  <2> QED
    BY <1>1, <1>6, <2>1 DEF Farther, Frames
<1>7. CASE Op(f) = "container" /\ f.step = "pass"
  <2>1. f.i <= c
    BY <1>1, <1>2, <1>7
  <2>2. g = ContainedNext(f, r)
    BY <1>1, <1>7, <2>1 DEF Takes
  <2>3. /\ g.target = f.target /\ g.step \in {f.step, "lost"}
        /\ g.i = f.i \/ g.i = f.i + 1 \/ g.i = c + 1
    BY <2>2 DEF ContainedNext, Lost, Frames
  <2> QED
    BY <1>1, <1>7, <2>1, <2>3
<1> QED
  BY <1>1, <1>3, <1>4, <1>5, <1>6, <1>7

LEMMA BecomesTarget ==
  ASSUME query \in DOMAIN Trees, ~Excludes, NEW f \in Frames, NEW g, Becomes(f, g)
  PROVE  g.target = f.target
<1>1. /\ PhrasePass(f).target = f.target /\ Lost(f).target = f.target
      /\ \A d : ContainerPass(f, d).target = f.target
  BY DEF PhrasePass, Lost, ContainerPass, Frames
<1> QED
  BY <1>1, TakesOn DEF Becomes

\* A Seek that asks its current term past the chunk is in its first round and
\* for a target past the chunk itself.
LEMMA AsksBeyond ==
  ASSUME TypeOK, NEW f \in Frames, FrameInv(tree, lists, loc, f), Asks(f), Op(f) # "phrase",
         f.target > LastEnd(lists) \/ TermTarget(f) > LastEnd(lists)
  PROVE  f.target > LastEnd(lists) /\ f.step = "first" /\ TermTarget(f) = f.target
<1>1. query \in DOMAIN Trees /\ lists \in Chunks
  BY DEF TypeOK
<1>2. /\ f.step \in {"first", "pass"} /\ Op(f) \in {"or", "container"}
      /\ f.target \in Nat /\ f.begin \in Nat /\ f.passEnd \in Nat /\ f.documentEnd \in Nat
      /\ LastEnd(lists) \in Nat
  BY <1>1, FrameFacts, LastEndFacts DEF Asks
<1>3. f.step = "first"
  <2>1. CASE Op(f) = "or"
    BY <2>1 DEF FrameInv, OrInv, Op
  <2>2. CASE Op(f) = "container"
    <3>1. SUFFICES ASSUME f.step = "pass" PROVE FALSE
      BY <1>2
    <3>2. /\ f.begin <= LastEnd(lists) /\ f.target <= f.passEnd /\ f.passEnd <= f.documentEnd
          /\ f.documentEnd <= LastEnd(lists)
      BY <2>2, <3>1 DEF FrameInv, ContainerInv, Op
    <3>3. TermTarget(f) = f.begin
      BY <2>2, <3>1 DEF TermTarget
    <3> QED
      BY <1>2, <3>2, <3>3
  <2> QED
    BY <1>2, <2>1, <2>2
<1>4. TermTarget(f) = f.target
  BY <1>2, <1>3 DEF TermTarget
<1> QED
  BY <1>3, <1>4

LEMMA BeyondStep ==
  ASSUME TypesInv, FramesInv(tree, lists, loc, stack), ~Excludes, Next, Beyond(lists, stack)
  PROVE  Beyond(lists, stack')
<1>1. TypeOK /\ Calling(tree, stack) /\ stack \in Seq(Frames) /\ Len(stack) \in Nat /\ query \in DOMAIN Trees
  BY DEF TypesInv, TypeOK
<1>2. CASE UNCHANGED stack
  BY <1>2
<1>3. CASE ReturnToRanker
  BY <1>3 DEF ReturnToRanker, Beyond
<1>4. CASE Pushed(stack, stack')
  <2>1. PICK n, l : /\ stack' = Append(stack, Called(n, l))
                    /\ stack # << >> => Asks(Last(stack)) /\ Op(Last(stack)) # "phrase" /\ l = TermTarget(Last(stack))
    BY <1>4 DEF Pushed
  <2> DEFINE f == Called(n, l)
  <2>2. f.target = l
    BY CalledFurther
  <2> HIDE DEF f
  <2>3. /\ Len(stack') = Len(stack) + 1 /\ stack'[Len(stack) + 1] = f
        /\ \A k \in 1..Len(stack) : stack'[k] = stack[k]
    BY <1>1, <2>1 DEF f
  <2>4. ASSUME NEW m \in 1..Len(stack'), NEW k \in 1..(m - 1), stack'[m].target > LastEnd(lists)
        PROVE  stack'[k].target > LastEnd(lists) /\ stack'[k].step = "first"
    <3>1. k \in 1..Len(stack) /\ stack'[k] = stack[k]
      BY <1>1, <2>3, <2>4
    <3>2. CASE m \in 1..Len(stack)
      BY <2>3, <2>4, <3>1, <3>2 DEF Beyond
    <3>3. CASE m = Len(stack) + 1
      <4>1. stack # << >> /\ Len(stack) \in 1..Len(stack)
        BY <1>1, <3>1
      <4>2. Last(stack) \in Frames /\ Last(stack) = stack[Len(stack)]
        BY <1>1, <4>1, TopFacts
      <4>3. l > LastEnd(lists)
        BY <2>2, <2>3, <2>4, <3>3
      <4>4. FrameInv(tree, lists, loc, Last(stack))
        BY <4>1, <4>2 DEF FramesInv
      <4>5. Last(stack).target > LastEnd(lists) /\ Last(stack).step = "first"
        BY <1>1, <2>1, <4>1, <4>2, <4>3, <4>4, AsksBeyond
      <4>6. CASE k = Len(stack)
        BY <3>1, <4>2, <4>5, <4>6
      <4>7. CASE k # Len(stack)
        <5>1. k \in 1..(Len(stack) - 1)
          BY <1>1, <3>1, <4>7
        <5> QED
          BY <3>1, <4>1, <4>2, <4>5, <5>1 DEF Beyond
      <4> QED
        BY <4>6, <4>7
    <3> QED
      BY <1>1, <2>3, <3>2, <3>3
  <2> QED
    BY <2>4 DEF Beyond
<1>5. ASSUME NEW p \in 1..Len(stack), NEW g, Becomes(stack[p], g), Changed(stack, stack', p, g)
      PROVE  Beyond(lists, stack')
  <2>1. stack[p] \in Frames
    BY <1>1
  <2>2. g.target = stack[p].target
    BY <1>1, <1>5, <2>1, BecomesTarget
  <2>3. ASSUME NEW m \in 1..Len(stack'), NEW k \in 1..(m - 1), stack'[m].target > LastEnd(lists)
        PROVE  stack'[k].target > LastEnd(lists) /\ stack'[k].step = "first"
    <3>1. stack'[k] = stack[k] /\ m \in 1..Len(stack)
      BY <1>1, <1>5, <2>3 DEF Changed
    <3>2. stack'[m].target = stack[m].target
      <4>1. m = p \/ m \in 1..(p - 1)
        BY <1>5, <2>3 DEF Changed
      <4> QED
        BY <1>5, <2>2, <4>1 DEF Changed
    <3> QED
      BY <2>3, <3>1, <3>2 DEF Beyond
  <2> QED
    BY <2>3 DEF Beyond
<1> QED
  BY <1>1, <1>2, <1>3, <1>4, <1>5, StackChanges

\* A Seek that is over a term stays over it, and is over its current one when
\* it has the result.
LEMMA OverChanged ==
  ASSUME TypesInv, SeeksInv(tree, lists, loc, stack), ~Excludes, Beyond(lists, stack),
         stack # << >>, stack[Len(stack)].target > LastEnd(lists),
         NEW p \in 1..Len(stack), NEW g, Becomes(stack[p], g), Changed(stack, stack', p, g), docEnd.offEnd,
         NEW c \in DOMAIN tree, tree[c].op = "container",
         Over(tree, stack, c) \/ (stack[Len(stack)].n = c /\ stack[Len(stack)].step = "lost")
  PROVE  Over(tree, stack', c)
<1> DEFINE f == stack[p]
<1>1. TypeOK /\ Calling(tree, stack) /\ stack \in Seq(Frames) /\ Len(stack) \in Nat \ {0} /\ query \in DOMAIN Trees
  BY DEF TypesInv, TypeOK
<1>2. f \in Frames /\ FrameInv(tree, lists, loc, f) /\ \A k \in 1..Len(stack) : stack[k] \in Frames
  BY <1>1 DEF SeeksInv, FramesInv
<1>3. /\ Op(f) \in {"or", "phrase", "container"} /\ f.n \in DOMAIN tree /\ f.i \in Nat \ {0}
      /\ Terms(f) = tree[f.n].terms /\ Len(Terms(f)) \in Nat
  BY <1>1, <1>2, FrameFacts DEF Terms
<1> HIDE DEF f
<1>4. g.n = f.n
  BY <1>1, <1>2, BecomesReader DEF f
<1>5. /\ Len(stack') = p /\ stack'[p] = g /\ p \in Nat \ {0} /\ p <= Len(stack)
      /\ \A k \in 1..(p - 1) : stack'[k] = stack[k]
  BY <1>1 DEF Changed
<1>6. (Asks(f) /\ \E r \in Results : g = Takes(f, r)) \/ (GoesOn(f) /\ Op(f) = "phrase")
  BY DEF Becomes, f
<1>7. ASSUME Asks(f)
      PROVE  g.i \in Nat /\ g.i >= f.i /\ (Op(f) # "phrase" /\ f.step = "first" => g.i = f.i + 1)
  <2>1. PICK r \in Results : g = Takes(f, r)
    BY <1>1, <1>2, <1>6, <1>7, FrameFacts DEF Asks, GoesOn, RoundDone
  <2>2. g \in Frames
    BY <1>1, <1>2, <1>7, <2>1, TakesTyped
  <2> QED
    BY <1>1, <1>2, <1>7, <2>1, <2>2, TakesOn, FrameFacts
\* f is called by what is under its current term.
<1>8. ASSUME p < Len(stack)
      PROVE  Asks(f) /\ Op(f) # "phrase" /\ f.step = "first" /\ f.i <= Len(Terms(f))
  <2>1. p \in 1..(Len(stack) - 1)
    BY <1>1, <1>5, <1>8
  <2>2. Calls(tree, f, stack[p + 1])
    BY <2>1 DEF Calling, f, TypesInv
  <2>3. Len(stack) \in 1..Len(stack)
    BY <1>1
  <2>4. f.step = "first"
    BY <2>1, <2>3 DEF Beyond, f
  <2>5. Op(f) # "phrase" /\ f.i \in DOMAIN tree[f.n].terms
    BY <2>2 DEF Calls, Op
  <2>6. Asks(f)
    BY <1>1, <1>2, <2>2, CallsFacts, SMTT(30)
  <2> QED
    BY <1>1, <1>2, <2>4, <2>5, <2>6, FrameFacts DEF Terms
<1>9. ASSUME NEW j \in 1..(f.i - 1), j <= Len(Terms(f)), c \in tree[Terms(f)[j]].under
      PROVE  Over(tree, stack', c)
  <2>1. Asks(f)
    <3>1. SUFFICES ASSUME Op(f) = "phrase" PROVE FALSE
      BY <1>6
    <3>2. Terms(f)[j] \in Words
      BY <1>1, <1>3, <1>9, <3>1, TermsFacts, SMTT(30) DEF Op
    <3>3. tree[Terms(f)[j]].under = {Terms(f)[j]} /\ tree[Terms(f)[j]].op = "word"
      BY <1>1, <3>2, UnderFacts DEF Words
    <3> QED
      BY <1>9, <3>3
  <2>2. j \in 1..(g.i - 1) /\ p \in 1..Len(stack')
    BY <1>3, <1>5, <1>7, <1>9, <2>1
  <2> QED
    BY <1>3, <1>4, <1>5, <1>9, <2>2, ZenonT(30) DEF Over
<1>10. ASSUME p < Len(stack),
              c \in tree[stack[Len(stack)].n].under \/ \E k \in (p + 1)..Len(stack) : c \in tree[stack[k].n].under
       PROVE  Over(tree, stack', c)
  <2>1. PICK k \in 1..Len(stack) : p \in 1..(k - 1) /\ c \in tree[stack[k].n].under
    <3>1. Len(stack) \in (p + 1)..Len(stack)
      BY <1>1, <1>5, <1>10
    <3>2. PICK k \in (p + 1)..Len(stack) : c \in tree[stack[k].n].under
      BY <1>10, <3>1
    <3>3. k \in 1..Len(stack) /\ p \in 1..(k - 1)
      BY <1>1, <1>5, SMTT(30)
    <3> QED
      BY <3>2, <3>3
  <2>2. c \in tree[tree[f.n].terms[f.i]].under
    BY <2>1 DEF SeeksInv, Shape, f
  <2>3. f.i \in 1..(g.i - 1) /\ p \in 1..Len(stack') /\ f.i <= Len(tree[f.n].terms)
    BY <1>3, <1>5, <1>7, <1>8, <1>10
  <2> QED
    BY <1>4, <1>5, <2>2, <2>3 DEF Over
<1>11. CASE stack[Len(stack)].n = c /\ stack[Len(stack)].step = "lost"
  <2>1. p # Len(stack)
    BY <1>6, <1>11 DEF f, Asks, GoesOn, RoundDone
  <2>2. c \in tree[stack[Len(stack)].n].under
    BY <1>1, <1>11, UnderFacts
  <2> QED
    BY <1>5, <1>10, <2>1, <2>2
<1>12. CASE Over(tree, stack, c)
  <2>1. PICK k \in 1..Len(stack) : \E j \in 1..(stack[k].i - 1) :
          j <= Len(tree[stack[k].n].terms) /\ c \in tree[tree[stack[k].n].terms[j]].under
    BY <1>12 DEF Over
  <2>2. PICK j \in 1..(stack[k].i - 1) :
          j <= Len(tree[stack[k].n].terms) /\ c \in tree[tree[stack[k].n].terms[j]].under
    BY <2>1
  <2>3. CASE k = p
    BY <1>3, <1>9, <2>2, <2>3, SMTT(30) DEF f
  <2>4. CASE k < p
    <3>1. k \in 1..(p - 1) /\ k \in 1..Len(stack')
      BY <1>5, <2>4
    <3> QED
      BY <1>5, <2>2, <3>1 DEF Over
  <2>5. CASE k > p
    <3>1. k \in (p + 1)..Len(stack) /\ p < Len(stack)
      BY <1>1, <1>5, <2>5
    <3>2. stack[k] \in Frames
      BY <1>2
    <3>3. stack[k].n \in DOMAIN tree /\ j \in 1..Len(tree[stack[k].n].terms)
      BY <1>1, <2>2, <3>2, FrameFacts DEF Terms
    <3>4. c \in tree[stack[k].n].under
      BY <1>1, <2>2, <3>3, UnderFacts
    <3> QED
      BY <1>10, <3>1, <3>4
  <2> QED
    BY <1>1, <1>5, <2>3, <2>4, <2>5, SMTT(30)
<1> QED
  BY <1>11, <1>12

LEMMA OffEndStep ==
  ASSUME TypesInv, SeeksInv(tree, lists, loc, stack), ~Excludes, Next, Beyond(lists, stack),
         OffEnd(tree, lists, docEnd, stack)
  PROVE  status' = "search" => OffEnd(tree, lists, docEnd', stack')
<1>1. TypeOK /\ Calling(tree, stack) /\ stack \in Seq(Frames) /\ Len(stack) \in Nat /\ query \in DOMAIN Trees
      /\ lists \in Chunks
  BY DEF TypesInv, TypeOK
<1>2. CASE UNCHANGED <<stack, docEnd>>
  BY <1>2
<1>3. CASE ReturnToRanker
  <2>1. docEnd'.offEnd => status' # "search"
    BY <1>1, <1>3 DEF ReturnToRanker, FindDocument, NoDocument, EndSearch, OffEnd, Searching, RankDocument
  <2> QED
    BY <2>1 DEF OffEnd
<1>4. CASE Pushed(stack, stack') /\ UNCHANGED docEnd
  <2>1. SUFFICES ASSUME docEnd.offEnd PROVE OffEnd(tree, lists, docEnd, stack')
    BY <1>4 DEF OffEnd
  <2>2. /\ stack # << >> /\ stack[Len(stack)].target > LastEnd(lists)
    BY <2>1 DEF OffEnd
  <2>3. PICK c \in DOMAIN tree : /\ tree[c].op = "container"
                                 /\ \/ Over(tree, stack, c)
                                    \/ stack[Len(stack)].n = c /\ stack[Len(stack)].step = "lost"
    BY <2>1 DEF OffEnd
  <2>4. /\ Last(stack) \in Frames /\ Last(stack) = stack[Len(stack)] /\ Len(stack) \in 1..Len(stack)
    BY <1>1, <2>2, TopFacts
  <2>5. PICK n, l : /\ stack' = Append(stack, Called(n, l)) /\ Asks(Last(stack)) /\ Op(Last(stack)) # "phrase"
                    /\ l = TermTarget(Last(stack))
    BY <1>4, <2>2 DEF Pushed
  <2> DEFINE f == Called(n, l)
  <2>6. f.target = l
    BY CalledFurther
  <2> HIDE DEF f
  <2>7. /\ Len(stack') = Len(stack) + 1 /\ stack'[Len(stack) + 1] = f /\ stack' # << >>
        /\ \A k \in 1..Len(stack) : stack'[k] = stack[k]
    BY <1>1, <2>5 DEF f
  <2>8. FrameInv(tree, lists, loc, Last(stack))
    BY <2>4 DEF SeeksInv, FramesInv
  <2>9. l > LastEnd(lists)
    BY <1>1, <2>2, <2>4, <2>5, <2>8, AsksBeyond
  <2>10. Over(tree, stack, c)
    BY <2>3, <2>4, <2>5 DEF Asks
  <2>11. Over(tree, stack', c)
    <3>1. PICK k \in 1..Len(stack) : \E j \in 1..(stack[k].i - 1) :
            j <= Len(tree[stack[k].n].terms) /\ c \in tree[tree[stack[k].n].terms[j]].under
      BY <2>10 DEF Over
    <3>2. k \in 1..Len(stack') /\ stack'[k] = stack[k]
      BY <1>1, <2>7
    <3> QED
      BY <3>1, <3>2 DEF Over
  <2> QED
    BY <2>3, <2>6, <2>7, <2>9, <2>11 DEF OffEnd
<1>5. ASSUME NEW p \in 1..Len(stack), NEW g, Becomes(stack[p], g), Changed(stack, stack', p, g)
      PROVE  OffEnd(tree, lists, docEnd', stack')
  <2> DEFINE f == stack[p]
  <2>1. /\ f \in Frames /\ FrameInv(tree, lists, loc, f) /\ p \in Nat \ {0} /\ Len(stack) \in 1..Len(stack)
        /\ f.target \in Nat /\ f.end \in Nat /\ LastEnd(lists) \in Nat
    <3>1. f \in Frames /\ FrameInv(tree, lists, loc, f) /\ p \in Nat \ {0} /\ Len(stack) \in 1..Len(stack)
      BY <1>1 DEF SeeksInv, FramesInv
    <3> QED
      BY <1>1, <3>1, FrameFacts, LastEndFacts
  <2> HIDE DEF f
  <2>2. g.target = f.target /\ g.n = f.n
    BY <1>1, <1>5, <2>1, BecomesTarget, BecomesReader DEF f
  <2>3. Len(stack') = p /\ stack'[p] = g /\ stack' # << >>
    BY <1>5, <2>1 DEF Changed
  <2>4. CASE docEnd.offEnd
    <3>1. /\ stack # << >> /\ stack[Len(stack)].target > LastEnd(lists)
      BY <2>4 DEF OffEnd
    <3>2. PICK c \in DOMAIN tree : /\ tree[c].op = "container"
                                   /\ \/ Over(tree, stack, c)
                                      \/ stack[Len(stack)].n = c /\ stack[Len(stack)].step = "lost"
      BY <2>4 DEF OffEnd
    <3>3. Over(tree, stack', c)
      BY <1>5, <2>4, <3>1, <3>2, OverChanged
    <3>4. f.target > LastEnd(lists)
      <4>1. CASE p = Len(stack)
        BY <3>1, <4>1 DEF f
      <4>2. CASE p # Len(stack)
        <5>1. p \in 1..(Len(stack) - 1)
          BY <1>1, <1>5, <4>2
        <5> QED
          BY <2>1, <3>1, <5>1 DEF Beyond, f
      <4> QED
        BY <4>1, <4>2
    <3> QED
      BY <2>2, <2>3, <3>2, <3>3, <3>4 DEF OffEnd
  <2>5. CASE ~docEnd.offEnd
    <3>1. SUFFICES ASSUME docEnd'.offEnd PROVE OffEnd(tree, lists, docEnd', stack')
      BY DEF OffEnd
    <3>2. Op(f) = "container" /\ docEnd' = SeekEnd(f.end) /\ g = Lost(f)
      BY <1>5, <2>5, <3>1 DEF Becomes, f
    <3>3. f.end > LastEnd(lists)
      <4> DEFINE j == EndPost(lists[End], f.end)
      <4>0. f.end \in Int
        BY <2>1
      <4>1. /\ j = 0 => \A k \in DOMAIN lists[End] : lists[End][k] < f.end
        BY <1>1, <4>0, EndPostFacts
      <4>2. j = 0
        BY <3>1, <3>2 DEF SeekEnd
      <4>3. Len(lists[End]) \in DOMAIN lists[End]
        BY <1>1, LastEndFacts
      <4> QED
        BY <2>1, <4>1, <4>2, <4>3 DEF LastEnd
    <3>4. f.target > LastEnd(lists)
      BY <2>1, <3>2, <3>3 DEF FrameInv, ContainerInv, Op
    <3>5. g.step = "lost"
      BY <2>1, <3>2 DEF Lost, Frames
    <3>6. f.n \in DOMAIN tree /\ tree[f.n].op = "container"
      BY <1>1, <2>1, <3>2, FrameFacts DEF Op
    <3> QED
      BY <2>2, <2>3, <3>4, <3>5, <3>6 DEF OffEnd
  <2> QED
    BY <2>4, <2>5
<1> QED
  BY <1>1, <1>2, <1>3, <1>4, <1>5, StackChanges

LEMMA AnswersStay == Next => UNCHANGED answers \/ ReturnToRanker
  BY DEF Next, NextDocument, SeekTerm, SeekTermWord, SeekTermBelow, NextPhrasePass, NextContainerPass,
         GoRoundForEver, Return, OutOfTime, TimeIsUp, EndSearch, rankerVars

LEMMA RootTargetStep ==
  ASSUME TypesInv, AnswersInv, ~Excludes, Next, RootTarget(lists, stack, answers)
  PROVE  RootTarget(lists, stack', answers')
<1>1. TypeOK /\ Calling(tree, stack) /\ stack \in Seq(Frames) /\ Len(stack) \in Nat /\ query \in DOMAIN Trees
  BY DEF TypesInv, TypeOK
<1>2. CASE ReturnToRanker
  BY <1>2 DEF ReturnToRanker, RootTarget
<1>3. SUFFICES ASSUME ~ReturnToRanker PROVE RootTarget(lists, stack', answers)
  BY <1>2, AnswersStay
<1>4. CASE UNCHANGED <<stack, docEnd>>
  BY <1>4
<1>5. CASE Pushed(stack, stack')
  <2>1. PICK f : /\ stack' = Append(stack, f)
                 /\ stack = << >> => f = Called(Root, NextTarget)
    BY <1>5 DEF Pushed
  <2>2. CASE stack = << >>
    <3>1. f.target = NextTarget
      BY <2>1, <2>2, CalledFurther
    <3>2. stack'[1] = f
      BY <2>1, <2>2
    <3>3. status = "search"
      BY DEF Next, NextDocument, SeekTerm, NextPhrasePass, NextContainerPass, GoRoundForEver, Return,
             ReturnToRanker, OutOfTime, Searching
    <3>4. docEnd.endLocation = IF answers = << >> THEN 0 ELSE lists[End][LastDoc(answers)]
      BY <2>2, <3>3 DEF AnswersInv, Onward
    <3>5. answers # << >> => lists[End][LastDoc(answers)] > 0 /\ lists[End][LastDoc(answers)] \in Nat
      BY <1>1, LastDocFacts DEF AnswersInv
    <3>6. NextTarget = IF answers = << >> THEN 0 ELSE lists[End][LastDoc(answers)] + 1
      BY <3>4, <3>5 DEF NextTarget
    <3> QED
      BY <3>1, <3>2, <3>6 DEF RootTarget
  <2>3. CASE stack # << >>
    <3>1. stack'[1] = stack[1]
      BY <1>1, <2>1, <2>3
    <3> QED
      BY <2>3, <3>1 DEF RootTarget
  <2> QED
    BY <2>2, <2>3
<1>6. ASSUME NEW p \in 1..Len(stack), NEW g, Becomes(stack[p], g), Changed(stack, stack', p, g)
      PROVE  RootTarget(lists, stack', answers)
  <2>1. stack[p] \in Frames /\ stack # << >>
    BY <1>1
  <2>2. g.target = stack[p].target
    BY <1>1, <1>6, <2>1, BecomesTarget
  <2>3. stack'[1].target = stack[1].target
    <3>1. CASE p = 1
      BY <1>6, <2>2, <3>1 DEF Changed
    <3>2. CASE p # 1
      <4>1. 1 \in 1..(p - 1)
        BY <1>6, <3>2
      <4> QED
        BY <1>6, <4>1 DEF Changed
    <3> QED
      BY <3>1, <3>2
  <2> QED
    BY <2>1, <2>3 DEF RootTarget
<1> QED
  BY <1>1, <1>3, <1>4, <1>5, <1>6, StackChanges

\* A Seek past the chunk: its last document has been ranked.
LEMMA LastIsAnswered ==
  ASSUME TypesInv, AnswersInv, Beyond(lists, stack), RootTarget(lists, stack, answers),
         stack # << >>, stack[Len(stack)].target > LastEnd(lists)
  PROVE  Len(lists[End]) \in Answered
<1>1. TypeOK /\ stack \in Seq(Frames) /\ Len(stack) \in Nat \ {0} /\ lists \in Chunks
  BY DEF TypesInv, TypeOK
<1>2. stack[1].target > LastEnd(lists)
  <2>1. CASE Len(stack) = 1
    BY <2>1
  <2>2. CASE Len(stack) # 1
    <3> DEFINE m == Len(stack)
    <3>0. m \in Nat /\ m # 0
      BY <1>1, Zenon
    <3>1. m \in Nat /\ m > 1
      BY <2>2, <3>0
    <3> HIDE DEF m
    <3>2. 1 \in 1..(m - 1) /\ m \in 1..m
      BY <3>1
    <3> QED
      BY <3>2 DEF Beyond, m
  <2> QED
    BY <2>1, <2>2
<1>3. LastEnd(lists) \in Nat /\ Len(lists[End]) \in DOMAIN lists[End]
      /\ lists[End][Len(lists[End])] = LastEnd(lists)
  BY <1>1, LastEndFacts DEF LastEnd
<1>4. answers # << >>
  BY <1>2, <1>3 DEF RootTarget
<1> DEFINE d == LastDoc(answers)
           n == Len(lists[End])
<1>5. d \in Documents /\ lists[End][d] \in Nat /\ Len(answers) \in DOMAIN answers
  BY <1>1, <1>4, LastDocFacts, AnswersFacts DEF AnswersInv
<1>6. stack[1].target = lists[End][d] + 1
  BY <1>4 DEF RootTarget
<1>7. lists[End][d] >= lists[End][n]
  BY <1>2, <1>3, <1>5, <1>6
<1>8. DOMAIN lists[End] = 1..n /\ \A i, j \in DOMAIN lists[End] : i < j => lists[End][i] < lists[End][j]
  BY <1>1, EndFacts, ListFacts
<1>9. d = n
  <2>1. d \in 1..n /\ n \in Nat
    BY <1>3, <1>5, <1>8 DEF Documents
  <2>2. ~(d < n)
    BY <1>3, <1>5, <1>7, <1>8, <2>1, SMTT(30)
  <2> QED
    BY <2>1, <2>2
<1> QED
  BY <1>5, <1>9 DEF Answered, LastDoc

\* A search that crashes does so where it may.
CrashesThere ==
  \/ Excludes
  \/ \E n \in Phrases : \E i, j \in DOMAIN tree[n].terms :
       i # j /\ tree[tree[n].terms[i]].key = tree[tree[n].terms[j]].key
  \/ (\E m, n \in Containers : m # n) /\ Len(lists[End]) \in Answered

LEMMA CrashOfWord ==
  ASSUME TypesInv, FramesInv(tree, lists, loc, stack),
         \A k \in 1..Len(stack) : OnFurther(tree, stack[k]),
         SeekTerm, status' = "crash"
  PROVE  CrashesThere
<1>1. TypeOK /\ stack \in Seq(Frames) /\ stack # << >> /\ status = "search"
  BY DEF TypesInv, TypeOK, SeekTerm, Searching
<1>2. Top \in Frames /\ Len(stack) \in 1..Len(stack) /\ Top = stack[Len(stack)]
  BY <1>1, TopFacts DEF Top
<1>3. Asks(Top) /\ TermTarget(Top) < 0
  BY <1>1 DEF SeekTerm, SeekTermWord, SeekTermBelow, rankerVars
<1>4. FrameInv(tree, lists, loc, Top) /\ OnFurther(tree, Top)
  BY <1>2 DEF FramesInv
<1>5. Top.n \in Phrases /\ ~DistinctKeys(tree, Top.n)
  BY <1>1, <1>2, <1>3, <1>4, WrapsWhere
<1> QED
  BY <1>5 DEF CrashesThere, DistinctKeys

LEMMA CrashOfContainer ==
  ASSUME TypesInv, AnswersInv, NextContainerPass, status' = "crash",
         ~Excludes => /\ Beyond(lists, stack) /\ RootTarget(lists, stack, answers)
                      /\ OffEnd(tree, lists, docEnd, stack)
  PROVE  CrashesThere
<1>1. SUFFICES ASSUME ~Excludes PROVE CrashesThere
  BY DEF CrashesThere
<1>2. TypeOK /\ stack \in Seq(Frames) /\ stack # << >> /\ status = "search" /\ query \in DOMAIN Trees
      /\ Op(Top) = "container" /\ GoesOn(Top) /\ docEnd.offEnd /\ Calling(tree, stack)
  BY DEF TypesInv, TypeOK, NextContainerPass, Searching, rankerVars
<1>3. Top \in Frames /\ Len(stack) \in Nat \ {0} /\ Top = stack[Len(stack)] /\ \A k \in 1..Len(stack) : stack[k] \in Frames
  BY <1>2, TopFacts DEF Top
<1>4. stack[Len(stack)].target > LastEnd(lists)
  BY <1>1, <1>2 DEF OffEnd
<1>5. Len(lists[End]) \in Answered
  BY <1>1, <1>2, <1>4, LastIsAnswered
<1>6. PICK c \in DOMAIN tree : /\ tree[c].op = "container"
                               /\ \/ Over(tree, stack, c)
                                  \/ stack[Len(stack)].n = c /\ stack[Len(stack)].step = "lost"
  BY <1>1, <1>2 DEF OffEnd
<1>7. Over(tree, stack, c)
  BY <1>2, <1>3, <1>6 DEF GoesOn, RoundDone
<1>8. PICK k \in 1..Len(stack) : \E j \in 1..(stack[k].i - 1) :
        j <= Len(tree[stack[k].n].terms) /\ c \in tree[tree[stack[k].n].terms[j]].under
  BY <1>7 DEF Over
<1>9. PICK j \in 1..(stack[k].i - 1) :
        j <= Len(tree[stack[k].n].terms) /\ c \in tree[tree[stack[k].n].terms[j]].under
  BY <1>8
<1>10. stack[k].n \in DOMAIN tree /\ stack[k].i \in Nat /\ j \in 1..Len(tree[stack[k].n].terms)
       /\ Top.n \in DOMAIN tree /\ Len(tree[stack[k].n].terms) \in Nat
  BY <1>2, <1>3, <1>9, FrameFacts DEF Terms
<1>11. c # Top.n
  <2>1. CASE k = Len(stack)
    <3>1. stack[k].n \notin tree[tree[stack[k].n].terms[j]].under
      BY <1>2, <1>10, UnderFacts
    <3> QED
      BY <1>3, <1>9, <2>1, <3>1
  <2>2. CASE k # Len(stack)
    <3>1. k \in 1..(Len(stack) - 1) /\ Len(stack) \in 1..Len(stack)
      BY <1>3, <2>2, SMTT(30)
    <3>2. Top.n \in tree[tree[stack[k].n].terms[stack[k].i]].under
      <4>1. tree[Top.n].under \subseteq tree[tree[stack[k].n].terms[stack[k].i]].under
        BY <1>3, <3>1 DEF AnswersInv, SeeksInv, Shape
      <4> QED
        BY <1>2, <1>10, <4>1, UnderFacts
    <3>3. stack[k].i \in 1..Len(tree[stack[k].n].terms)
      BY <1>2, <1>10, <3>1, TermsFacts DEF Calling, Calls
    <3>4. j # stack[k].i
      BY <1>9, <1>10
    <3> DEFINE n == stack[k].n
               i == stack[k].i
    <3>5. n \in DOMAIN tree /\ i \in 1..Len(tree[n].terms) /\ j \in 1..Len(tree[n].terms) /\ j # i
          /\ c \in tree[tree[n].terms[j]].under /\ Top.n \in tree[tree[n].terms[i]].under
      BY <1>9, <1>10, <3>2, <3>3, <3>4
    <3> HIDE DEF n, i
    <3>6. tree[tree[n].terms[j]].under \cap tree[tree[n].terms[i]].under = {}
      BY <1>2, <3>5, UnderFacts
    <3> QED
      BY <3>5, <3>6
  <2> QED
    BY <2>1, <2>2
<1> QED
  BY <1>2, <1>5, <1>6, <1>10, <1>11 DEF CrashesThere, Containers, Op

LEMMA CrashOfRoot ==
  ASSUME TypesInv, AnswersInv, ReturnToRanker, status' = "crash",
         ~Excludes => OffEnd(tree, lists, docEnd, stack)
  PROVE  CrashesThere
<1>1. SUFFICES ASSUME ~Excludes PROVE FALSE
  BY DEF CrashesThere
<1>2. TypeOK /\ stack \in Seq(Frames) /\ stack # << >> /\ status = "search" /\ query \in DOMAIN Trees
      /\ lists \in Chunks /\ Finished(Top)
  BY DEF TypesInv, TypeOK, ReturnToRanker, Searching
<1>3. Top \in Frames /\ Len(stack) \in 1..Len(stack) /\ Top = stack[Len(stack)]
  BY <1>2, TopFacts DEF Top
<1> DEFINE p == PostOf(Top)
<1>4. docEnd.offEnd /\ p # Null
  BY <1>2 DEF ReturnToRanker, FindDocument, NoDocument, EndSearch, RankDocument
<1>5. Top.target > LastEnd(lists) /\ Top.target \in Nat
  BY <1>1, <1>2, <1>3, <1>4, FrameFacts DEF OffEnd
<1>6. FrameInv(tree, lists, loc, Top)
  BY <1>3 DEF AnswersInv, SeeksInv, FramesInv
<1>7. 0 \in 0..Highest
  BY HighestFacts
<1>8. Finds(tree, lists, loc, Top.n, Top.target, ResultOf(Top, 0))
  BY <1>2, <1>3, <1>6, <1>7, ResultFinds
<1>9. Stands(tree, lists, loc, p) /\ NotBefore(lists, loc[p], Top.target)
  BY <1>4, <1>8 DEF Finds, ResultOf, Result
<1>10. Len(lists[End]) \in DOMAIN lists[End] /\ LastEnd(lists) \in Nat
  BY <1>2, LastEndFacts
<1>11. /\ loc[p] \in Nat /\ loc[p] <= LastEnd(lists)
       /\ \A d \in DOMAIN lists[End] : lists[End][d] # loc[p]
  BY <1>2, <1>9, StandsFacts
<1>12. LastEnd(lists) # loc[p]
  BY <1>10, <1>11 DEF LastEnd
<1>13. LastEnd(lists) <= loc[p]
  BY <1>5, <1>9, <1>10 DEF NotBefore, LastEnd
<1> QED
  BY <1>10, <1>11, <1>12, <1>13

FaultsInv ==
  /\ \A k \in 1..Len(stack) : OnFurther(tree, stack[k])
  /\ ~Excludes =>
       /\ Beyond(lists, stack) /\ RootTarget(lists, stack, answers)
       /\ status = "search" => OffEnd(tree, lists, docEnd, stack)
  /\ FaultsOnlyWhere

LEMMA FaultsInvInit == Init => FaultsInv
<1> SUFFICES ASSUME Init PROVE FaultsInv
  OBVIOUS
<1>1. stack = << >> /\ ~docEnd.offEnd /\ status = "search"
  BY DEF Init, RankerInit
<1>2. Beyond(lists, stack) /\ RootTarget(lists, stack, answers) /\ OffEnd(tree, lists, docEnd, stack)
  BY <1>1 DEF Beyond, RootTarget, OffEnd
<1> QED
  BY <1>1, <1>2 DEF FaultsInv, FaultsOnlyWhere

LEMMA FaultsInvStep == TypesInv /\ AnswersInv /\ FaultsInv /\ [Next]_vars => FaultsInv'
<1> SUFFICES ASSUME TypesInv, AnswersInv, FaultsInv, [Next]_vars PROVE FaultsInv'
  OBVIOUS
<1>1. SeeksInv(tree, lists, loc, stack) /\ FramesInv(tree, lists, loc, stack)
  BY DEF AnswersInv, SeeksInv
<1>2. UNCHANGED <<lists, query>>
  BY DEF vars, chunkVars, Next, NextDocument, SeekTerm, NextPhrasePass, NextContainerPass,
         GoRoundForEver, Return, ReturnToRanker, OutOfTime
<1>3. tree' = tree /\ Excludes' = Excludes
  BY <1>2 DEF tree, Excludes, Containers
<1>4. CASE UNCHANGED vars
  BY <1>2, <1>3, <1>4 DEF vars, rankerVars, FaultsInv, FaultsOnlyWhere, Phrases, Containers, Answered
<1>5. CASE Next
  <2>1. status = "search"
    BY <1>5 DEF Next, NextDocument, SeekTerm, NextPhrasePass, NextContainerPass, GoRoundForEver, Return,
                ReturnToRanker, OutOfTime, Searching
  <2>2. \A k \in 1..Len(stack') : OnFurther(tree, stack'[k])
    BY <1>1, <1>5, FurtherStep DEF FaultsInv
  <2>3. ASSUME ~Excludes
        PROVE  /\ Beyond(lists, stack') /\ RootTarget(lists, stack', answers')
               /\ status' = "search" => OffEnd(tree, lists, docEnd', stack')
    BY <1>1, <1>5, <2>1, <2>3, BeyondStep, RootTargetStep, OffEndStep DEF FaultsInv
  <2>4. ASSUME status' = "hang" PROVE Excludes \/ \E n \in Phrases : Len(tree[n].terms) > 2
    <3>1. GoRoundForEver
      BY <1>5, <2>1, <2>4 DEF Next, NextDocument, SeekTerm, SeekTermWord, SeekTermBelow, NextPhrasePass,
           NextContainerPass, Return, ReturnToRanker, FindDocument, NoDocument, OutOfTime, TimeIsUp, EndSearch,
           RankDocument, rankerVars
    <3> QED
      BY <1>1, <3>1, HangsWhere DEF FaultsInv
  <2>5. ASSUME status' = "crash" PROVE CrashesThere /\ UNCHANGED answers
    <3>1. SeekTerm \/ NextContainerPass \/ (ReturnToRanker /\ UNCHANGED answers)
      BY <1>5, <2>1, <2>5 DEF Next, NextDocument, NextPhrasePass, GoRoundForEver, Return, ReturnToRanker,
           FindDocument, NoDocument, OutOfTime, TimeIsUp, EndSearch, RankDocument, rankerVars
    <3>2. UNCHANGED answers
      BY <3>1 DEF SeekTerm, SeekTermWord, SeekTermBelow, NextContainerPass, EndSearch, rankerVars
    <3> QED
      BY <1>1, <2>1, <2>5, <3>1, <3>2, CrashOfWord, CrashOfContainer, CrashOfRoot DEF FaultsInv
  <2>6. FaultsOnlyWhere'
    <3>1. Phrases' = Phrases /\ Containers' = Containers
      BY <1>3 DEF Phrases, Containers
    <3>2. UNCHANGED answers => Answered' = Answered
      BY DEF Answered
    <3> QED
      BY <1>2, <1>3, <2>4, <2>5, <3>1, <3>2 DEF FaultsOnlyWhere, CrashesThere
  <2> QED
    BY <1>2, <1>3, <2>2, <2>3, <2>6 DEF FaultsInv
<1> QED
  BY <1>4, <1>5

\* A search goes round for ever only for a query with NOT, or a phrase of three
\* words or more, and crashes only for a query with NOT, a phrase with a word
\* twice, or, with two containers, past the last document of the chunk.
THEOREM FaultsAreThere == Spec => []FaultsOnlyWhere
<1>1. FaultsInv => FaultsOnlyWhere
  BY DEF FaultsInv
<1> QED
  BY <1>1, FaultsInvInit, FaultsInvStep, TypesAlways, AnswersAlways, PTL DEF Spec
-----------------------------------------------------------------------------
(* The posts that a search of words passes over *)

\* Of every location there is a level, and of one behind it that level or a
\* higher one.
LEMMA LevelFacts ==
  /\ \A l \in Nat : HighBit(l) \in Levels /\ HighBit(l) \in Nat
  /\ \A l, m \in Nat : l <= m => HighBit(l) <= HighBit(m)
<1>1. /\ SYNCTABLESIZE \in Nat \ {0} /\ Levels = 0..(SYNCTABLESIZE - 1) /\ Floor[0] = 0
      /\ \A g \in Levels : Floor[g] \in Nat
  BY LevelsAssumption
<1>2. ASSUME NEW l \in Nat
      PROVE  /\ HighBit(l) \in Levels /\ Floor[HighBit(l)] <= l
             /\ \A g \in Levels : g > HighBit(l) => l < Floor[g]
  <2> DEFINE P == {k \in 0..(SYNCTABLESIZE - 1) : Floor[SYNCTABLESIZE - 1 - k] <= l}
  <2>1. P \subseteq Nat /\ SYNCTABLESIZE - 1 \in P
    BY <1>1
  <2> HIDE DEF P
  <2>2. PICK k \in P : \A g \in P : k <= g
    BY <2>1, EarliestFacts
  <2> DEFINE h == SYNCTABLESIZE - 1 - k
  <2>3. h \in Levels /\ Floor[h] <= l
    BY <1>1, <2>2 DEF P
  <2>4. ASSUME NEW g \in Levels, g > h PROVE l < Floor[g]
    <3>1. SYNCTABLESIZE - 1 - g \in 0..(SYNCTABLESIZE - 1) /\ SYNCTABLESIZE - 1 - (SYNCTABLESIZE - 1 - g) = g
      BY <1>1
    <3>2. k \in Nat /\ SYNCTABLESIZE - 1 - g < k
      BY <1>1, <2>1, <2>2, <2>4
    <3>3. SYNCTABLESIZE - 1 - g \notin P
      BY <1>1, <2>2, <3>1, <3>2
    <3> QED
      BY <1>1, <3>1, <3>3 DEF P
  <2> HIDE DEF h
  <2> QED
    BY <2>3, <2>4 DEF HighBit
<1>3. ASSUME NEW l \in Nat, NEW m \in Nat, l <= m PROVE HighBit(l) <= HighBit(m)
  <2>1. HighBit(l) \in Nat /\ HighBit(m) \in Nat
    BY <1>1, <1>2
  <2>2. ~(HighBit(m) < HighBit(l))
    <3>1. SUFFICES ASSUME HighBit(m) < HighBit(l) PROVE FALSE
      OBVIOUS
    <3>2. m < Floor[HighBit(l)] /\ Floor[HighBit(l)] <= l /\ Floor[HighBit(l)] \in Nat
      BY <1>1, <1>2, <2>1, <3>1
    <3> QED
      BY <1>3, <3>2
  <2> QED
    BY <2>1, <2>2
<1> QED
  BY <1>1, <1>2, <1>3

\* The first post of a level or a higher one.
FirstOf(list, h) ==
  CHOOSE j \in DOMAIN list : HighBit(list[j]) >= h /\ \A k \in 1..(j - 1) : HighBit(list[k]) < h

LEMMA FirstOfFacts ==
  ASSUME NEW list, NEW n \in Nat \ {0}, DOMAIN list = 1..n, \A k \in 1..n : list[k] \in Nat,
         NEW h \in Nat, HighBit(list[n]) >= h
  PROVE  /\ FirstOf(list, h) \in 1..n
         /\ \A k \in 1..(FirstOf(list, h) - 1) : HighBit(list[k]) < h
         /\ \A j \in 1..n : HighBit(list[j]) >= h /\ (\A k \in 1..(j - 1) : HighBit(list[k]) < h)
                              => FirstOf(list, h) = j
<1> DEFINE P == {j \in 1..n : HighBit(list[j]) >= h}
<1>1. \A k \in 1..n : HighBit(list[k]) \in Nat
  BY LevelFacts
<1>2. PICK m \in P : \A k \in P : m <= k
  <2>1. n \in P
    OBVIOUS
  <2>2. P \subseteq Nat
    OBVIOUS
  <2> HIDE DEF P
  <2> QED
    BY <2>1, <2>2, EarliestFacts
<1>3. m \in 1..n /\ HighBit(list[m]) >= h /\ \A k \in 1..(m - 1) : HighBit(list[k]) < h
  <2>1. ASSUME NEW k \in 1..(m - 1) PROVE HighBit(list[k]) < h
    <3>1. k \in 1..n /\ k \notin P
      BY <1>2
    <3>2. HighBit(list[k]) \in Nat
      BY <1>1, <3>1
    <3> QED
      BY <3>1, <3>2
  <2> QED
    BY <2>1
<1> HIDE DEF P
<1>4. /\ FirstOf(list, h) \in 1..n /\ HighBit(list[FirstOf(list, h)]) >= h
      /\ \A k \in 1..(FirstOf(list, h) - 1) : HighBit(list[k]) < h
  BY <1>3 DEF FirstOf
<1>5. ASSUME NEW j \in 1..n, HighBit(list[j]) >= h, \A k \in 1..(j - 1) : HighBit(list[k]) < h
      PROVE  FirstOf(list, h) = j
  <2> DEFINE e == FirstOf(list, h)
  <2>1. e \in 1..n /\ HighBit(list[e]) >= h /\ \A k \in 1..(e - 1) : HighBit(list[k]) < h
    BY <1>4
  <2> HIDE DEF e
  <2>2. ~(e < j)
    BY <1>1, <1>5, <2>1
  <2>3. ~(j < e)
    BY <1>1, <1>5, <2>1
  <2>4. e = j
    BY <2>1, <2>2, <2>3
  <2> QED
    BY <2>4 DEF e
<1> QED
  BY <1>4, <1>5

\* A post at or behind a location, and not behind the one that a Seek for that
\* location starts from, is one that a Seek starts from.
LEMMA SyncPostFacts ==
  ASSUME NEW list, NEW n \in Nat \ {0}, DOMAIN list = 1..n, Len(list) = n,
         \A k \in 1..n : list[k] \in Nat, \A i, k \in 1..n : i < k => list[i] < list[k],
         NEW l \in Nat, NEW j \in 1..n, list[j] >= l, ~(j > SyncPost(list, l))
  PROVE  SyncPost(list, list[j]) = j
<1> DEFINE h == HighBit(l)
           g == HighBit(list[j])
           last == HighBit(list[n])
<1>1. list[j] <= list[n]
  <2>1. j = n \/ (j < n /\ n \in 1..n)
    OBVIOUS
  <2> QED
    BY <2>1
<1>2. h \in Nat /\ g \in Nat /\ last \in Nat /\ h <= g /\ g <= last
  <2>1. list[j] \in Nat /\ list[n] \in Nat /\ l <= list[j] /\ n \in 1..n
    OBVIOUS
  <2> QED
    BY <1>1, <2>1, LevelFacts
<1>3. SyncPost(list, l) = IF h = 0 THEN 1 ELSE FirstOf(list, h)
  <2>1. h <= last
    BY <1>2
  <2> QED
    BY <2>1 DEF SyncPost, FirstOf
<1>4. SyncPost(list, list[j]) = IF g = 0 THEN 1 ELSE FirstOf(list, g)
  BY <1>2 DEF SyncPost, FirstOf
<1>5. \A k \in 1..(j - 1) : HighBit(list[k]) \in Nat
  <2>1. \A k \in 1..(j - 1) : list[k] \in Nat
    OBVIOUS
  <2> QED
    BY <2>1, LevelFacts
<1> DEFINE s == SyncPost(list, l)
<1>6. last >= h /\ last >= g
  BY <1>2
<1>7. h # 0 => \A k \in 1..(s - 1) : HighBit(list[k]) < h
  BY <1>2, <1>3, <1>6, FirstOfFacts
<1>8. s \in Nat /\ j <= s
  BY <1>2, <1>3, <1>6, FirstOfFacts, SMTT(30)
<1>9. h = 0 => s = 1
  BY <1>3
<1>10. g # 0 /\ (\A k \in 1..(j - 1) : HighBit(list[k]) < g) => SyncPost(list, list[j]) = j
  <2>1. SUFFICES ASSUME g # 0, \A k \in 1..(j - 1) : HighBit(list[k]) < g
                 PROVE  SyncPost(list, list[j]) = j
    OBVIOUS
  <2>2. HighBit(list[j]) >= g
    BY <1>2
  <2>3. FirstOf(list, g) = j
    BY <1>2, <1>6, <2>1, <2>2, FirstOfFacts
  <2> QED
    BY <1>4, <2>1, <2>3
<1>11. g = 0 => SyncPost(list, list[j]) = 1
  BY <1>4
<1> HIDE DEF h, g, last, s
<1>12. \A k \in 1..(j - 1) : HighBit(list[k]) < g
  <2>1. CASE h = 0
    BY <1>8, <1>9, <2>1
  <2>2. CASE h # 0
    BY <1>2, <1>5, <1>7, <1>8, <2>2
  <2> QED
    BY <2>1, <2>2
<1>13. CASE g = 0
  <2>1. j = 1
    <3>1. h = 0
      BY <1>2, <1>13
    <3> QED
      BY <1>8, <1>9, <3>1
  <2> QED
    BY <1>11, <1>13, <2>1
<1>14. CASE g # 0
  BY <1>10, <1>12, <1>14
<1> QED
  BY <1>13, <1>14

-----------------------------------------------------------------------------
(* What a search of words misses *)

\* Of the posts from a to before b, a Seek starts from each.
OnlySync(S, key, a, b) ==
  key \in DOMAIN S =>
    \A j \in DOMAIN S[key] : a <= S[key][j] /\ S[key][j] < b => SyncPost(S[key], S[key][j]) = j

\* The words under n have nothing else there.
Passed(T, S, n, a, b) == \A w \in T[n].under : T[w].op = "word" => OnlySync(S, T[w].key, a, b)

\* What a Seek of n for l that finds r has passed over.
PassedBy(T, S, n, l, r) == Passed(T, S, n, l, IF r.post = Null THEN Highest ELSE r.at)

\* What the terms of an OR have passed over.
OrPassed(T, S, f) == \A j \in 1..(f.i - 1) : Passed(T, S, T[f.n].terms[j], f.target, f.start)

LEMMA WordPasses ==
  ASSUME TypeOK, NEW n \in Words, tree[n].key \in DOMAIN lists, NEW l \in Nat,
         NEW at, at = SeekWord(lists[tree[n].key], l)
  PROVE  PassedBy(tree, lists, n, l, Result(IF at < l THEN Null ELSE n, at, at))
<1> DEFINE key == tree[n].key
           list == lists[key]
           len == Len(list)
           later == {k \in 1..len : k > SyncPost(list, l) /\ list[k] >= l}
           b == IF at < l THEN Highest ELSE at
<1>1. lists \in Chunks /\ query \in DOMAIN Trees /\ key \in DOMAIN lists /\ n \in DOMAIN tree
  BY DEF TypeOK, Words
<1>2. /\ len \in Nat \ {0} /\ DOMAIN list = 1..len
      /\ \A k \in 1..len : list[k] \in Nat
      /\ \A i, k \in 1..len : i < k => list[i] < list[k]
  BY <1>1, ListFacts
<1>3. at = list[IF later = {} THEN len ELSE Earliest(later)]
  BY <1>2 DEF SeekWord, WordPost
<1>4. later # {} => Earliest(later) \in later /\ \A k \in later : Earliest(later) <= k
  <2>1. later \subseteq Nat
    OBVIOUS
  <2> HIDE DEF later
  <2> QED
    BY <2>1, EarliestFacts
<1> HIDE DEF list, len
<1>5. ASSUME NEW j \in 1..len, l <= list[j], list[j] < b PROVE j \notin later
  <2>1. SUFFICES ASSUME j \in later PROVE FALSE
    OBVIOUS
  <2> DEFINE e == Earliest(later)
  <2>2. e \in later /\ e <= j
    BY <1>4, <2>1
  <2>3. at = list[e]
    BY <1>3, <2>1
  <2> HIDE DEF e
  <2>4. e \in 1..len /\ list[e] >= l /\ list[e] <= list[j]
    <3>1. e \in 1..len /\ list[e] >= l /\ (e = j \/ e < j)
      BY <2>2
    <3> QED
      BY <1>2, <3>1
  <2>5. ~(at < l)
    BY <1>2, <2>3, <2>4
  <2> QED
    BY <1>2, <1>5, <2>3, <2>4, <2>5
<1>6. ASSUME NEW j \in 1..len, l <= list[j], list[j] < b PROVE SyncPost(list, list[j]) = j
  <2>1. ~(j > SyncPost(list, l))
    BY <1>5, <1>6
  <2> QED
    BY <1>2, <1>6, <2>1, SyncPostFacts DEF len
<1> HIDE DEF b
<1>7. OnlySync(lists, key, l, b)
  BY <1>2, <1>6 DEF OnlySync, list
<1>8. tree[n].under = {n}
  BY <1>1, UnderFacts DEF Words
<1>9. PassedBy(tree, lists, n, l, Result(IF at < l THEN Null ELSE n, at, at)) <=> Passed(tree, lists, n, l, b)
  <2>1. n # Null
    BY <1>1, TreeFacts
  <2> QED
    BY <2>1 DEF PassedBy, Result, b
<1> QED
  BY <1>7, <1>8, <1>9 DEF Passed

\* Less has been passed over where less is asked.
LEMMA PassedLess ==
  ASSUME lists \in Chunks, NEW n, NEW a, NEW b \in Nat, NEW c \in Nat, c <= b,
         Passed(tree, lists, n, a, b)
  PROVE  Passed(tree, lists, n, a, c)
<1>1. ASSUME NEW key, OnlySync(lists, key, a, b) PROVE OnlySync(lists, key, a, c)
  <2>1. SUFFICES ASSUME key \in DOMAIN lists, NEW j \in DOMAIN lists[key],
                        a <= lists[key][j], lists[key][j] < c
                 PROVE  SyncPost(lists[key], lists[key][j]) = j
    BY DEF OnlySync
  <2>2. lists[key][j] \in Nat
    BY <2>1, ListFacts
  <2>3. lists[key][j] < b
    BY <2>1, <2>2
  <2> QED
    BY <1>1, <2>1, <2>3 DEF OnlySync
<1> QED
  BY <1>1 DEF Passed

\* What an OR has passed over once its current term has answered.
LEMMA OrTakesPasses ==
  ASSUME lists \in Chunks, query \in DOMAIN Trees, NEW f \in Frames, NEW r \in Results,
         Op(f) = "or", f.i \in 1..Len(Terms(f)), OrPassed(tree, lists, f),
         PassedBy(tree, lists, Term(f), f.target, r)
  PROVE  OrPassed(tree, lists, OrTakes(f, r)) /\ OrTakes(f, r).target = f.target
<1> DEFINE g == OrTakes(f, r)
           terms == tree[f.n].terms
           b == IF r.post = Null THEN Highest ELSE r.at
<1>1. f.start \in Nat /\ f.start <= Highest /\ f.i \in Nat
  BY HighestFacts, FrameFacts
<1>2. r.at \in Nat /\ b \in Nat
  BY HighestFacts DEF Results, Locations
<1>3. /\ g.n = f.n /\ g.target = f.target /\ g.i = f.i + 1
      /\ g.start = IF r.post # Null /\ r.at < f.start THEN r.at ELSE f.start
  BY DEF OrTakes, Frames
<1>4. g.start \in Nat /\ g.start <= f.start /\ g.start <= b
  BY <1>1, <1>2, <1>3
<1>5. Passed(tree, lists, terms[f.i], f.target, b)
  BY DEF PassedBy, Term, Terms
<1> HIDE DEF b, g
<1>6. ASSUME NEW j \in 1..f.i PROVE Passed(tree, lists, terms[j], f.target, g.start)
  <2>1. CASE j = f.i
    BY <1>2, <1>4, <1>5, <2>1, PassedLess
  <2>2. CASE j # f.i
    <3>1. j \in 1..(f.i - 1)
      BY <1>1, <2>2
    <3>2. Passed(tree, lists, terms[j], f.target, f.start)
      BY <3>1 DEF OrPassed
    <3> QED
      BY <1>1, <1>4, <3>2, PassedLess
  <2> QED
    BY <2>1, <2>2
<1>7. \A j \in 1..(g.i - 1) : j \in 1..f.i
  BY <1>1, <1>3
<1>8. OrPassed(tree, lists, g)
  BY <1>3, <1>6, <1>7 DEF OrPassed
<1> QED
  BY <1>3, <1>8 DEF g

\* Under a reader are itself and what is under its terms.
LEMMA UnderTerms ==
  ASSUME query \in DOMAIN Trees, NEW n \in DOMAIN tree, NEW w \in tree[n].under, w # n
  PROVE  \E j \in 1..Len(tree[n].terms) : w \in tree[tree[n].terms[j]].under
<1> DEFINE terms == tree[n].terms
           below == [i \in DOMAIN terms |-> tree[terms[i]].under]
<1>1. IsTree(tree)
  BY TreeFacts
<1>2. tree[n].under = {n} \cup UNION {below[i] : i \in DOMAIN terms}
  BY <1>1, Zenon DEF IsTree
<1>3. PICK i \in DOMAIN terms : w \in below[i]
  BY <1>2
<1>4. i \in 1..Len(terms) /\ w \in tree[terms[i]].under
  BY <1>3, TermsFacts
<1> QED
  BY <1>4

\* What an OR that returns has passed over.
LEMMA OrReturnPasses ==
  ASSUME TypeOK, NEW f \in Frames, Op(f) = "or", Finished(f), OrPassed(tree, lists, f),
         OrInv(tree, lists, loc, f), NEW start
  PROVE  PassedBy(tree, lists, f.n, f.target, ResultOf(f, start))
<1> DEFINE terms == tree[f.n].terms
           r == ResultOf(f, start)
<1>1. lists \in Chunks /\ query \in DOMAIN Trees
  BY DEF TypeOK
<1>2. /\ f.step = "first" /\ f.i <= Len(terms) + 1
      /\ f.post = Null => f.start = Highest
      /\ f.post # Null => f.start = loc[f.post]
  BY DEF OrInv, Op
<1>3. f.n \in DOMAIN tree /\ f.i \in Nat /\ Len(terms) \in Nat /\ tree[f.n].op = "or"
  BY <1>1, FrameFacts DEF Terms, Op
<1>4. f.i > Len(terms)
  BY <1>2, <1>3 DEF Finished, RoundDone, InRound, Op, Terms
<1>5. f.start = IF r.post = Null THEN Highest ELSE r.at
  BY <1>2 DEF ResultOf, PostOf, Result, Op
<1>6. ASSUME NEW w \in tree[f.n].under, tree[w].op = "word"
      PROVE  OnlySync(lists, tree[w].key, f.target, f.start)
  <2>1. PICK j \in 1..Len(terms) : w \in tree[terms[j]].under
    BY <1>1, <1>3, <1>6, UnderTerms
  <2>2. j \in 1..(f.i - 1)
    BY <1>3, <1>4
  <2>3. Passed(tree, lists, terms[j], f.target, f.start)
    BY <2>2 DEF OrPassed
  <2> QED
    BY <1>6, <2>1, <2>3 DEF Passed
<1> HIDE DEF r
<1> QED
  BY <1>5, <1>6 DEF PassedBy, Passed, r

\* A tree of words and ORs.
Plain == Containers = {} /\ Phrases = {}

\* All the Seeks are for what the root's is for.
StackPassed(T, S, s) ==
  /\ \A k \in 1..Len(s) : s[k].target = s[1].target /\ OrPassed(T, S, s[k])
  /\ s # << >> => s[1].n = Root

\* The posts before l are such that a Seek starts from them, or are in one of the
\* documents ds.
Sought(T, S, ds, l) ==
  \A w \in DOMAIN T : T[w].op = "word" /\ T[w].key \in DOMAIN S =>
    LET list == S[T[w].key]
    IN  \A j \in DOMAIN list :
          list[j] < l => SyncPost(list, list[j]) = j \/ \E d \in ds : Within(S, list[j], d)

MissesInv ==
  Plain =>
    /\ StackPassed(tree, lists, stack)
    /\ stack # << >> => Sought(tree, lists, Answered, stack[1].target)
    /\ (stack = << >> /\ status = "search") => Sought(tree, lists, Answered, NextTarget)
    /\ status = "done" => Sought(tree, lists, Answered, Highest)

LEMMA PlainFacts ==
  ASSUME TypeOK, Plain, NEW f \in Frames
  PROVE  Op(f) = "or"
<1>1. f.n \in DOMAIN tree /\ Op(f) \in {"or", "phrase", "container"}
  BY FrameFacts DEF TypeOK
<1> QED
  BY <1>1 DEF Plain, Containers, Phrases, Op

\* What a step leaves of the stack when the Seek of the root goes on.
StackGoesOn == StackPassed(tree, lists, stack') /\ stack' # << >> /\ stack'[1].target = stack[1].target

LEMMA StackPassedChanged ==
  ASSUME stack \in Seq(Frames), StackPassed(tree, lists, stack), NEW k \in 1..Len(stack), NEW g,
         Changed(stack, stack', k, g), g.n = stack[k].n, g.target = stack[k].target, OrPassed(tree, lists, g)
  PROVE  StackGoesOn
<1>1. /\ Len(stack') = k /\ stack'[k] = g /\ \A j \in 1..(k - 1) : stack'[j] = stack[j]
      /\ Len(stack) \in Nat
  BY DEF Changed
<1>2. \A j \in 1..Len(stack) : stack[j].target = stack[1].target /\ OrPassed(tree, lists, stack[j])
  BY DEF StackPassed
<1>3. stack # << >> /\ stack' # << >> /\ stack[1].n = Root
  BY <1>1 DEF StackPassed
<1>4. stack'[1].n = Root /\ stack'[1].target = stack[1].target
  <2>1. CASE k = 1
    BY <1>1, <1>3, <2>1
  <2>2. CASE k # 1
    <3>1. stack'[1] = stack[1]
      BY <1>1, <2>2
    <3> QED
      BY <1>3, <3>1
  <2> QED
    BY <2>1, <2>2
<1>5. ASSUME NEW j \in 1..Len(stack')
      PROVE  stack'[j].target = stack'[1].target /\ OrPassed(tree, lists, stack'[j])
  <2>1. CASE j = k
    BY <1>1, <1>2, <1>4, <2>1
  <2>2. CASE j # k
    <3>1. j \in 1..(k - 1) /\ j \in 1..Len(stack)
      BY <1>1, <2>2
    <3> QED
      BY <1>1, <1>2, <1>4, <3>1
  <2> QED
    BY <2>1, <2>2
<1> QED
  BY <1>3, <1>4, <1>5 DEF StackGoesOn, StackPassed

LEMMA PlainSeekTerm ==
  ASSUME TypeOK, Plain, StackPassed(tree, lists, stack), SeekTerm
  PROVE  StackGoesOn /\ status' # "done"
<1> DEFINE n == Term(Top)
           l == TermTarget(Top)
           k == Len(stack)
<1>1. stack # << >> /\ stack \in Seq(Frames) /\ query \in DOMAIN Trees /\ lists \in Chunks /\ status = "search"
  BY DEF TypeOK, SeekTerm, Searching
<1>2. Top \in Frames /\ Asks(Top) /\ Top = stack[k] /\ k \in 1..k /\ k \in Nat
  BY <1>1, TopFacts DEF Top, SeekTerm
<1>3. Op(Top) = "or"
  BY <1>2, PlainFacts
<1>4. n \in DOMAIN tree /\ Top.i \in 1..Len(Terms(Top)) /\ l = Top.target /\ l \in Nat
  BY <1>1, <1>2, <1>3, TermFacts, FrameFacts DEF TermTarget
<1>5. OrPassed(tree, lists, Top) /\ Top.target = stack[1].target
  BY <1>2 DEF StackPassed
<1> HIDE DEF n, l, k
<1>6. ASSUME NEW r \in Results, PassedBy(tree, lists, n, l, r), TopBecomes(Takes(Top, r))
      PROVE  StackGoesOn
  <2> DEFINE g == Takes(Top, r)
  <2>1. g = OrTakes(Top, r)
    BY <1>3 DEF Takes
  <2>2. OrPassed(tree, lists, g) /\ g.target = Top.target
    BY <1>1, <1>2, <1>3, <1>4, <1>5, <1>6, <2>1, OrTakesPasses DEF n, l
  <2>3. g \in Frames /\ g.n = Top.n
    BY <1>1, <1>2, <1>6, TakesTyped, TakesReader
  <2> HIDE DEF g
  <2>4. Changed(stack, stack', k, g)
    BY <1>1, <1>6, <2>3, TopChanged DEF g, k
  <2> QED
    BY <1>1, <1>2, <2>2, <2>3, <2>4, StackPassedChanged DEF k
<1>7. ASSUME UNCHANGED stack PROVE StackGoesOn
  BY <1>1, <1>7 DEF StackGoesOn
<1>8. ASSUME SeekTermBelow(n, l) PROVE StackGoesOn
  <2> DEFINE g == Called(n, l)
  <2>1. stack' = Append(stack, g)
    BY <1>8 DEF SeekTermBelow
  <2>2. g.target = l /\ g.i = 1 /\ g.n = n
    BY DEF Called
  <2> HIDE DEF g
  <2>3. OrPassed(tree, lists, g)
    BY <2>2 DEF OrPassed
  <2>4. /\ Len(stack') = k + 1 /\ stack'[k + 1] = g /\ stack' # << >>
        /\ \A j \in 1..k : stack'[j] = stack[j]
    BY <1>1, <2>1 DEF k
  <2>5. stack'[1] = stack[1]
    BY <1>2, <2>4
  <2>6. ASSUME NEW j \in 1..Len(stack')
        PROVE  stack'[j].target = stack[1].target /\ OrPassed(tree, lists, stack'[j])
    <3>1. CASE j = k + 1
      BY <1>4, <1>5, <2>2, <2>3, <2>4, <3>1
    <3>2. CASE j # k + 1
      <4>1. j \in 1..k
        BY <1>2, <2>4, <3>2
      <4> QED
        BY <2>4, <4>1 DEF StackPassed, k
    <3> QED
      BY <3>1, <3>2
  <2> QED
    BY <1>1, <2>4, <2>5, <2>6 DEF StackGoesOn, StackPassed
<1>9. ASSUME SeekTermWord(n, l) PROVE StackGoesOn
  <2>1. n \in Words
    BY <1>4, <1>9 DEF SeekTermWord, Words
  <2>2. ASSUME tree[n].key \notin DOMAIN lists, TopBecomes(Takes(Top, Result(Null, 0, 0)))
        PROVE  StackGoesOn
    <3>1. Result(Null, 0, 0) \in Results
      BY HighestFacts DEF Results, Result, Locations
    <3>2. tree[n].under = {n}
      BY <1>1, <1>4, <2>1, UnderFacts DEF Words
    <3>3. PassedBy(tree, lists, n, l, Result(Null, 0, 0))
      BY <2>2, <3>2 DEF PassedBy, Passed, OnlySync
    <3> QED
      BY <1>6, <2>2, <3>1, <3>3
  <2>3. ASSUME NEW at, at = SeekWord(lists[tree[n].key], l), tree[n].key \in DOMAIN lists,
               TopBecomes(Takes(Top, Result(IF at < l THEN Null ELSE n, at, at)))
        PROVE  StackGoesOn
    <3>1. at \in Locations /\ at \in 0..Highest
      BY <1>1, <2>3, WordPostFacts, HighestFacts DEF Locations
    <3>2. Result(IF at < l THEN Null ELSE n, at, at) \in Results
      BY <2>1, <3>1 DEF Results, Result
    <3>3. PassedBy(tree, lists, n, l, Result(IF at < l THEN Null ELSE n, at, at))
      BY <1>4, <2>1, <2>3, WordPasses
    <3> QED
      BY <1>6, <2>3, <3>2, <3>3
  <2> QED
    BY <1>7, <1>9, <2>2, <2>3 DEF SeekTermWord
<1>10. status' # "done"
  BY <1>1 DEF SeekTerm, SeekTermWord, SeekTermBelow, EndSearch, rankerVars
<1>11. SeekTermWord(n, l) \/ SeekTermBelow(n, l)
  BY DEF SeekTerm, n, l
<1> QED
  BY <1>8, <1>9, <1>10, <1>11

LEMMA PlainReturn ==
  ASSUME TypesInv, AnswersInv, Plain, StackPassed(tree, lists, stack), Return
  PROVE  StackGoesOn /\ UNCHANGED status
<1> DEFINE k == Len(stack) - 1
           f == stack[k]
<1>1. /\ TypeOK /\ Calling(tree, stack) /\ SeeksInv(tree, lists, loc, stack)
      /\ stack # << >> /\ stack \in Seq(Frames) /\ query \in DOMAIN Trees /\ lists \in Chunks
      /\ Len(stack) > 1 /\ Finished(Top) /\ UNCHANGED status
  BY DEF TypesInv, AnswersInv, TypeOK, Return, Searching, rankerVars
<1>2. /\ Top \in Frames /\ Top = stack[k + 1] /\ k \in Nat \ {0} /\ f \in Frames /\ Len(stack) = k + 1
      /\ Front(stack) \in Seq(Frames) /\ Len(Front(stack)) = k
      /\ \A j \in 1..k : Front(stack)[j] = stack[j]
  BY <1>1, TopFacts DEF Top
<1>3. PICK start \in Starts(Top) :
        stack' = [Front(stack) EXCEPT ![k] = Takes(Front(stack)[k], ResultOf(Top, start))]
  BY DEF Return
<1> DEFINE r == ResultOf(Top, start)
<1>4. r \in Results
  BY <1>1, <1>2, StartsFacts, PostOfTyped
<1>5. /\ OrInv(tree, lists, loc, Top) /\ OrPassed(tree, lists, Top) /\ OrPassed(tree, lists, f)
      /\ f.target = stack[1].target /\ Top.target = stack[1].target
  <2>1. k \in 1..Len(stack) /\ k + 1 \in 1..Len(stack)
    BY <1>2
  <2> QED
    BY <1>1, <1>2, <2>1 DEF SeeksInv, FramesInv, FrameInv, StackPassed
<1>6. Op(f) = "or" /\ Op(Top) = "or"
  BY <1>1, <1>2, PlainFacts
<1>7. PassedBy(tree, lists, Top.n, Top.target, r)
  BY <1>1, <1>2, <1>5, <1>6, OrReturnPasses
<1> HIDE DEF r, k, f
<1>8. Asks(f) /\ Term(f) = Top.n
  <2>1. Calls(tree, f, Top)
    BY <1>1, <1>2 DEF Calling, f
  <2> QED
    BY <1>1, <1>2, <2>1, CallsFacts
<1>9. f.i \in 1..Len(Terms(f))
  BY <1>1, <1>2, <1>8, TermFacts
<1> DEFINE g == Takes(f, r)
<1>10. OrPassed(tree, lists, g) /\ g.target = f.target
  <2>1. g = OrTakes(f, r)
    BY <1>6 DEF Takes
  <2> QED
    BY <1>1, <1>2, <1>4, <1>5, <1>6, <1>7, <1>8, <1>9, <2>1, OrTakesPasses
<1>11. g \in Frames /\ g.n = f.n
  BY <1>1, <1>2, <1>4, <1>8, TakesTyped, TakesReader
<1>12. stack' = [Front(stack) EXCEPT ![k] = g]
  <2>1. Front(stack)[k] = f
    BY <1>2 DEF f
  <2> QED
    BY <1>3, <2>1, Zenon DEF r
<1> HIDE DEF g
<1>13. Changed(stack, stack', k, g)
  BY <1>2, <1>11, <1>12 DEF Changed
<1>14. k \in 1..Len(stack) /\ f = stack[k]
  BY <1>2 DEF f
<1>15. StackGoesOn
  BY <1>1, <1>10, <1>11, <1>13, <1>14, StackPassedChanged
<1> QED
  BY <1>1, <1>15

\* The search has sought as far as the Seek of the root has passed over.
LEMMA SoughtFurther ==
  ASSUME lists \in Chunks, query \in DOMAIN Trees, NEW ds, NEW l \in Nat, NEW b,
         Sought(tree, lists, ds, l), Passed(tree, lists, Root, l, b)
  PROVE  Sought(tree, lists, ds, b)
<1>1. SUFFICES ASSUME NEW w \in DOMAIN tree, tree[w].op = "word", tree[w].key \in DOMAIN lists,
                      NEW j \in DOMAIN lists[tree[w].key], lists[tree[w].key][j] < b
               PROVE  \/ SyncPost(lists[tree[w].key], lists[tree[w].key][j]) = j
                      \/ \E d \in ds : Within(lists, lists[tree[w].key][j], d)
  BY DEF Sought
<1>2. w \in tree[Root].under
  BY TreeFacts DEF IsTree
<1>3. OnlySync(lists, tree[w].key, l, b)
  BY <1>1, <1>2 DEF Passed
<1>4. lists[tree[w].key][j] \in Nat
  BY <1>1, ListFacts
<1>5. CASE lists[tree[w].key][j] < l
  BY <1>1, <1>5 DEF Sought
<1>6. CASE l <= lists[tree[w].key][j]
  BY <1>1, <1>3, <1>6 DEF OnlySync
<1> QED
  BY <1>4, <1>5, <1>6

\* A document that is ranked is sought to its end.
LEMMA SoughtDocument ==
  ASSUME lists \in Chunks, query \in DOMAIN Trees, NEW ds, NEW more, ds \subseteq more,
         NEW d \in DOMAIN lists[End], d \in more, NEW at \in Nat, Within(lists, at, d),
         Sought(tree, lists, ds, at)
  PROVE  Sought(tree, lists, more, lists[End][d] + 1)
<1>1. SUFFICES ASSUME NEW w \in DOMAIN tree, tree[w].op = "word", tree[w].key \in DOMAIN lists,
                      NEW j \in DOMAIN lists[tree[w].key], lists[tree[w].key][j] < lists[End][d] + 1
               PROVE  \/ SyncPost(lists[tree[w].key], lists[tree[w].key][j]) = j
                      \/ \E e \in more : Within(lists, lists[tree[w].key][j], e)
  BY DEF Sought
<1> DEFINE l == lists[tree[w].key][j]
<1>2. l \in Nat
  BY <1>1, ListFacts
<1>3. /\ DOMAIN lists[End] = 1..Len(lists[End]) /\ Len(lists[End]) \in Nat
      /\ \A e \in 1..Len(lists[End]) : lists[End][e] \in Nat
  BY EndFacts, ListFacts
<1>4. CASE l < at
  BY <1>1, <1>4 DEF Sought
<1>5. CASE at <= l
  <2>1. l <= lists[End][d]
    BY <1>1, <1>2, <1>3
  <2>2. ASSUME d # 1 PROVE l > lists[End][d - 1]
    <3>1. d - 1 \in 1..Len(lists[End])
      BY <1>3, <2>2
    <3>2. lists[End][d - 1] \in Nat /\ at > lists[End][d - 1]
      BY <1>3, <2>2, <3>1 DEF Within
    <3> QED
      BY <1>2, <1>5, <3>2
  <2> QED
    BY <2>1, <2>2 DEF Within
<1> QED
  BY <1>2, <1>4, <1>5

LEMMA PlainReturnToRanker ==
  ASSUME TypesInv, AnswersInv, Plain, StackPassed(tree, lists, stack),
         Sought(tree, lists, Answered, stack[1].target), ReturnToRanker
  PROVE  /\ stack' = << >>
         /\ status' = "search" => Sought(tree, lists, Answered', NextTarget')
         /\ status' = "done" => Sought(tree, lists, Answered', Highest)
<1>1. TypeOK /\ stack # << >> /\ stack \in Seq(Frames) /\ query \in DOMAIN Trees /\ lists \in Chunks
      /\ Finished(Top) /\ Len(stack) = 1 /\ status = "search" /\ UNCHANGED <<lists, loc>> /\ stack' = << >>
  BY DEF TypesInv, TypeOK, ReturnToRanker, Searching, chunkVars
<1>2. Top \in Frames /\ Top = stack[1] /\ 1 \in 1..Len(stack)
  BY <1>1, TopFacts DEF Top
<1> DEFINE p == PostOf(Top)
           l == Top.target
           r == ResultOf(Top, 0)
<1>3. l \in Nat /\ Sought(tree, lists, Answered, l) /\ Op(Top) = "or" /\ Top.n = Root
  BY <1>1, <1>2, FrameFacts, PlainFacts DEF StackPassed
<1>4. FrameInv(tree, lists, loc, Top) /\ OrPassed(tree, lists, Top)
  BY <1>2 DEF AnswersInv, SeeksInv, FramesInv, StackPassed
<1>5. PassedBy(tree, lists, Root, l, r)
  BY <1>1, <1>2, <1>3, <1>4, OrReturnPasses DEF FrameInv
<1>6. r.post = p /\ (p # Null => r.at = loc[p])
  BY DEF ResultOf, Result
<1>7. ASSUME p # Null
      PROVE  Stands(tree, lists, loc, p) /\ NotBefore(lists, loc[p], l)
  <2>1. 0 \in 0..Highest
    BY HighestFacts
  <2>2. Finds(tree, lists, loc, Top.n, Top.target, r)
    BY <1>1, <1>2, <1>4, <2>1, ResultFinds
  <2> QED
    BY <1>6, <1>7, <2>2 DEF Finds
<1> HIDE DEF p, l, r
<1>8. ASSUME NoDocument(p) PROVE Sought(tree, lists, Answered', Highest) /\ status' = "done"
  <2>1. p = Null /\ status' = "done" /\ UNCHANGED answers
    BY <1>8 DEF NoDocument, EndSearch
  <2>2. Answered' = Answered
    BY <2>1 DEF Answered
  <2>3. Passed(tree, lists, Root, l, Highest)
    BY <1>5, <1>6, <2>1 DEF PassedBy
  <2> QED
    BY <1>1, <1>3, <2>1, <2>2, <2>3, SoughtFurther
<1>9. ASSUME p # Null, docEnd' = SeekEnd(loc[p]), ~docEnd'.offEnd,
             RankDocument(docEnd'.tData + 1, loc[p])
      PROVE  Sought(tree, lists, Answered', NextTarget') /\ status' = "search"
  <2> DEFINE d == docEnd'.tData + 1
             at == loc[p]
  <2>1. d \in Documents /\ docEnd'.endLocation = lists[End][d] /\ InDocument(at, d)
    BY <1>1, <1>3, <1>7, <1>9, DocumentFound
  <2>2. at \in Nat
    BY <1>1, <1>7, <1>9, StandsFacts
  <2>3. PICK rank \in Ranks : answers' = Append(answers, [doc |-> d, loc |-> at, rank |-> rank])
    BY <1>9 DEF RankDocument
  <2> HIDE DEF d, at
  <2>4. Answered \subseteq Answered' /\ d \in Answered'
    <3>1. answers \in Seq([doc : Documents, loc : Locations, rank : Ranks])
      BY <1>1 DEF TypeOK
    <3>2. /\ Len(answers) \in Nat /\ DOMAIN answers = 1..Len(answers) /\ DOMAIN answers' = 1..(Len(answers) + 1)
          /\ \A i \in DOMAIN answers : answers'[i] = answers[i]
          /\ answers'[Len(answers) + 1] = [doc |-> d, loc |-> at, rank |-> rank]
      BY <2>3, <3>1
    <3>3. \A i \in DOMAIN answers : i \in DOMAIN answers'
      BY <3>2
    <3>4. Len(answers) + 1 \in DOMAIN answers'
      BY <3>2
    <3> QED
      BY <3>2, <3>3, <3>4 DEF Answered
  <2>5. Passed(tree, lists, Root, l, at)
    BY <1>5, <1>6, <1>9 DEF PassedBy, at
  <2>6. Sought(tree, lists, Answered, at)
    BY <1>1, <1>3, <2>5, SoughtFurther
  <2>7. Sought(tree, lists, Answered', lists[End][d] + 1)
    BY <1>1, <2>1, <2>2, <2>4, <2>6, SoughtDocument DEF Within, InDocument, Documents
  <2>8. Sought(tree, lists, Answered', 0)
    <3>1. \A key \in DOMAIN lists : \A j \in DOMAIN lists[key] : ~(lists[key][j] < 0)
      BY <1>1, ListFacts
    <3> QED
      BY <3>1 DEF Sought
  <2>9. NextTarget' = IF lists[End][d] = 0 THEN 0 ELSE lists[End][d] + 1
    BY <2>1 DEF NextTarget
  <2>10. status' = "search"
    BY <1>1, <1>9 DEF RankDocument
  <2> QED
    BY <2>7, <2>8, <2>9, <2>10
<1>10. ASSUME FindDocument(p), ~(status' = "crash")
       PROVE  Sought(tree, lists, Answered', NextTarget') /\ status' = "search"
  <2>1. p # Null /\ ~docEnd.offEnd /\ docEnd' = SeekEnd(loc[p])
    BY <1>10 DEF FindDocument, EndSearch, DocumentOf
  <2>2. ~docEnd'.offEnd
    BY <1>1, <1>3, <1>7, <2>1, DocumentFound
  <2>3. RankDocument(docEnd'.tData + 1, loc[p])
    BY <1>10, <2>1, <2>2 DEF FindDocument
  <2> QED
    BY <1>9, <2>1, <2>2, <2>3
<1> QED
  BY <1>1, <1>8, <1>10 DEF ReturnToRanker, p

LEMMA MissesInvInit == Init => MissesInv
<1> SUFFICES ASSUME Init, Plain PROVE MissesInv
  BY DEF MissesInv
<1>1. stack = << >> /\ status = "search" /\ NextTarget = 0 /\ lists \in Chunks
  BY DEF Init, RankerInit, NextTarget
<1>2. \A key \in DOMAIN lists : \A j \in DOMAIN lists[key] : ~(lists[key][j] < 0)
  BY <1>1, ListFacts
<1>3. Sought(tree, lists, Answered, 0)
  BY <1>2 DEF Sought
<1>4. StackPassed(tree, lists, stack)
  BY <1>1 DEF StackPassed
<1> QED
  BY <1>1, <1>3, <1>4 DEF MissesInv

LEMMA MissesInvStep == TypesInv /\ AnswersInv /\ MissesInv /\ [Next]_vars => MissesInv'
<1> SUFFICES ASSUME TypesInv, AnswersInv, MissesInv, [Next]_vars, Plain' PROVE MissesInv'
  BY DEF MissesInv
<1>1. TypeOK
  BY DEF TypesInv
<1>2. UNCHANGED <<lists, query>> /\ tree' = tree
  BY DEF Next, NextDocument, SeekTerm, NextPhrasePass, NextContainerPass, GoRoundForEver, Return,
         ReturnToRanker, OutOfTime, vars, chunkVars, tree
<1>3. Plain
  BY <1>2 DEF Plain, Containers, Phrases
<1>4. /\ StackPassed(tree, lists, stack)
      /\ stack # << >> => Sought(tree, lists, Answered, stack[1].target)
      /\ (stack = << >> /\ status = "search") => Sought(tree, lists, Answered, NextTarget)
      /\ status = "done" => Sought(tree, lists, Answered, Highest)
  BY <1>3 DEF MissesInv
<1>5. UNCHANGED answers => Answered' = Answered
  BY DEF Answered
<1>6. CASE NextDocument
  <2>1. /\ stack' = <<Called(Root, NextTarget)>> /\ stack = << >> /\ status = "search"
        /\ UNCHANGED <<answers, status>>
    BY <1>6 DEF NextDocument, rankerVars
  <2> DEFINE f == Called(Root, NextTarget)
  <2>2. f.n = Root /\ f.target = NextTarget /\ f.i = 1
    BY DEF Called
  <2> HIDE DEF f
  <2>3. stack' # << >> /\ Len(stack') = 1 /\ stack'[1] = f
    BY <2>1 DEF f
  <2>4. StackPassed(tree, lists, stack')
    BY <2>2, <2>3 DEF StackPassed, OrPassed
  <2> QED
    BY <1>2, <1>4, <1>5, <2>1, <2>2, <2>3, <2>4 DEF MissesInv
<1>7. CASE SeekTerm \/ Return
  <2>1. stack # << >> /\ status = "search" /\ UNCHANGED answers
    BY <1>7 DEF SeekTerm, SeekTermWord, SeekTermBelow, Return, Searching, EndSearch, rankerVars
  <2>2. StackGoesOn /\ status' # "done"
    BY <1>1, <1>3, <1>4, <1>7, <2>1, PlainSeekTerm, PlainReturn
  <2> QED
    BY <1>2, <1>4, <1>5, <2>1, <2>2 DEF MissesInv, StackGoesOn
<1>8. CASE NextPhrasePass \/ NextContainerPass
  <2>1. stack \in Seq(Frames) /\ stack # << >> /\ Op(Top) # "or"
    BY <1>1, <1>8 DEF TypeOK, NextPhrasePass, NextContainerPass, Searching
  <2>2. Top \in Frames
    BY <2>1, TopFacts DEF Top
  <2> QED
    BY <1>1, <1>3, <2>1, <2>2, PlainFacts
<1>9. CASE ReturnToRanker
  <2>1. stack # << >>
    BY <1>9 DEF ReturnToRanker, Searching
  <2>2. /\ stack' = << >>
        /\ status' = "search" => Sought(tree, lists, Answered', NextTarget')
        /\ status' = "done" => Sought(tree, lists, Answered', Highest)
    BY <1>3, <1>4, <1>9, <2>1, PlainReturnToRanker
  <2>3. StackPassed(tree, lists, stack')
    BY <2>2 DEF StackPassed
  <2> QED
    BY <1>2, <2>2, <2>3 DEF MissesInv
<1>10. CASE GoRoundForEver \/ OutOfTime
  <2>1. UNCHANGED <<stack, answers>> /\ status' \notin {"search", "done"}
    BY <1>10 DEF GoRoundForEver, OutOfTime, TimeIsUp, EndSearch
  <2> QED
    BY <1>2, <1>4, <1>5, <2>1 DEF MissesInv
<1>11. CASE UNCHANGED vars
  <2>1. UNCHANGED <<stack, docEnd, answers, status>>
    BY <1>11 DEF vars, rankerVars
  <2>2. NextTarget' = NextTarget
    BY <2>1 DEF NextTarget
  <2> QED
    BY <1>2, <1>4, <1>5, <2>1, <2>2 DEF MissesInv
<1> QED
  BY <1>6, <1>7, <1>8, <1>9, <1>10, <1>11 DEF Next

\* A post is in one document.
LEMMA OneDocument ==
  ASSUME lists \in Chunks, NEW d \in Documents, NEW e \in Documents, NEW l \in Nat,
         Within(lists, l, d), Within(lists, l, e)
  PROVE  d = e
<1>1. /\ Documents = 1..Len(lists[End]) /\ Len(lists[End]) \in Nat
      /\ \A i \in Documents : lists[End][i] \in Nat
      /\ \A i, j \in Documents : i < j => lists[End][i] < lists[End][j]
  BY EndFacts, ListFacts DEF Documents
<1>2. ASSUME NEW i \in Documents, NEW j \in Documents, i < j, Within(lists, l, i)
      PROVE  ~Within(lists, l, j)
  <2>1. j # 1 /\ j - 1 \in Documents /\ (i = j - 1 \/ i < j - 1)
    BY <1>1, <1>2
  <2>2. lists[End][i] <= lists[End][j - 1] /\ lists[End][j - 1] \in Nat
    BY <1>1, <2>1, SMTT(30)
  <2> QED
    BY <1>1, <1>2, <2>1, <2>2, SMTT(30) DEF Within
<1>3. ~(d < e) /\ ~(e < d)
  BY <1>2
<1> QED
  BY <1>1, <1>3

\* A finished search for one of several words has ranked every document that
\* holds one, but those of which each post is one a Seek starts from: a word's
\* Seek goes on to the next post before it looks at any, and the ORs take the
\* nearest.
THEOREM WordsAreFound == Spec => []MissesOnlySyncPosts
<1>1. Spec => []MissesInv
  BY MissesInvInit, MissesInvStep, TypesAlways, AnswersAlways, PTL DEF Spec
<1>2. TypesInv /\ MissesInv => MissesOnlySyncPosts
  <2>1. SUFFICES ASSUME TypesInv, MissesInv, status = "done", Containers = {}, Phrases = {},
                        NEW d \in Documents \ Answered, NEW n \in Words, tree[n].key \in DOMAIN lists,
                        NEW j \in DOMAIN lists[tree[n].key], InDocument(lists[tree[n].key][j], d)
                 PROVE  SyncPost(lists[tree[n].key], lists[tree[n].key][j]) = j
    BY DEF MissesOnlySyncPosts
  <2> DEFINE l == lists[tree[n].key][j]
  <2>2. TypeOK /\ lists \in Chunks
    BY <2>1 DEF TypesInv, TypeOK
  <2>3. l \in Nat /\ l < Highest
    BY <2>1, <2>2, ListFacts, HighestFacts DEF Locations
  <2>4. Sought(tree, lists, Answered, Highest)
    BY <2>1 DEF MissesInv, Plain
  <2>5. \/ SyncPost(lists[tree[n].key], l) = j
        \/ \E e \in Answered : Within(lists, l, e)
    BY <2>1, <2>3, <2>4 DEF Sought, Words
  <2>6. ASSUME NEW e \in Answered, Within(lists, l, e) PROVE FALSE
    <3>1. e \in Documents
      BY <2>2, <2>6, AnswersFacts DEF Answered
    <3>2. Within(lists, l, d)
      BY <2>1 DEF Within, InDocument
    <3> QED
      BY <2>1, <2>2, <2>3, <2>6, <3>1, <3>2, OneDocument
  <2> QED
    BY <2>5, <2>6
<1> QED
  BY <1>1, <1>2, TypesAlways, PTL

-----------------------------------------------------------------------------
(* What a document has to hold *)

\* Below a reader are finitely many, and what is below those.
LEMMA BelowFacts ==
  ASSUME query \in DOMAIN Trees, NEW n \in DOMAIN tree
  PROVE  /\ tree[n].under \subseteq DOMAIN tree /\ IsFiniteSet(tree[n].under)
         /\ \A i \in 1..Len(tree[n].terms) :
              /\ Cardinality(tree[tree[n].terms[i]].under) \in Nat
              /\ Cardinality(tree[tree[n].terms[i]].under) < Cardinality(tree[n].under)
<1>1. IsTree(tree)
  BY TreeFacts
<1>2. \A m \in DOMAIN tree : tree[m].under \subseteq DOMAIN tree /\ IsFiniteSet(tree[m].under)
  <2>1. IsFiniteSet(DOMAIN tree) /\ \A m \in DOMAIN tree : tree[m].under \subseteq DOMAIN tree
    BY <1>1 DEF IsTree
  <2> QED
    BY <2>1, FS_Subset
<1>3. ASSUME NEW i \in 1..Len(tree[n].terms)
      PROVE  /\ Cardinality(tree[tree[n].terms[i]].under) \in Nat
             /\ Cardinality(tree[tree[n].terms[i]].under) < Cardinality(tree[n].under)
  <2> DEFINE U == tree[n].under
             V == tree[tree[n].terms[i]].under
  <2>1. V \subseteq U /\ n \in U /\ n \notin V
    BY <1>3, UnderFacts
  <2>2. IsFiniteSet(U)
    BY <1>2
  <2> HIDE DEF U, V
  <2>3. IsFiniteSet(V) /\ Cardinality(V) <= Cardinality(U) /\ Cardinality(V) # Cardinality(U)
    BY <2>1, <2>2, FS_Subset
  <2>4. Cardinality(V) \in Nat /\ Cardinality(U) \in Nat
    BY <2>2, <2>3, FS_CardinalityType
  <2> QED
    BY <2>3, <2>4 DEF U, V
<1> QED
  BY <1>2, <1>3

\* Of some readers there is one none of whose terms is one of them.
LEMMA LowestReader ==
  ASSUME query \in DOMAIN Trees, NEW X, X \subseteq DOMAIN tree, X # {}
  PROVE  \E n \in X : \A i \in 1..Len(tree[n].terms) : tree[n].terms[i] \notin X
<1> DEFINE c(n) == Cardinality(tree[n].under)
           P == {c(n) : n \in X}
<1>1. \A n \in X : c(n) \in Nat
  BY BelowFacts, FS_CardinalityType
<1>2. P \subseteq Nat /\ P # {}
  BY <1>1
<1>3. Earliest(P) \in P /\ \A k \in P : Earliest(P) <= k
  BY <1>2, EarliestFacts
<1>4. PICK n \in X : c(n) = Earliest(P)
  BY <1>3
<1>5. ASSUME NEW i \in 1..Len(tree[n].terms), tree[n].terms[i] \in X PROVE FALSE
  <2>1. c(tree[n].terms[i]) \in P /\ c(tree[n].terms[i]) \in Nat
    BY <1>1, <1>5
  <2>2. c(n) <= c(tree[n].terms[i])
    BY <1>3, <1>4, <2>1
  <2>3. c(tree[n].terms[i]) < c(n)
    BY <1>5, BelowFacts
  <2> QED
    BY <1>1, <2>1, <2>2, <2>3
<1> QED
  BY <1>5

LEMMA UnderBelow ==
  ASSUME query \in DOMAIN Trees, NEW n \in DOMAIN tree, NEW m \in tree[n].under
  PROVE  m \in DOMAIN tree /\ tree[m].under \subseteq tree[n].under
<1> DEFINE Good(k) == \A x \in tree[k].under : tree[x].under \subseteq tree[k].under
           X == {k \in DOMAIN tree : ~Good(k)}
<1>1. SUFFICES ASSUME X # {} PROVE FALSE
  <2>1. Good(n)
    BY <1>1
  <2> QED
    BY <2>1, BelowFacts
<1>2. PICK k \in X : \A i \in 1..Len(tree[k].terms) : tree[k].terms[i] \notin X
  BY <1>1, LowestReader
<1>3. k \in DOMAIN tree /\ ~Good(k)
  OBVIOUS
<1>4. \A i \in 1..Len(tree[k].terms) : tree[k].terms[i] \in DOMAIN tree /\ Good(tree[k].terms[i])
  BY <1>2, <1>3, TermsFacts
<1>5. PICK x \in tree[k].under : ~(tree[x].under \subseteq tree[k].under)
  BY <1>3
<1>6. x # k
  BY <1>5
<1>7. PICK i \in 1..Len(tree[k].terms) : x \in tree[tree[k].terms[i]].under
  BY <1>3, <1>6, UnderTerms
<1>8. tree[x].under \subseteq tree[tree[k].terms[i]].under
  BY <1>4, <1>7
<1> QED
  BY <1>3, <1>5, <1>7, <1>8, UnderFacts

\* What it takes for reader n to be found, by what h says of its terms.
Means(T, S, d, h, n) ==
  \/ T[n].op = "word" /\ \E l \in Locations : PostWithin(S, T[n].key, l, d)
  \/ T[n].op = "or" /\ \E i \in DOMAIN T[n].terms : h[T[n].terms[i]]
  \/ /\ T[n].op = "phrase" /\ T[n].terms # << >>
     /\ \E l \in Locations : \A i \in DOMAIN T[n].terms :
          PostWithin(S, T[T[n].terms[i]].key, l + i - 1, d)
  \/ /\ T[n].op = "container" /\ T[n].contained = Len(T[n].terms)
     /\ \A i \in DOMAIN T[n].terms : h[T[n].terms[i]]

LEMMA MeansOnly ==
  ASSUME NEW T, NEW S, NEW d, NEW h, NEW g, NEW n,
         \A i \in DOMAIN T[n].terms : h[T[n].terms[i]] = g[T[n].terms[i]]
  PROVE  Means(T, S, d, h, n) = Means(T, S, d, g, n)
<1>1. (\E i \in DOMAIN T[n].terms : h[T[n].terms[i]]) = (\E i \in DOMAIN T[n].terms : g[T[n].terms[i]])
  OBVIOUS
<1>2. (\A i \in DOMAIN T[n].terms : h[T[n].terms[i]]) = (\A i \in DOMAIN T[n].terms : g[T[n].terms[i]])
  OBVIOUS
<1> QED
  BY <1>1, <1>2, Zenon DEF Means

LEMMA MeansTyped ==
  ASSUME query \in DOMAIN Trees, NEW S, NEW d, NEW h, NEW n \in DOMAIN tree
  PROVE  Means(tree, S, d, h, n) \in BOOLEAN
<1>1. tree[n].op \in {"word", "or", "phrase", "container"}
  BY TermsFacts
<1>2. CASE tree[n].op = "word"
  BY <1>2 DEF Means
<1>3. CASE tree[n].op = "or"
  BY <1>3 DEF Means
<1>4. CASE tree[n].op = "phrase"
  BY <1>4 DEF Means
<1>5. CASE tree[n].op = "container"
  BY <1>5 DEF Means
<1> QED
  BY <1>1, <1>2, <1>3, <1>4, <1>5

\* h says of every reader under n what it takes.
Solves(T, S, d, h, n) ==
  h \in [T[n].under -> BOOLEAN] /\ \A m \in T[n].under : h[m] = Means(T, S, d, h, m)

LEMMA TreeSolved ==
  ASSUME query \in DOMAIN Trees, NEW S, NEW d, NEW n \in DOMAIN tree
  PROVE  \E h : Solves(tree, S, d, h, n)
<1> DEFINE X == {k \in DOMAIN tree : ~\E h : Solves(tree, S, d, h, k)}
<1>1. SUFFICES ASSUME X # {} PROVE FALSE
  OBVIOUS
<1>2. PICK k \in X : \A i \in 1..Len(tree[k].terms) : tree[k].terms[i] \notin X
  BY <1>1, LowestReader
<1> DEFINE terms == tree[k].terms
           U == tree[k].under
           V(i) == tree[terms[i]].under
           g(i) == CHOOSE h : Solves(tree, S, d, h, terms[i])
           which(m) == CHOOSE i \in 1..Len(terms) : m \in V(i)
           h0 == [m \in U |-> IF m = k THEN TRUE ELSE g(which(m))[m]]
           h == [h0 EXCEPT ![k] = Means(tree, S, d, h0, k)]
<1>3. k \in DOMAIN tree /\ ~\E f : Solves(tree, S, d, f, k)
  OBVIOUS
<1>4. /\ DOMAIN terms = 1..Len(terms) /\ \A i \in 1..Len(terms) : terms[i] \in DOMAIN tree
      /\ k \in U /\ \A i \in 1..Len(terms) : V(i) \subseteq U /\ k \notin V(i) /\ terms[i] \in V(i)
      /\ \A i, j \in 1..Len(terms) : i # j => V(i) \cap V(j) = {}
  BY <1>3, TermsFacts, UnderFacts
<1>5. ASSUME NEW i \in 1..Len(terms) PROVE Solves(tree, S, d, g(i), terms[i])
  <2>1. terms[i] \notin X /\ terms[i] \in DOMAIN tree
    BY <1>2, <1>4, <1>5
  <2> HIDE DEF terms
  <2>2. \E f : Solves(tree, S, d, f, terms[i])
    BY <2>1
  <2> QED
    BY <2>2, Zenon
<1>6. \A m \in U : m # k => \E i \in 1..Len(terms) : m \in V(i)
  BY <1>3, UnderTerms
<1>7. ASSUME NEW i \in 1..Len(terms), NEW m \in V(i) PROVE which(m) = i
  BY <1>4, <1>7
<1> HIDE DEF X, terms, U, V, g, which
<1>8. ASSUME NEW m \in U, m # k
      PROVE  \E i \in 1..Len(terms) : m \in V(i) /\ h[m] = g(i)[m] /\ g(i)[m] \in BOOLEAN
                                      /\ g(i)[m] = Means(tree, S, d, g(i), m)
  <2>1. PICK i \in 1..Len(terms) : m \in V(i)
    BY <1>6, <1>8
  <2>2. which(m) = i
    BY <1>7, <2>1
  <2>3. h[m] = g(i)[m]
    BY <1>8, <2>2
  <2>4. g(i)[m] \in BOOLEAN /\ g(i)[m] = Means(tree, S, d, g(i), m)
    BY <1>5, <2>1 DEF Solves, V
  <2> QED
    BY <2>1, <2>3, <2>4
<1>9. \A i \in 1..Len(terms) : \A m \in V(i) : h[m] = g(i)[m]
  <2>1. ASSUME NEW i \in 1..Len(terms), NEW m \in V(i) PROVE h[m] = g(i)[m]
    <3>1. m \in U /\ m # k /\ which(m) = i
      BY <1>4, <1>7, <2>1
    <3> QED
      BY <3>1
  <2> QED
    BY <2>1
<1>10. h[k] = Means(tree, S, d, h0, k) /\ Means(tree, S, d, h0, k) \in BOOLEAN
  BY <1>3, <1>4, MeansTyped
<1>11. h \in [U -> BOOLEAN]
  <2>1. \A m \in U : h[m] \in BOOLEAN
    BY <1>8, <1>10
  <2> QED
    BY <2>1
<1>12. h[k] = Means(tree, S, d, h, k)
  <2>1. \A i \in DOMAIN terms : h[terms[i]] = h0[terms[i]]
    BY <1>4, ZenonT(30)
  <2> HIDE DEF h, h0
  <2>2. Means(tree, S, d, h, k) = Means(tree, S, d, h0, k)
    BY <2>1, MeansOnly DEF terms
  <2> QED
    BY <1>10, <2>2
<1> HIDE DEF h
<1>13. ASSUME NEW m \in U, m # k PROVE h[m] = Means(tree, S, d, h, m)
  <2>1. PICK i \in 1..Len(terms) : m \in V(i) /\ h[m] = g(i)[m] /\ g(i)[m] = Means(tree, S, d, g(i), m)
    BY <1>8, <1>13
  <2>2. m \in DOMAIN tree /\ tree[m].under \subseteq V(i)
    BY <1>4, <2>1, UnderBelow DEF V
  <2>3. ASSUME NEW j \in DOMAIN tree[m].terms PROVE tree[m].terms[j] \in V(i)
    <3>1. j \in 1..Len(tree[m].terms)
      BY <2>2, TermsFacts
    <3>2. tree[m].terms[j] \in tree[m].under
      BY <2>2, <3>1, UnderFacts
    <3> QED
      BY <2>2, <3>2
  <2>4. \A j \in DOMAIN tree[m].terms : h[tree[m].terms[j]] = g(i)[tree[m].terms[j]]
    BY <1>9, <2>3
  <2>5. Means(tree, S, d, h, m) = Means(tree, S, d, g(i), m)
    BY <2>4, MeansOnly
  <2> QED
    BY <2>1, <2>5
<1> QED
  BY <1>3, <1>11, <1>12, <1>13 DEF Solves, U

LEMMA HoldsSolved ==
  ASSUME NEW T, NEW S, NEW d, NEW h, h = [n \in DOMAIN T |-> Means(T, S, d, h, n)]
  PROVE  Holds(T, S, d) = [n \in DOMAIN T |-> Means(T, S, d, Holds(T, S, d), n)]
<1>1. Holds(T, S, d) = CHOOSE g : g = [n \in DOMAIN T |-> Means(T, S, d, g, n)]
  BY Zenon DEF Holds, Means
<1> QED
  BY <1>1, Zenon

\* What a document has to hold.
LEMMA HoldsFacts ==
  ASSUME query \in DOMAIN Trees, NEW S, NEW d, NEW n \in DOMAIN tree
  PROVE  Holds(tree, S, d)[n] = Means(tree, S, d, Holds(tree, S, d), n)
<1>1. Root \in DOMAIN tree /\ tree[Root].under = DOMAIN tree
  BY TreeFacts DEF IsTree
<1>2. PICK h : Solves(tree, S, d, h, Root)
  BY <1>1, TreeSolved
<1>3. h = [m \in DOMAIN tree |-> Means(tree, S, d, h, m)]
  <2>1. h \in [DOMAIN tree -> BOOLEAN] /\ \A m \in DOMAIN tree : h[m] = Means(tree, S, d, h, m)
    BY <1>1, <1>2 DEF Solves
  <2> QED
    BY <2>1
<1>4. Holds(tree, S, d) = [m \in DOMAIN tree |-> Means(tree, S, d, Holds(tree, S, d), m)]
  BY <1>3, HoldsSolved
<1> DEFINE F(g) == [m \in DOMAIN tree |-> Means(tree, S, d, g, m)]
<1>5. F(Holds(tree, S, d))[n] = Means(tree, S, d, Holds(tree, S, d), n)
  OBVIOUS
<1> QED
  BY <1>4, <1>5, Zenon

-----------------------------------------------------------------------------
(* What it means that a Seek's result is right *)

\* Some word under n is in the chunk; of no OR under n are two terms.
There(T, S, n) == \E w \in T[n].under : T[w].op = "word" /\ T[w].key \in DOMAIN S
NoChoice(T, S, n) ==
  \A m \in T[n].under : T[m].op = "or" =>
    \A j, k \in DOMAIN T[m].terms : There(T, S, T[m].terms[j]) /\ There(T, S, T[m].terms[k]) => j = k

\* No container is under n.
Simple(T, n) == \A m \in T[n].under : T[m].op # "container"

\* All the words under n that the chunk has stand in document d.
Settled(T, S, L, n, d) ==
  \A w \in T[n].under : T[w].op = "word" /\ T[w].key \in DOMAIN S => Within(S, L[w], d)

\* The document of p is one that n is looking for, and where n has no choice
\* its words all stand there.
Sound(T, S, L, n, p) ==
  \A d \in DOMAIN S[End] : Within(S, p, d) =>
    Holds(T, S, d)[n] /\ (NoChoice(T, S, n) => Settled(T, S, L, n, d))

\* What a Seek of n for l returns: of terms without containers a post in no
\* document that ends before l or with it.
Answers(T, S, L, n, l, r) ==
  r.post # Null =>
    /\ Sound(T, S, L, n, r.at)
    /\ Simple(T, n) => NotBefore(S, r.at, l + 1)
    /\ T[n].op = "container" => T[n].contained > 0

\* ISROr: the nearest post is right for its term.
OrSound(T, S, L, f) ==
  T[f.n].op = "or" /\ f.post # Null =>
    /\ \E j \in 1..(f.i - 1) :
         f.post \in T[T[f.n].terms[j]].under /\ Sound(T, S, L, T[f.n].terms[j], f.start)
    /\ Simple(T, f.n) => NotBefore(S, f.start, f.target + 1)

\* ISRPhrase: behind the first term, when that was the farthest, comes the
\* second.
PhraseSound(T, L, f) ==
  T[f.n].op = "phrase" /\ f.step = "pass" /\ f.found /\ f.passFarthest = 1 /\ f.i > 2 =>
    L[T[f.n].terms[2]] = f.passEnd + 1

\* ISRContainer: what the terms before the i-th are in is the document of the
\* pass, or, of a single term, a document of its own.
TermsSettled(T, S, L, f, d) ==
  \A j \in 1..(f.i - 1) : \E e \in DOMAIN S[End] :
    /\ Holds(T, S, e)[T[f.n].terms[j]] /\ Settled(T, S, L, T[f.n].terms[j], e)
    /\ T[f.n].contained > 1 => e = d

ContainerSound(T, S, L, f) ==
  LET contained == T[f.n].contained
  IN  T[f.n].op = "container" /\ f.step = "pass" =>
        /\ contained > 0 => f.i <= contained + 1
        /\ f.found => contained > 0 /\ f.i > 1
        /\ f.i > 1 /\ f.i <= contained => f.found
        /\ \E d \in DOMAIN S[End] :
             /\ f.documentEnd = S[End][d] /\ (d = 1 \/ f.begin = S[End][d - 1])
             /\ f.found => TermsSettled(T, S, L, f, d)

FrameSound(T, S, L, f) == OrSound(T, S, L, f) /\ PhraseSound(T, L, f) /\ ContainerSound(T, S, L, f)

\* What holds under a term holds under its reader.
LEMMA LessUnder ==
  ASSUME query \in DOMAIN Trees, NEW n \in DOMAIN tree, NEW j \in 1..Len(tree[n].terms)
  PROVE  /\ NoChoice(tree, lists, n) => NoChoice(tree, lists, tree[n].terms[j])
         /\ Simple(tree, n) => Simple(tree, tree[n].terms[j])
<1>1. tree[tree[n].terms[j]].under \subseteq tree[n].under
  BY UnderFacts
<1> QED
  BY <1>1 DEF NoChoice, Simple

\* A post is in a document, and in one only.
LEMMA DocumentOfPost ==
  ASSUME lists \in Chunks, query \in DOMAIN Trees, NEW L, NEW p, Stands(tree, lists, L, p)
  PROVE  /\ L[p] \in Nat
         /\ \E d \in DOMAIN lists[End] : Within(lists, L[p], d)
         /\ \A d, e \in DOMAIN lists[End] : Within(lists, L[p], d) /\ Within(lists, L[p], e) => d = e
<1> DEFINE ends == lists[End]
           at == L[p]
           j == EndPost(ends, at)
<1>1. at \in Int /\ at \in Nat /\ at <= LastEnd(lists) /\ \A e \in DOMAIN ends : ends[e] # at
  BY StandsFacts
<1>2. /\ DOMAIN ends = 1..Len(ends) /\ Len(ends) \in Nat \ {0}
      /\ \A e \in DOMAIN ends : ends[e] \in Nat
      /\ \A e1, e2 \in DOMAIN ends : e1 < e2 => ends[e1] < ends[e2]
  BY EndFacts, ListFacts
<1>3. /\ j \in 0..Len(ends) /\ (j = 0 => \A k \in DOMAIN ends : ends[k] < at)
      /\ j # 0 => ends[j] >= at /\ \A k \in 1..(j - 1) : ends[k] < at
  BY <1>1, EndPostFacts
<1>4. j # 0
  BY <1>1, <1>2, <1>3 DEF LastEnd
<1>5. Within(lists, at, j) /\ j \in DOMAIN ends
  BY <1>2, <1>3, <1>4 DEF Within
<1>6. ASSUME NEW d \in DOMAIN ends, NEW e \in DOMAIN ends, Within(lists, at, d), Within(lists, at, e)
      PROVE  d = e
  BY <1>1, <1>6, OneDocument DEF Documents
<1> QED
  BY <1>1, <1>5, <1>6

\* A word's Seek is right.
LEMMA WordAnswers ==
  ASSUME lists \in Chunks, query \in DOMAIN Trees, NEW n \in Words, NEW L, Stands(tree, lists, L, n),
         NEW l \in Int, NEW r, r.post # Null => r.at = L[n] /\ r.at >= l
  PROVE  Answers(tree, lists, L, n, l, r)
<1>1. SUFFICES ASSUME r.post # Null PROVE Answers(tree, lists, L, n, l, r)
  BY DEF Answers
<1> DEFINE at == L[n]
<1>2. n \in DOMAIN tree /\ tree[n].op = "word" /\ tree[n].under = {n} /\ PostAt(lists, tree[n].key, at)
  BY UnderFacts DEF Words, Stands
<1>3. at \in Locations /\ at \in Nat
  BY StandsFacts
<1>4. ASSUME NEW d \in DOMAIN lists[End], Within(lists, at, d)
      PROVE  Holds(tree, lists, d)[n] /\ Settled(tree, lists, L, n, d)
  <2>1. Means(tree, lists, d, Holds(tree, lists, d), n)
    BY <1>2, <1>3, <1>4 DEF Means, PostWithin
  <2>2. Settled(tree, lists, L, n, d)
    BY <1>2, <1>4 DEF Settled
  <2> QED
    BY <1>2, <2>1, <2>2, HoldsFacts
<1>5. Sound(tree, lists, L, n, at)
  BY <1>4 DEF Sound
<1>6. NotBefore(lists, at, l + 1)
  <2>1. \A d \in DOMAIN lists[End] : lists[End][d] \in Nat
    BY EndFacts, ListFacts
  <2> QED
    BY <1>1, <1>3, <2>1 DEF NotBefore
<1> QED
  BY <1>1, <1>2, <1>5, <1>6 DEF Answers

-----------------------------------------------------------------------------
(* What is right of a Seek stays so *)

LEMMA SettledMoves ==
  ASSUME NEW n, NEW L, \A p \in tree[n].under : p \in Words => L[p] = loc[p], query \in DOMAIN Trees,
         n \in DOMAIN tree
  PROVE  /\ \A d : Settled(tree, lists, loc, n, d) => Settled(tree, lists, L, n, d)
         /\ \A p : Sound(tree, lists, loc, n, p) => Sound(tree, lists, L, n, p)
<1>1. \A w \in tree[n].under : tree[w].op = "word" => L[w] = loc[w]
  BY BelowFacts DEF Words
<1>2. \A d : Settled(tree, lists, loc, n, d) => Settled(tree, lists, L, n, d)
  BY <1>1 DEF Settled
<1> QED
  BY <1>2 DEF Sound

\* Readers under the current term of a Seek may move.
LEMMA MovesKeepSound ==
  ASSUME query \in DOMAIN Trees, NEW f \in Frames, FrameSound(tree, lists, loc, f), NEW L,
         f.i <= Len(Terms(f)) + 1,
         \A j \in 1..(f.i - 1) : j <= Len(Terms(f)) =>
            \A p \in tree[Terms(f)[j]].under : p \in Words => L[p] = loc[p]
  PROVE  FrameSound(tree, lists, L, f)
<1> DEFINE terms == tree[f.n].terms
<1>1. /\ f.n \in DOMAIN tree /\ f.i \in Nat \ {0} /\ Len(terms) \in Nat /\ DOMAIN terms = 1..Len(terms)
      /\ terms = Terms(f)
  BY FrameFacts DEF Terms
<1>2. \A j \in 1..(f.i - 1) : j \in 1..Len(terms)
  BY <1>1
<1>3. \A j \in 1..Len(terms) : terms[j] \in DOMAIN tree /\ terms[j] \in tree[terms[j]].under
  BY <1>1, TermsFacts, UnderFacts
<1> HIDE DEF terms
<1>4. ASSUME NEW j \in 1..(f.i - 1)
      PROVE  /\ \A d : Settled(tree, lists, loc, terms[j], d) => Settled(tree, lists, L, terms[j], d)
             /\ \A p : Sound(tree, lists, loc, terms[j], p) => Sound(tree, lists, L, terms[j], p)
  <2>1. terms[j] \in DOMAIN tree /\ j <= Len(terms)
    BY <1>1, <1>2, <1>3, <1>4
  <2>2. \A p \in tree[terms[j]].under : p \in Words => L[p] = loc[p]
    BY <1>1, <2>1
  <2> QED
    BY <2>1, <2>2, SettledMoves
<1>5. OrSound(tree, lists, L, f)
  BY <1>4 DEF FrameSound, OrSound, terms
<1>6. PhraseSound(tree, L, f)
  <2>1. SUFFICES ASSUME tree[f.n].op = "phrase", f.step = "pass", f.found, f.passFarthest = 1, f.i > 2
                 PROVE  L[terms[2]] = f.passEnd + 1
    BY DEF PhraseSound, terms
  <2>2. loc[terms[2]] = f.passEnd + 1
    BY <2>1 DEF FrameSound, PhraseSound, terms
  <2>3. 2 \in 1..(f.i - 1) /\ 2 \in 1..Len(terms)
    BY <1>1, <1>2, <2>1
  <2>4. terms[2] \in Words
    BY <1>1, <2>1, <2>3, TermsFacts DEF terms
  <2>5. L[terms[2]] = loc[terms[2]]
    BY <1>1, <1>3, <2>3, <2>4
  <2> QED
    BY <2>2, <2>5
<1>7. ContainerSound(tree, lists, L, f)
  <2>1. ASSUME NEW d, TermsSettled(tree, lists, loc, f, d) PROVE TermsSettled(tree, lists, L, f, d)
    BY <1>4, <2>1 DEF TermsSettled, terms
  <2> QED
    BY <2>1 DEF FrameSound, ContainerSound
<1> QED
  BY <1>5, <1>6, <1>7 DEF FrameSound

\* A Seek that is called, and one that is lost.
LEMMA CalledSound ==
  ASSUME NEW T, NEW S, NEW L, NEW n, NEW l
  PROVE  FrameSound(T, S, L, Called(n, l))
<1> DEFINE f == Called(n, l)
<1>1. f.n = n /\ f.step = "first" /\ f.post = Null
  BY DEF Called
<1> HIDE DEF f
<1> QED
  BY <1>1 DEF FrameSound, OrSound, PhraseSound, ContainerSound, f

LEMMA LostSound ==
  ASSUME NEW L, NEW f \in Frames, Op(f) # "or"
  PROVE  FrameSound(tree, lists, L, Lost(f))
<1>1. Lost(f).n = f.n /\ Lost(f).step = "lost"
  BY DEF Lost, Frames
<1> QED
  BY <1>1 DEF FrameSound, OrSound, PhraseSound, ContainerSound, Op

LEMMA PhrasePassSound ==
  ASSUME NEW L, NEW f \in Frames, Op(f) = "phrase"
  PROVE  FrameSound(tree, lists, L, PhrasePass(f))
<1>1. PhrasePass(f).n = f.n /\ PhrasePass(f).i = 1
  BY DEF PhrasePass, Frames
<1> QED
  BY <1>1 DEF FrameSound, OrSound, PhraseSound, ContainerSound, Op

LEMMA ContainerPassSound ==
  ASSUME TypeOK, NEW L, NEW f \in Frames, Op(f) = "container", NEW d, d = SeekEnd(f.end), ~d.offEnd
  PROVE  FrameSound(tree, lists, L, ContainerPass(f, d))
<1> DEFINE g == ContainerPass(f, d)
           ends == lists[End]
           j == EndPost(ends, f.end)
<1>1. lists \in Chunks /\ query \in DOMAIN Trees /\ f.end \in Int
  BY FrameFacts DEF TypeOK
<1>2. /\ g.n = f.n /\ g.i = 1 /\ g.step = "pass" /\ ~g.found
      /\ g.begin = d.prevLoc /\ g.documentEnd = d.endLocation
  BY DEF ContainerPass, Frames
<1>3. tree[f.n].contained \in Nat
  BY <1>1, FrameFacts
<1>4. j \in 0..Len(ends) /\ DOMAIN ends = 1..Len(ends) /\ Len(ends) \in Nat
  BY <1>1, EndFacts, ListFacts, EndPostFacts
<1>5. j # 0 /\ d.endLocation = ends[j] /\ d.prevLoc = IF j = 1 THEN 0 ELSE ends[j - 1]
  <2>1. j = 0 => d.offEnd
    BY DEF SeekEnd, TypeOK
  <2> QED
    BY <2>1 DEF SeekEnd
<1> HIDE DEF g, j
<1>6. ContainerSound(tree, lists, L, g)
  <2>1. j \in DOMAIN ends /\ g.documentEnd = ends[j] /\ (j = 1 \/ g.begin = ends[j - 1])
    BY <1>2, <1>4, <1>5
  <2> QED
    BY <1>2, <1>3, <2>1 DEF ContainerSound
<1>7. OrSound(tree, lists, L, g) /\ PhraseSound(tree, L, g)
  BY <1>2 DEF OrSound, PhraseSound, Op
<1> QED
  BY <1>6, <1>7 DEF FrameSound, g

-----------------------------------------------------------------------------
(* What a Seek takes from its terms *)

LEMMA UnaliasedFacts ==
  ASSUME Unaliased, query \in DOMAIN Trees, NEW n \in DOMAIN tree
  PROVE  /\ tree[n].op = "container" => \A i \in 1..tree[n].contained :
              /\ NoChoice(tree, lists, tree[n].terms[i])
              /\ tree[n].contained > 1 => Simple(tree, tree[n].terms[i])
         /\ tree[n].op = "phrase" => Len(tree[n].terms) <= 2
<1>1. ASSUME tree[n].op = "container", NEW i \in 1..tree[n].contained
      PROVE  /\ NoChoice(tree, lists, tree[n].terms[i])
             /\ tree[n].contained > 1 => Simple(tree, tree[n].terms[i])
  <2> DEFINE below == tree[tree[n].terms[i]].under
  <2>1. /\ \A m \in below : tree[m].op = "or" =>
             \A j, k \in DOMAIN tree[m].terms :
               IsThere(tree[m].terms[j]) /\ IsThere(tree[m].terms[k]) => j = k
        /\ tree[n].contained > 1 => below \cap Containers = {}
    BY <1>1 DEF Unaliased, Containers
  <2>2. i \in 1..Len(tree[n].terms)
    BY <1>1, TermsFacts
  <2>3. tree[n].terms[i] \in DOMAIN tree /\ below \subseteq DOMAIN tree
    BY <2>2, TermsFacts, BelowFacts
  <2>4. ASSUME NEW m \in below, NEW j \in DOMAIN tree[m].terms, There(tree, lists, tree[m].terms[j])
        PROVE  IsThere(tree[m].terms[j])
    <3>1. m \in DOMAIN tree
      BY <2>3, <2>4
    <3>2. tree[m].terms[j] \in DOMAIN tree
      BY <2>4, <3>1, TermsFacts
    <3>3. tree[tree[m].terms[j]].under \subseteq DOMAIN tree
      BY <3>2, BelowFacts
    <3> QED
      BY <2>4, <3>3 DEF There, IsThere, Words
  <2>5. NoChoice(tree, lists, tree[n].terms[i])
    BY <2>1, <2>4 DEF NoChoice
  <2>6. tree[n].contained > 1 => Simple(tree, tree[n].terms[i])
    BY <2>1, <2>3 DEF Simple, Containers
  <2> QED
    BY <2>5, <2>6
<1>2. tree[n].op = "phrase" => Len(tree[n].terms) <= 2
  BY DEF Unaliased, Phrases
<1> QED
  BY <1>1, <1>2

\* f takes what its current term has found, and that is right.
TakingSound(L, f, r) ==
  /\ Taking(L, f, r) /\ FrameSound(tree, lists, L, f)
  /\ Answers(tree, lists, L, Term(f), TermTarget(f), r)

LEMMA OrTakesSound ==
  ASSUME NEW L, NEW f, NEW r, TakingSound(L, f, r), Op(f) = "or"
  PROVE  FrameSound(tree, lists, L, OrTakes(f, r))
<1> DEFINE g == OrTakes(f, r)
           terms == tree[f.n].terms
<1>1. f \in Frames /\ tree[f.n].op = "or" /\ query \in DOMAIN Trees /\ Asks(f)
  BY DEF TakingSound, Taking, Op
<1>2. /\ f.n \in DOMAIN tree /\ f.i \in 1..Len(terms) /\ f.i \in Nat
      /\ r.post # Null => r.post \in tree[terms[f.i]].under
  BY TakingFacts DEF TakingSound
<1>3. g.n = f.n /\ g.i = f.i + 1 /\ g.target = f.target
  BY <1>1 DEF OrTakes, Frames
<1>4. IF r.post # Null /\ r.at < f.start THEN g.post = r.post /\ g.start = r.at
                                         ELSE g.post = f.post /\ g.start = f.start
  BY <1>1 DEF OrTakes, Frames
<1>5. TermTarget(f) = f.target /\ Term(f) = terms[f.i]
  BY <1>1 DEF TermTarget, Op, Term, Terms
<1>6. \A j \in 1..(f.i - 1) : j \in 1..(g.i - 1)
  BY <1>2, <1>3
<1>7. f.i \in 1..(g.i - 1)
  BY <1>2, <1>3, SMTT(30)
<1> HIDE DEF g
<1>8. OrSound(tree, lists, L, g)
  <2>1. CASE r.post # Null /\ r.at < f.start
    <3>1. /\ Sound(tree, lists, L, terms[f.i], r.at)
          /\ Simple(tree, terms[f.i]) => NotBefore(lists, r.at, f.target + 1)
      BY <1>5, <2>1 DEF TakingSound, Answers
    <3>2. Simple(tree, f.n) => Simple(tree, terms[f.i])
      BY <1>1, <1>2, LessUnder
    <3>3. g.post \in tree[terms[f.i]].under /\ g.post = r.post /\ g.start = r.at
      BY <1>2, <1>4, <2>1
    <3> HIDE DEF terms
    <3> QED
      BY <1>3, <1>7, <3>1, <3>2, <3>3 DEF OrSound, terms
  <2>2. CASE ~(r.post # Null /\ r.at < f.start)
    <3>1. g.post = f.post /\ g.start = f.start
      BY <1>4, <2>2
    <3>2. OrSound(tree, lists, L, f)
      BY DEF TakingSound, FrameSound
    <3> QED
      BY <1>1, <1>3, <1>6, <3>1, <3>2 DEF OrSound
  <2> QED
    BY <2>1, <2>2
<1>9. PhraseSound(tree, L, g) /\ ContainerSound(tree, lists, L, g)
  BY <1>1, <1>3 DEF PhraseSound, ContainerSound
<1> QED
  BY <1>8, <1>9 DEF FrameSound, g

LEMMA PhraseTakesSound ==
  ASSUME NEW L, NEW f, NEW r, TakingSound(L, f, r), Op(f) = "phrase"
  PROVE  FrameSound(tree, lists, L, Takes(f, r))
<1> DEFINE g == Takes(f, r)
           terms == tree[f.n].terms
<1>1. f \in Frames /\ tree[f.n].op = "phrase" /\ query \in DOMAIN Trees /\ f.step \in {"first", "pass"}
  BY FrameFacts DEF TakingSound, Taking, Op, Asks
<1>2. g.n = f.n
  BY <1>1, TakesReader DEF TakingSound, Taking
<1>3. SUFFICES ASSUME g.step = "pass", g.found, g.passFarthest = 1, g.i > 2
               PROVE  L[terms[2]] = g.passEnd + 1
  BY <1>1, <1>2 DEF FrameSound, OrSound, PhraseSound, ContainerSound
<1>4. CASE f.step = "first"
  <2>1. g = PhraseFirst(f, r)
    BY <1>4 DEF Takes
  <2>2. g.step # "pass"
    BY <1>1, <1>4, <2>1 DEF PhraseFirst, Lost, Frames
  <2> QED
    BY <1>3, <2>2
<1>5. CASE f.step = "pass"
  <2>1. g = PhraseNext(f, r)
    BY <1>1, <1>5 DEF Takes, Op
  <2>2. r.post # Null
    BY <1>1, <1>3, <2>1 DEF PhraseNext, Lost, Frames
  <2>3. /\ g.passEnd = f.passEnd /\ g.passFarthest = f.passFarthest
        /\ g.found => r.at <= ExpectedLoc(f) /\ g.i = f.i + 1
    <3>1. PICK near, far : g = PhraseTakes(f, r, near, far)
      BY <2>1, <2>2 DEF PhraseNext
    <3> QED
      BY <1>1, <3>1 DEF PhraseTakes, Frames
  <2>4. /\ f.i \in 1..Len(terms) /\ f.i \in Nat /\ Len(terms) \in Nat
        /\ r.post = terms[f.i] /\ r.at = L[terms[f.i]] /\ r.at >= TermTarget(f) /\ r.at \in Nat
    BY <2>2, TakingFacts DEF TakingSound, Op
  <2>5. TermTarget(f) = ExpectedLoc(f)
    BY <1>1, <1>5 DEF TermTarget, Op
  <2>6. f.passEnd \in Nat
    BY <1>1, FrameFacts
  <2>7. PassInv(tree, lists, L, f) /\ PhraseSound(tree, L, f)
    BY DEF TakingSound, Taking, FrameInv, FrameSound
  <2>8. f.found
    <3>1. ~f.found => f.i = Len(terms) + 1
      BY <1>1, <1>5, <2>7 DEF PassInv
    <3> QED
      BY <2>4, <3>1
  <2>9. CASE f.i = 2
    <3>1. f.end = f.passEnd /\ f.farthest = 1
      BY <1>1, <1>3, <1>5, <2>3, <2>7, <2>8, <2>9 DEF PassInv
    <3>2. ExpectedLoc(f) = f.passEnd + 1
      BY <2>6, <2>9, <3>1 DEF ExpectedLoc
    <3> QED
      BY <1>3, <2>3, <2>4, <2>5, <2>6, <2>9, <3>2
  <2>10. CASE f.i # 2
    <3>1. f.i > 2
      BY <1>3, <2>3, <2>4, <2>10
    <3> QED
      BY <1>1, <1>3, <1>5, <2>3, <2>7, <2>8, <3>1 DEF PhraseSound
  <2> QED
    BY <2>9, <2>10
<1> QED
  BY <1>1, <1>4, <1>5

\* What the term has found is right: its document is that of the pass, if the
\* container has several terms.
LEMMA ContainedFinds ==
  ASSUME NEW L, NEW f, NEW r, TakingSound(L, f, r), Unaliased, Op(f) = "container", f.step = "pass",
         f.i <= tree[f.n].contained, r.post # Null, r.at <= f.documentEnd,
         NEW d \in DOMAIN lists[End], f.documentEnd = lists[End][d], d = 1 \/ f.begin = lists[End][d - 1]
  PROVE  \E e \in DOMAIN lists[End] :
           /\ Holds(tree, lists, e)[tree[f.n].terms[f.i]]
           /\ Settled(tree, lists, L, tree[f.n].terms[f.i], e)
           /\ tree[f.n].contained > 1 => e = d
<1> DEFINE n == tree[f.n].terms[f.i]
<1>1. /\ f \in Frames /\ query \in DOMAIN Trees /\ lists \in Chunks /\ f.n \in DOMAIN tree
      /\ f.i \in 1..Len(tree[f.n].terms) /\ f.i \in Nat
  BY TakingFacts DEF TakingSound, Taking
<1>2. Stands(tree, lists, L, r.post) /\ r.at = L[r.post] /\ r.at \in Nat
  BY TakingFacts DEF TakingSound
<1>3. Term(f) = n /\ TermTarget(f) = f.begin /\ f.begin \in Nat
  BY <1>1, FrameFacts DEF Term, Terms, TermTarget, Op
<1>4. /\ Sound(tree, lists, L, n, r.at)
      /\ Simple(tree, n) => NotBefore(lists, r.at, f.begin + 1)
  BY <1>3 DEF TakingSound, Answers
<1>5. f.i \in 1..tree[f.n].contained /\ tree[f.n].contained \in Nat
  BY <1>1, TermsFacts
<1>6. NoChoice(tree, lists, n) /\ (tree[f.n].contained > 1 => Simple(tree, n))
  BY <1>1, <1>5, UnaliasedFacts DEF Op
<1> HIDE DEF n
<1>7. PICK e \in DOMAIN lists[End] : Within(lists, r.at, e)
  BY <1>1, <1>2, DocumentOfPost
<1>8. Holds(tree, lists, e)[n] /\ Settled(tree, lists, L, n, e)
  BY <1>4, <1>6, <1>7 DEF Sound
<1>9. ASSUME tree[f.n].contained > 1 PROVE e = d
  <2>1. Within(lists, r.at, d)
    <3>1. SUFFICES ASSUME d # 1 PROVE r.at > lists[End][d - 1]
      BY DEF Within
    <3>2. d - 1 \in DOMAIN lists[End] /\ lists[End][d - 1] \in Nat
      <4>1. DOMAIN lists[End] = 1..Len(lists[End]) /\ Len(lists[End]) \in Nat
            /\ \A k \in DOMAIN lists[End] : lists[End][k] \in Nat
        BY <1>1, EndFacts, ListFacts
      <4> QED
        BY <3>1, <4>1
    <3>3. f.begin = lists[End][d - 1]
      BY <3>1
    <3>4. lists[End][d - 1] <= r.at
      BY <1>3, <1>4, <1>6, <1>9, <3>2, <3>3 DEF NotBefore
    <3>5. lists[End][d - 1] # r.at
      BY <1>1, <1>2, <3>2, StandsFacts
    <3> QED
      BY <1>2, <3>2, <3>4, <3>5
  <2> QED
    BY <1>1, <1>2, <1>7, <2>1, DocumentOfPost
<1> QED
  BY <1>8, <1>9 DEF n

LEMMA ContainedSound ==
  ASSUME NEW L, NEW f, NEW r, TakingSound(L, f, r), Unaliased, Op(f) = "container", f.step = "pass",
         f.i <= tree[f.n].contained
  PROVE  FrameSound(tree, lists, L, ContainedNext(f, r))
<1> DEFINE g == ContainedNext(f, r)
           terms == tree[f.n].terms
           contained == tree[f.n].contained
<1>1. /\ f \in Frames /\ query \in DOMAIN Trees /\ lists \in Chunks /\ f.n \in DOMAIN tree
      /\ f.i \in 1..Len(terms) /\ f.i \in Nat /\ contained \in Nat
  BY TakingFacts, FrameFacts DEF TakingSound, Taking
<1>2. CASE r.post = Null
  BY <1>1, <1>2, LostSound DEF ContainedNext
<1>3. CASE r.post # Null
  <2>1. /\ g.n = f.n /\ g.step = "pass" /\ g.documentEnd = f.documentEnd /\ g.begin = f.begin
        /\ g.found = (r.at <= f.documentEnd)
        /\ g.i = IF r.at <= f.documentEnd THEN f.i + 1 ELSE contained + 1
    BY <1>1, <1>3 DEF ContainedNext, Frames
  <2>2. ContainerSound(tree, lists, L, f)
    BY DEF TakingSound, FrameSound
  <2>3. f.i > 1 => f.found
    BY <2>2 DEF ContainerSound, Op
  <2>4. PICK d \in DOMAIN lists[End] :
          /\ f.documentEnd = lists[End][d] /\ (d = 1 \/ f.begin = lists[End][d - 1])
          /\ f.found => TermsSettled(tree, lists, L, f, d)
    BY <2>2 DEF ContainerSound, Op
  <2> HIDE DEF g
  <2>5. ASSUME g.found PROVE TermsSettled(tree, lists, L, g, d)
    <3>1. r.at <= f.documentEnd /\ g.i = f.i + 1
      BY <2>1, <2>5
    <3>2. \E e \in DOMAIN lists[End] :
            /\ Holds(tree, lists, e)[terms[f.i]] /\ Settled(tree, lists, L, terms[f.i], e)
            /\ contained > 1 => e = d
      BY <1>3, <2>4, <3>1, ContainedFinds
    <3>3. ASSUME NEW j \in 1..(f.i - 1)
          PROVE  \E e \in DOMAIN lists[End] :
                   /\ Holds(tree, lists, e)[terms[j]] /\ Settled(tree, lists, L, terms[j], e)
                   /\ contained > 1 => e = d
      <4>1. f.found
        BY <1>1, <2>3, <3>3
      <4> QED
        BY <2>4, <3>3, <4>1 DEF TermsSettled
    <3>4. ASSUME NEW j \in 1..(g.i - 1) PROVE j = f.i \/ j \in 1..(f.i - 1)
      BY <1>1, <3>1
    <3> HIDE DEF terms, contained
    <3>5. ASSUME NEW j \in 1..(g.i - 1)
          PROVE  \E e \in DOMAIN lists[End] :
                   /\ Holds(tree, lists, e)[terms[j]] /\ Settled(tree, lists, L, terms[j], e)
                   /\ contained > 1 => e = d
      BY <3>2, <3>3, <3>4, <3>5
    <3> QED
      BY <2>1, <3>5 DEF TermsSettled, terms, contained
  <2>6. /\ contained > 0 /\ g.i <= contained + 1 /\ (g.found => g.i > 1)
        /\ (g.i > 1 /\ g.i <= contained => g.found)
    <3> HIDE DEF terms, contained
    <3>1. f.i <= contained
      BY DEF contained
    <3>2. f.i >= 1
      BY <1>1
    <3>3. CASE r.at <= f.documentEnd
      <4>1. g.found /\ g.i = f.i + 1
        BY <2>1, <3>3
      <4> QED
        BY <1>1, <3>1, <3>2, <4>1
    <3>4. CASE ~(r.at <= f.documentEnd)
      <4>1. ~g.found /\ g.i = contained + 1
        BY <2>1, <3>4
      <4> QED
        BY <1>1, <3>1, <3>2, <4>1
    <3> QED
      BY <3>3, <3>4
  <2>7. ContainerSound(tree, lists, L, g)
    BY <2>1, <2>4, <2>5, <2>6 DEF ContainerSound
  <2>8. OrSound(tree, lists, L, g) /\ PhraseSound(tree, L, g)
    BY <2>1 DEF OrSound, PhraseSound, Op
  <2> QED
    BY <2>7, <2>8 DEF FrameSound, g
<1> QED
  BY <1>2, <1>3

\* An excluded term beside contained ones is found nowhere.
LEMMA ExcludedSound ==
  ASSUME NEW L, NEW f, NEW r, TakingSound(L, f, r), Op(f) = "container", f.step = "pass",
         f.i > tree[f.n].contained
  PROVE  FrameSound(tree, lists, L, ExcludedNext(f, r))
<1> DEFINE g == ExcludedNext(f, r)
           terms == tree[f.n].terms
           contained == tree[f.n].contained
<1>1. /\ f \in Frames /\ query \in DOMAIN Trees /\ lists \in Chunks /\ f.n \in DOMAIN tree
      /\ f.i \in 1..Len(terms) /\ f.i \in Nat /\ contained \in Nat /\ DOMAIN terms = 1..Len(terms)
  BY TakingFacts, FrameFacts DEF TakingSound, Taking
<1>2. CASE r.post = Null \/ r.start < f.documentEnd
  BY <1>2, CalledSound DEF ExcludedNext
<1>3. CASE ~(r.post = Null \/ r.start < f.documentEnd)
  <2>1. g = [f EXCEPT !.i = @ + 1]
    BY <1>3 DEF ExcludedNext
  <2>2. g.n = f.n /\ g.step = "pass" /\ g.found = f.found /\ g.i = f.i + 1
        /\ g.documentEnd = f.documentEnd /\ g.begin = f.begin
    BY <1>1, <2>1 DEF Frames
  <2> HIDE DEF g
  <2>3. contained = 0
    <3>1. SUFFICES ASSUME contained > 0 PROVE FALSE
      BY <1>1
    <3>2. \A i \in (contained + 1)..Len(terms) :
            tree[terms[i]].op = "container" /\ tree[terms[i]].contained = 0
      BY <1>1, <3>1, TreeFacts DEF IsTree, Op
    <3>3. f.i \in (contained + 1)..Len(terms)
      BY <1>1
    <3>4. Term(f) = terms[f.i]
      BY DEF Term, Terms
    <3>5. tree[terms[f.i]].contained > 0
      BY <1>3, <3>2, <3>3, <3>4 DEF TakingSound, Answers
    <3> QED
      BY <3>2, <3>3, <3>5, SMTT(30)
  <2>4. ContainerSound(tree, lists, L, f)
    BY DEF TakingSound, FrameSound
  <2>5. ~f.found /\ \E d \in DOMAIN lists[End] :
          f.documentEnd = lists[End][d] /\ (d = 1 \/ f.begin = lists[End][d - 1])
    BY <2>3, <2>4 DEF ContainerSound, Op
  <2>6. ContainerSound(tree, lists, L, g)
    <3>1. tree[g.n].contained = 0 /\ ~g.found /\ g.i > 0 /\ ~(g.i > 1 /\ g.i <= 0)
      BY <1>1, <2>2, <2>3, <2>5
    <3>2. \E d \in DOMAIN lists[End] :
            g.documentEnd = lists[End][d] /\ (d = 1 \/ g.begin = lists[End][d - 1])
      BY <2>2, <2>5
    <3> QED
      BY <3>1, <3>2 DEF ContainerSound
  <2>7. OrSound(tree, lists, L, g) /\ PhraseSound(tree, L, g)
    BY <2>2 DEF OrSound, PhraseSound, Op
  <2> QED
    BY <2>6, <2>7 DEF FrameSound, g
<1> QED
  BY <1>2, <1>3

LEMMA TakesSound ==
  ASSUME NEW L, NEW f, NEW r, TakingSound(L, f, r), Unaliased
  PROVE  FrameSound(tree, lists, L, Takes(f, r))
<1>1. /\ f \in Frames /\ query \in DOMAIN Trees /\ Op(f) \in {"or", "phrase", "container"}
      /\ f.step \in {"first", "pass"} /\ f.i \in Nat /\ tree[f.n].contained \in Nat
  BY FrameFacts DEF TakingSound, Taking, Asks
<1>2. CASE Op(f) = "or"
  BY <1>2, OrTakesSound DEF Takes
<1>3. CASE Op(f) = "phrase"
  BY <1>3, PhraseTakesSound
<1>4. CASE Op(f) = "container" /\ f.step = "first"
  <2>1. Takes(f, r) = Farther(f, r)
    BY <1>4 DEF Takes
  <2>2. Farther(f, r).n = f.n /\ Farther(f, r).step = "first"
    BY <1>1, <1>4 DEF Farther, Frames
  <2> QED
    BY <1>4, <2>1, <2>2 DEF FrameSound, OrSound, PhraseSound, ContainerSound, Op
<1>5. CASE Op(f) = "container" /\ f.step = "pass" /\ f.i <= tree[f.n].contained
  <2>1. /\ f.step # "first" /\ Op(f) # "or" /\ Op(f) # "phrase" /\ ~(f.i > tree[f.n].contained)
    BY <1>1, <1>5
  <2>2. Takes(f, r) = ContainedNext(f, r)
    BY <1>5, <2>1 DEF Takes
  <2> QED
    BY <1>5, <2>2, ContainedSound
<1>6. CASE Op(f) = "container" /\ f.step = "pass" /\ f.i > tree[f.n].contained
  <2>1. Takes(f, r) = ExcludedNext(f, r)
    BY <1>1, <1>6 DEF Takes
  <2> QED
    BY <1>6, <2>1, ExcludedSound
<1> QED
  BY <1>1, <1>2, <1>3, <1>4, <1>5, <1>6

-----------------------------------------------------------------------------
(* What a Seek returns *)

\* Right of a reader n with terms is a post that is under one of them, if all
\* that a document has to hold is settled by the terms.
LEMMA SettledTerms ==
  ASSUME query \in DOMAIN Trees, NEW n \in DOMAIN tree, tree[n].op # "word", NEW L, NEW d,
         \A w \in tree[n].under : \A j \in 1..Len(tree[n].terms) :
           w \in tree[tree[n].terms[j]].under /\ tree[w].op = "word" /\ tree[w].key \in DOMAIN lists =>
             Within(lists, L[w], d)
  PROVE  Settled(tree, lists, L, n, d)
<1>1. SUFFICES ASSUME NEW w \in tree[n].under, tree[w].op = "word", tree[w].key \in DOMAIN lists
               PROVE  Within(lists, L[w], d)
  BY DEF Settled
<1>2. PICK j \in 1..Len(tree[n].terms) : w \in tree[tree[n].terms[j]].under
  BY <1>1, UnderTerms
<1> QED
  BY <1>1, <1>2

LEMMA OrResultSound ==
  ASSUME TypeOK, NEW f \in Frames, FrameInv(tree, lists, loc, f), FrameSound(tree, lists, loc, f),
         Op(f) = "or", f.post # Null
  PROVE  /\ Sound(tree, lists, loc, f.n, loc[f.post])
         /\ Simple(tree, f.n) => NotBefore(lists, loc[f.post], f.target + 1)
<1> DEFINE terms == tree[f.n].terms
           p == f.post
<1>1. /\ lists \in Chunks /\ query \in DOMAIN Trees /\ f.n \in DOMAIN tree /\ tree[f.n].op = "or"
      /\ Len(terms) \in Nat /\ DOMAIN terms = 1..Len(terms) /\ f.i \in Nat
  BY FrameFacts, TermsFacts DEF TypeOK, Op
<1>2. f.start = loc[p] /\ f.i <= Len(terms) + 1
  BY <1>1 DEF FrameInv, OrInv
<1>3. Simple(tree, f.n) => NotBefore(lists, loc[p], f.target + 1)
  BY <1>1, <1>2 DEF FrameSound, OrSound
<1>4. PICK j \in 1..(f.i - 1) : p \in tree[terms[j]].under /\ Sound(tree, lists, loc, terms[j], f.start)
  BY <1>1 DEF FrameSound, OrSound
<1>5. j \in 1..Len(terms) /\ j \in DOMAIN terms
  BY <1>1, <1>2
<1>6. Stands(tree, lists, loc, p)
  BY DEF FrameInv, PostsStand, Posts
<1>7. There(tree, lists, terms[j])
  BY <1>4, <1>6 DEF There, Stands, PostAt
<1>8. SUFFICES ASSUME NEW d \in DOMAIN lists[End], Within(lists, loc[p], d)
               PROVE  /\ Holds(tree, lists, d)[f.n]
                      /\ NoChoice(tree, lists, f.n) => Settled(tree, lists, loc, f.n, d)
  BY <1>3 DEF Sound
<1>9. /\ Holds(tree, lists, d)[terms[j]]
      /\ NoChoice(tree, lists, terms[j]) => Settled(tree, lists, loc, terms[j], d)
  BY <1>2, <1>4, <1>8 DEF Sound
<1>10. Holds(tree, lists, d)[f.n]
  <2>1. Means(tree, lists, d, Holds(tree, lists, d), f.n)
    BY <1>1, <1>5, <1>9 DEF Means
  <2> QED
    BY <1>1, <2>1, HoldsFacts
<1>11. ASSUME NoChoice(tree, lists, f.n) PROVE Settled(tree, lists, loc, f.n, d)
  <2>1. Settled(tree, lists, loc, terms[j], d)
    BY <1>1, <1>5, <1>9, <1>11, LessUnder
  <2>2. f.n \in tree[f.n].under
    BY <1>1, UnderFacts
  <2>3. ASSUME NEW w \in tree[f.n].under, NEW k \in 1..Len(terms), w \in tree[terms[k]].under,
               tree[w].op = "word", tree[w].key \in DOMAIN lists
        PROVE  Within(lists, loc[w], d)
    <3>1. There(tree, lists, terms[k])
      BY <2>3 DEF There
    <3>2. k = j
      BY <1>1, <1>5, <1>7, <1>11, <2>2, <3>1 DEF NoChoice
    <3> QED
      BY <2>1, <2>3, <3>2 DEF Settled
  <2> QED
    BY <1>1, <2>3, SettledTerms
<1> QED
  BY <1>10, <1>11

\* Between a token and one right behind it no document ends.
LEMMA SideBySide ==
  ASSUME lists \in Chunks, NEW x \in Nat, NEW d \in DOMAIN lists[End],
         \A e \in DOMAIN lists[End] : lists[End][e] # x /\ lists[End][e] # x + 1
  PROVE  Within(lists, x, d) <=> Within(lists, x + 1, d)
<1>1. /\ DOMAIN lists[End] = 1..Len(lists[End]) /\ Len(lists[End]) \in Nat
      /\ \A e \in DOMAIN lists[End] : lists[End][e] \in Nat
  BY EndFacts, ListFacts
<1>2. x <= lists[End][d] <=> x + 1 <= lists[End][d]
  BY <1>1
<1>3. d # 1 => (x > lists[End][d - 1] <=> x + 1 > lists[End][d - 1])
  <2>1. SUFFICES ASSUME d # 1 PROVE x > lists[End][d - 1] <=> x + 1 > lists[End][d - 1]
    OBVIOUS
  <2>2. d - 1 \in DOMAIN lists[End]
    BY <1>1, <2>1
  <2>3. lists[End][d - 1] \in Nat /\ lists[End][d - 1] # x
    BY <1>1, <2>2
  <2> QED
    BY <2>3
<1> QED
  BY <1>2, <1>3 DEF Within

\* Two words of a phrase that stand side by side, or one.
LEMMA PhraseStandsSound ==
  ASSUME lists \in Chunks, query \in DOMAIN Trees, NEW n \in DOMAIN tree, tree[n].op = "phrase", NEW L,
         Len(tree[n].terms) \in 1..2, NEW m \in 1..Len(tree[n].terms), NEW l \in Nat, NEW a \in Nat,
         \A j \in 1..Len(tree[n].terms) :
           Stands(tree, lists, L, tree[n].terms[j]) /\ L[tree[n].terms[j]] = a + j - 1,
         l < a + Len(tree[n].terms)
  PROVE  /\ Sound(tree, lists, L, n, L[tree[n].terms[m]])
         /\ NotBefore(lists, L[tree[n].terms[m]], l + 1)
<1> DEFINE terms == tree[n].terms
           p == L[terms[m]]
<1>1. /\ DOMAIN terms = 1..Len(terms) /\ Len(terms) \in Nat /\ terms # << >>
      /\ \A j \in 1..Len(terms) : terms[j] \in Words
  BY TermsFacts, SMTT(30)
<1>2. \A j \in 1..Len(terms) : Stands(tree, lists, L, terms[j]) /\ L[terms[j]] = a + j - 1
  OBVIOUS
<1>3. \A e \in DOMAIN lists[End] : lists[End][e] \in Nat
  BY EndFacts, ListFacts
<1>4. ASSUME NEW j \in 1..Len(terms)
      PROVE  /\ a + j - 1 \in Locations /\ a + j - 1 \in Nat /\ PostAt(lists, tree[terms[j]].key, a + j - 1)
             /\ \A e \in DOMAIN lists[End] : lists[End][e] # a + j - 1
  <2> DEFINE at == L[terms[j]]
  <2>1. Stands(tree, lists, L, terms[j]) /\ at = a + j - 1
    BY <1>2
  <2>2. /\ at \in Locations /\ at \in Nat /\ PostAt(lists, tree[terms[j]].key, at)
        /\ \A e \in DOMAIN lists[End] : lists[End][e] # at
    <3> HIDE DEF terms
    <3> QED
      BY <2>1, StandsFacts DEF Stands
  <2> HIDE DEF at
  <2> QED
    BY <2>1, <2>2
<1>5. /\ m \in 1..Len(terms) /\ m \in Nat /\ Len(terms) \in Nat
      /\ (Len(terms) = 1 \/ Len(terms) = 2) /\ l < a + Len(terms) /\ p = a + m - 1
  BY <1>2
<1> HIDE DEF terms, p
<1>6. ASSUME NEW d \in DOMAIN lists[End], Within(lists, p, d), NEW j \in 1..Len(terms)
      PROVE  Within(lists, a + j - 1, d)
  <2>1. j = m \/ (Len(terms) = 2 /\ ((j = 1 /\ m = 2) \/ (j = 2 /\ m = 1)))
    <3>1. CASE Len(terms) = 1
      BY <1>5, <1>6, <3>1
    <3>2. CASE Len(terms) = 2
      <4>1. j \in 1..2 /\ m \in 1..2
        BY <1>5, <1>6, <3>2
      <4> QED
        BY <3>2, <4>1
    <3> QED
      BY <1>5, <3>1, <3>2
  <2>2. CASE j = m
    BY <1>5, <1>6, <2>2
  <2>3. CASE Len(terms) = 2 /\ ((j = 1 /\ m = 2) \/ (j = 2 /\ m = 1))
    <3>1. \A e \in DOMAIN lists[End] : lists[End][e] # a /\ lists[End][e] # a + 1
      <4>1. 1 \in 1..Len(terms) /\ 2 \in 1..Len(terms) /\ a + 1 - 1 = a /\ a + 2 - 1 = a + 1
        BY <2>3
      <4> QED
        BY <1>4, <4>1
    <3>2. Within(lists, a, d) <=> Within(lists, a + 1, d)
      BY <3>1, SideBySide
    <3>3. CASE j = 1 /\ m = 2
      <4>1. p = a + 1 /\ a + j - 1 = a
        BY <1>5, <3>3
      <4> QED
        BY <1>6, <3>2, <4>1
    <3>4. CASE j = 2 /\ m = 1
      <4>1. p = a /\ a + j - 1 = a + 1
        BY <1>5, <3>4
      <4> QED
        BY <1>6, <3>2, <4>1
    <3> QED
      BY <2>3, <3>3, <3>4
  <2> QED
    BY <2>1, <2>2, <2>3
<1>7. ASSUME NEW d \in DOMAIN lists[End], Within(lists, p, d)
      PROVE  Holds(tree, lists, d)[n] /\ Settled(tree, lists, L, n, d)
  <2>1. \A j \in DOMAIN terms : PostWithin(lists, tree[terms[j]].key, a + j - 1, d)
    BY <1>1, <1>4, <1>6, <1>7 DEF PostWithin
  <2>2. a \in Locations
    <3>1. 1 \in 1..Len(terms) /\ a + 1 - 1 = a
      BY <1>5
    <3> QED
      BY <1>4, <3>1
  <2>3. Means(tree, lists, d, Holds(tree, lists, d), n)
    BY <1>1, <2>1, <2>2 DEF Means, terms
  <2>4. ASSUME NEW w \in tree[n].under, NEW j \in 1..Len(terms), w \in tree[terms[j]].under
        PROVE  Within(lists, L[w], d)
    <3>1. w = terms[j]
      BY <1>1, <2>4, UnderFacts DEF Words
    <3> QED
      BY <1>2, <1>6, <1>7, <3>1
  <2>5. Settled(tree, lists, L, n, d)
    BY <2>4, SettledTerms DEF terms
  <2> QED
    BY <2>3, <2>5, HoldsFacts
<1>8. NotBefore(lists, p, l + 1)
  <2>1. SUFFICES ASSUME NEW d \in DOMAIN lists[End], lists[End][d] < l + 1 PROVE lists[End][d] <= p
    BY DEF NotBefore
  <2>2. Len(terms) \in 1..Len(terms)
    BY <1>5
  <2>3. lists[End][d] \in Nat /\ lists[End][d] # a + Len(terms) - 1
    BY <1>3, <1>4, <2>2
  <2>4. a \in Nat /\ l \in Nat /\ p \in Nat /\ p >= a
    BY <1>5
  <2> DEFINE e == lists[End][d]
             k == Len(terms)
  <2>5. e \in Nat /\ e < l + 1 /\ e # a + k - 1 /\ (k = 1 \/ k = 2) /\ l < a + k
    BY <1>5, <2>1, <2>3
  <2> HIDE DEF e, k
  <2>6. e <= a
    BY <2>4, <2>5
  <2> QED
    BY <2>4, <2>5, <2>6 DEF e
<1> QED
  BY <1>7, <1>8 DEF Sound, p, terms

LEMMA PhraseResultSound ==
  ASSUME TypeOK, NEW f \in Frames, FrameInv(tree, lists, loc, f), FrameSound(tree, lists, loc, f),
         Op(f) = "phrase", Finished(f), PostOf(f) # Null, Len(tree[f.n].terms) <= 2
  PROVE  /\ Sound(tree, lists, loc, f.n, loc[PostOf(f)])
         /\ NotBefore(lists, loc[PostOf(f)], f.target + 1)
<1> DEFINE terms == tree[f.n].terms
           len == Len(terms)
           at(j) == loc[terms[j]]
<1>1. /\ lists \in Chunks /\ query \in DOMAIN Trees /\ f.n \in DOMAIN tree /\ tree[f.n].op = "phrase"
      /\ len \in Nat /\ len <= 2 /\ f.i \in Nat \ {0} /\ f.target \in Nat
      /\ f.step \in {"first", "pass", "lost"}
  BY FrameFacts, TermsFacts DEF TypeOK, Op
<1>2. f.step # "lost" /\ RoundDone(f) /\ f.i > len
  BY DEF PostOf, Finished, RoundDone, InRound, Op, Terms
<1>3. ASSUME NEW m \in 1..len, PostOf(f) = terms[m], NEW a \in Nat,
             \A j \in 1..len : Stands(tree, lists, loc, terms[j]) /\ at(j) = a + j - 1, f.target < a + len
      PROVE  /\ Sound(tree, lists, loc, f.n, loc[PostOf(f)])
             /\ NotBefore(lists, loc[PostOf(f)], f.target + 1)
  <2>1. len \in 1..2
    <3> HIDE DEF len
    <3> QED
      BY <1>1, <1>3
  <2> QED
    BY <1>1, <1>3, <2>1, PhraseStandsSound, ZenonT(30)
<1>4. CASE f.step = "first"
  <2>1. len = 1 /\ PostOf(f) = f.post
    BY <1>4 DEF Finished, PostOf, Op, Terms
  <2>2. /\ f.i <= len + 1 /\ \A j \in 1..(f.i - 1) : Stands(tree, lists, loc, terms[j])
        /\ loc[f.post] >= f.target /\ \E j \in 1..(f.i - 1) : f.post = terms[j]
    BY <1>1, <1>4, <2>1 DEF FrameInv, FirstInv
  <2>3. f.i = 2
    BY <1>1, <1>2, <2>1, <2>2
  <2>4. f.post = terms[1] /\ Stands(tree, lists, loc, terms[1])
    BY <2>2, <2>3
  <2>5. at(1) \in Nat /\ f.target <= at(1)
    BY <1>1, <2>2, <2>4, StandsFacts
  <2>6. /\ 1 \in 1..len /\ f.target < at(1) + len
        /\ \A j \in 1..len : j = 1
    BY <1>1, <2>1, <2>5
  <2>7. \A j \in 1..len : Stands(tree, lists, loc, terms[j]) /\ at(j) = at(1) + j - 1
    BY <2>4, <2>5, <2>6
  <2> HIDE DEF terms, len
  <2> QED
    BY <1>3, <2>1, <2>4, <2>5, <2>6, <2>7
<1>5. CASE f.step = "pass"
  <2> DEFINE E0 == f.passEnd
             F0 == f.passFarthest
             m == f.nearest
  <2>1. f.found
    BY <1>5 DEF Finished, Op
  <2>2. /\ f.farthest \in Nat \ {0} /\ m \in Nat \ {0} /\ E0 \in Nat /\ F0 \in Nat \ {0}
    BY <1>1, FrameFacts
  <2>3. /\ f.target <= E0 /\ f.i <= len + 1
        /\ terms # << >> => F0 <= len /\ f.farthest <= len /\ m <= len
        /\ terms = << >> => Posts(f) = {}
        /\ IF f.i <= F0 + 1 THEN f.end = E0 /\ f.farthest = F0 ELSE f.farthest = f.i - 1
        /\ m < f.i => f.nearestPost = terms[m]
        /\ \A j \in 1..(f.i - 1) :
             /\ Stands(tree, lists, loc, terms[j])
             /\ IF j <= F0 THEN at(j) = E0 - F0 + j ELSE at(j) >= E0
    BY <1>1, <1>5, <2>1 DEF FrameInv, PassInv
  <2>4. F0 = 1 /\ f.i > 2 => at(2) = E0 + 1
    BY <1>1, <1>5, <2>1 DEF FrameSound, PhraseSound
  <2>5. PostOf(f) = IF f.farthest < m THEN f.farthestPost ELSE f.nearestPost
    BY <1>5 DEF PostOf, Op
  <2>6. terms # << >>
    BY <2>3, <2>5 DEF Posts
  <2> HIDE DEF terms, len, E0, F0, m, at
  <2>7. f.i = len + 1 /\ f.farthest = len /\ m \in 1..len
    <3>1. f.i = len + 1
      BY <1>1, <1>2, <2>3
    <3>2. F0 <= len /\ m <= len
      BY <2>3, <2>6
    <3>3. IF f.i <= F0 + 1 THEN f.farthest = F0 ELSE f.farthest = f.i - 1
      BY <2>3
    <3> QED
      BY <1>1, <2>2, <3>1, <3>2, <3>3
  <2>8. PostOf(f) = terms[m]
    BY <1>1, <2>2, <2>3, <2>5, <2>7
  <2>9. \A j \in 1..len :
          /\ Stands(tree, lists, loc, terms[j])
          /\ IF j <= F0 THEN at(j) = E0 - F0 + j ELSE at(j) >= E0
    BY <1>1, <2>3, <2>7
  <2>10. len = 1 \/ len = 2
    BY <1>1, <2>7
  <2>11. F0 \in 1..len
    BY <1>1, <2>2, <2>3, <2>6
  <2>12. 1 \in 1..len
    BY <2>10
  <2>13. at(1) \in Nat
    BY <1>1, <2>9, <2>12, StandsFacts DEF at
  <2>14. at(1) = E0 - F0 + 1
    BY <2>9, <2>11, <2>12
  <2>15. \A j \in 1..len : at(j) = at(1) + j - 1
    <3>1. CASE len = 1
      <4>1. \A j \in 1..len : j = 1
        BY <3>1
      <4> QED
        BY <2>13, <4>1
    <3>2. CASE len = 2
      <4>1. at(2) = at(1) + 1
        <5>1. CASE F0 = 1
          BY <2>2, <2>4, <2>7, <2>14, <3>2, <5>1
        <5>2. CASE F0 = 2
          <6>1. 2 \in 1..len /\ 2 <= F0
            BY <3>2, <5>2
          <6> QED
            BY <2>2, <2>9, <2>14, <5>2, <6>1
        <5> QED
          BY <2>11, <3>2, <5>1, <5>2
      <4>2. \A j \in 1..len : j = 1 \/ j = 2
        BY <3>2
      <4> QED
        BY <2>13, <4>1, <4>2
    <3> QED
      BY <2>10, <3>1, <3>2
  <2>16. f.target < at(1) + len
    <3>1. F0 = 1 \/ (F0 = 2 /\ len = 2)
      BY <2>10, <2>11
    <3> QED
      BY <1>1, <2>2, <2>3, <2>10, <2>14, <3>1
  <2> QED
    BY <1>3, <2>7, <2>8, <2>9, <2>13, <2>15, <2>16
<1> QED
  BY <1>1, <1>2, <1>4, <1>5

LEMMA ContainerResultSound ==
  ASSUME TypeOK, NEW f \in Frames, FrameInv(tree, lists, loc, f), FrameSound(tree, lists, loc, f),
         Op(f) = "container", f.step = "pass", f.found, RoundDone(f), f.post # Null
  PROVE  /\ Sound(tree, lists, loc, f.n, loc[f.post]) /\ tree[f.n].contained > 0
         /\ ~Simple(tree, f.n)
<1> DEFINE terms == tree[f.n].terms
           contained == tree[f.n].contained
           len == Len(terms)
           p == f.post
<1>1. /\ lists \in Chunks /\ query \in DOMAIN Trees /\ f.n \in DOMAIN tree /\ tree[f.n].op = "container"
      /\ len \in Nat /\ DOMAIN terms = 1..len /\ f.i \in Nat /\ contained \in Nat /\ contained <= len
  BY FrameFacts, TermsFacts DEF TypeOK, Op
<1>2. /\ contained > 0 /\ f.i <= contained + 1
      /\ \E d \in DOMAIN lists[End] : TermsSettled(tree, lists, loc, f, d)
  BY <1>1 DEF FrameSound, ContainerSound
<1>3. contained = len /\ f.i = len + 1
  <2>1. f.i > len
    BY DEF RoundDone, InRound, Op, Terms
  <2> QED
    BY <1>1, <1>2, <2>1, SMTT(30)
<1>4. ~Simple(tree, f.n)
  BY <1>1, UnderFacts DEF Simple
<1>5. p \in tree[f.n].under /\ Stands(tree, lists, loc, p)
  BY DEF FrameInv, PostsStand, Posts
<1>6. tree[p].op = "word" /\ tree[p].key \in DOMAIN lists
  BY <1>5 DEF Stands, PostAt
<1>7. PICK k \in 1..len : p \in tree[terms[k]].under
  BY <1>1, <1>5, <1>6, UnderTerms
<1>8. PICK d0 \in DOMAIN lists[End] : TermsSettled(tree, lists, loc, f, d0)
  BY <1>2
<1>9. \A j \in 1..len : \E e \in DOMAIN lists[End] :
        /\ Holds(tree, lists, e)[terms[j]] /\ Settled(tree, lists, loc, terms[j], e)
        /\ contained > 1 => e = d0
  BY <1>1, <1>3, <1>8 DEF TermsSettled
<1>10. SUFFICES ASSUME NEW d \in DOMAIN lists[End], Within(lists, loc[p], d)
                PROVE  Holds(tree, lists, d)[f.n] /\ Settled(tree, lists, loc, f.n, d)
  BY <1>2, <1>4 DEF Sound
<1>11. PICK e \in DOMAIN lists[End] :
         Settled(tree, lists, loc, terms[k], e) /\ (contained > 1 => e = d0)
  BY <1>9
<1>12. e = d
  <2>1. Within(lists, loc[p], e)
    BY <1>6, <1>7, <1>11 DEF Settled
  <2> QED
    BY <1>1, <1>5, <1>10, <2>1, DocumentOfPost
<1> HIDE DEF terms, contained, len, p
<1>13. ASSUME NEW j \in 1..len
       PROVE  Holds(tree, lists, d)[terms[j]] /\ Settled(tree, lists, loc, terms[j], d)
  <2>1. PICK e2 \in DOMAIN lists[End] :
          /\ Holds(tree, lists, e2)[terms[j]] /\ Settled(tree, lists, loc, terms[j], e2)
          /\ contained > 1 => e2 = d0
    BY <1>9
  <2>2. CASE contained > 1
    BY <1>11, <1>12, <2>1, <2>2
  <2>3. CASE ~(contained > 1)
    <3>1. j = k
      BY <1>1, <1>3, <2>3
    <3>2. PICK e3 \in DOMAIN lists[End] :
            Holds(tree, lists, e3)[terms[k]] /\ Settled(tree, lists, loc, terms[k], e3)
      BY <1>9
    <3>3. Within(lists, loc[p], e3)
      BY <1>6, <1>7, <3>2 DEF Settled
    <3>4. e3 = d
      BY <1>1, <1>5, <1>10, <3>3, DocumentOfPost
    <3> QED
      BY <3>1, <3>2, <3>4
  <2> QED
    BY <2>2, <2>3
<1>14. Holds(tree, lists, d)[f.n]
  <2>1. Means(tree, lists, d, Holds(tree, lists, d), f.n)
    BY <1>1, <1>3, <1>13 DEF Means, terms, contained, len
  <2> QED
    BY <1>1, <2>1, HoldsFacts
<1>15. Settled(tree, lists, loc, f.n, d)
  <2>1. ASSUME NEW w \in tree[f.n].under, NEW j \in 1..len, w \in tree[terms[j]].under,
               tree[w].op = "word", tree[w].key \in DOMAIN lists
        PROVE  Within(lists, loc[w], d)
    BY <1>13, <2>1 DEF Settled
  <2> QED
    BY <1>1, <2>1, SettledTerms DEF terms, len
<1> QED
  BY <1>14, <1>15

LEMMA ResultSound ==
  ASSUME TypeOK, NEW f \in Frames, FrameInv(tree, lists, loc, f), FrameSound(tree, lists, loc, f),
         Finished(f), Unaliased, NEW start \in 0..Highest
  PROVE  Answers(tree, lists, loc, f.n, f.target, ResultOf(f, start))
<1> DEFINE p == PostOf(f)
<1>1. query \in DOMAIN Trees /\ f.n \in DOMAIN tree /\ Op(f) \in {"or", "phrase", "container"}
      /\ f.step \in {"first", "pass", "lost"}
  BY FrameFacts DEF TypeOK
<1>2. SUFFICES ASSUME p # Null
               PROVE  /\ Sound(tree, lists, loc, f.n, loc[p])
                      /\ Simple(tree, f.n) => NotBefore(lists, loc[p], f.target + 1)
                      /\ Op(f) = "container" => tree[f.n].contained > 0
  BY DEF Answers, ResultOf, Result, Op
<1>3. f.step # "lost" /\ RoundDone(f)
  BY <1>2 DEF PostOf, Finished
<1>4. CASE Op(f) = "or"
  <2>1. p = f.post
    BY <1>3, <1>4 DEF PostOf
  <2> HIDE DEF p
  <2> QED
    BY <1>2, <1>4, <2>1, OrResultSound
<1>5. CASE Op(f) = "phrase"
  <2>1. Len(tree[f.n].terms) <= 2
    BY <1>1, <1>5, UnaliasedFacts DEF Op
  <2> QED
    BY <1>2, <1>5, <2>1, PhraseResultSound
<1>6. CASE Op(f) = "container"
  <2>1. f.step = "pass" /\ f.found
    BY <1>3, <1>6 DEF Finished
  <2>2. p = f.post
    BY <1>2, <1>6, <2>1 DEF PostOf
  <2> HIDE DEF p
  <2> QED
    BY <1>2, <1>3, <1>6, <2>1, <2>2, ContainerResultSound
<1> QED
  BY <1>1, <1>4, <1>5, <1>6

-----------------------------------------------------------------------------
(* What is right of the Seeks on the stack *)

\* The Seeks are right, and that of the root is the first.
SoundStack(T, S, L, s) ==
  /\ \A k \in 1..Len(s) : FrameSound(T, S, L, s[k])
  /\ s # << >> => s[1].n = Root

LEMMA SoundChanged ==
  ASSUME stack \in Seq(Frames), NEW L, SoundStack(tree, lists, L, stack), NEW k, NEW g,
         Changed(stack, stack', k, g), g.n = stack[k].n, FrameSound(tree, lists, L, g)
  PROVE  SoundStack(tree, lists, L, stack')
<1>1. /\ k \in 1..Len(stack) /\ Len(stack) \in Nat /\ Len(stack') = k /\ stack'[k] = g
      /\ \A j \in 1..(k - 1) : stack'[j] = stack[j]
  BY DEF Changed
<1>2. stack # << >> /\ stack[1].n = Root
  BY <1>1 DEF SoundStack
<1>3. ASSUME NEW j \in 1..Len(stack')
      PROVE  FrameSound(tree, lists, L, stack'[j]) /\ (j = 1 => stack'[j].n = Root)
  <2>1. CASE j = k
    BY <1>1, <1>2, <2>1
  <2>2. CASE j # k
    <3>1. j \in 1..(k - 1) /\ j \in 1..Len(stack)
      BY <1>1, <1>3, <2>2
    <3> QED
      BY <1>1, <1>2, <3>1 DEF SoundStack
  <2> QED
    BY <2>1, <2>2
<1>4. 1 \in 1..Len(stack')
  BY <1>1
<1> QED
  BY <1>3, <1>4 DEF SoundStack

\* When the current word of the Seek on top moves, the Seeks stay right.
LEMMA WordMovesKeepSound ==
  ASSUME TypeOK, Calling(tree, stack), Shape(tree, stack), SoundStack(tree, lists, loc, stack),
         stack # << >>, Asks(Top), NEW n \in Words, n = Term(Top),
         NEW L, \A p \in Words : p # n => L[p] = loc[p]
  PROVE  SoundStack(tree, lists, L, stack)
<1>1. query \in DOMAIN Trees
  BY DEF TypeOK
<1>2. ASSUME NEW k \in 1..Len(stack) PROVE FrameSound(tree, lists, L, stack[k])
  <2> DEFINE f == stack[k]
  <2>1. /\ f \in Frames /\ f.i \in 1..Len(Terms(f)) /\ FrameSound(tree, lists, loc, f)
        /\ \A j \in 1..(f.i - 1) : n \notin tree[Terms(f)[j]].under
    BY WordMovesAside DEF SoundStack
  <2> HIDE DEF f
  <2>2. Len(Terms(f)) \in Nat
    BY <1>1, <2>1, FrameFacts
  <2>3. f.i <= Len(Terms(f)) + 1
    BY <2>1, <2>2
  <2>4. \A j \in 1..(f.i - 1) : \A p \in tree[Terms(f)[j]].under : p \in Words => L[p] = loc[p]
    BY <2>1
  <2>5. FrameSound(tree, lists, L, f)
    BY <1>1, <2>1, <2>3, <2>4, MovesKeepSound
  <2> QED
    BY <2>5 DEF f
<1> QED
  BY <1>2 DEF SoundStack

LEMMA SoundNextDocument ==
  ASSUME NextDocument
  PROVE  SoundStack(tree, lists, loc, stack')
<1> DEFINE f == Called(Root, NextTarget)
<1>1. FrameSound(tree, lists, loc, f) /\ f.n = Root
  BY CalledSound DEF Called
<1> HIDE DEF f
<1>2. stack' # << >> /\ Len(stack') = 1 /\ stack'[1] = f
  BY DEF NextDocument, f
<1> QED
  BY <1>1, <1>2 DEF SoundStack

LEMMA SoundSeekTerm ==
  ASSUME TypeOK, Calling(tree, stack), SeeksInv(tree, lists, loc, stack), Unaliased,
         SoundStack(tree, lists, loc, stack), SeekTerm
  PROVE  SoundStack(tree, lists, loc', stack')
<1> DEFINE n == Term(Top)
           l == TermTarget(Top)
           k == Len(stack)
<1>1. stack # << >> /\ stack \in Seq(Frames) /\ query \in DOMAIN Trees /\ lists \in Chunks
  BY DEF TypeOK, SeekTerm, Searching
<1>2. Top \in Frames /\ Asks(Top) /\ Top = stack[k] /\ k \in 1..k /\ k \in Nat
  BY <1>1, TopFacts DEF Top, SeekTerm
<1>3. n \in DOMAIN tree /\ l \in Int
  BY <1>1, <1>2, TermFacts
<1> HIDE DEF n, l, k
<1>4. ASSUME NEW L, NEW r \in Results, FramesInv(tree, lists, L, stack),
             SoundStack(tree, lists, L, stack),
             Finds(tree, lists, L, n, l, r), Answers(tree, lists, L, n, l, r), TopBecomes(Takes(Top, r))
      PROVE  SoundStack(tree, lists, L, stack')
  <2> DEFINE g == Takes(Top, r)
  <2>1. FrameInv(tree, lists, L, Top) /\ FrameSound(tree, lists, L, Top)
    BY <1>2, <1>4 DEF FramesInv, SoundStack, k
  <2>2. Taking(L, Top, r)
    BY <1>1, <1>2, <1>4, <2>1 DEF Taking, n, l
  <2>3. TakingSound(L, Top, r)
    BY <1>4, <2>1, <2>2 DEF TakingSound, n, l
  <2>4. FrameSound(tree, lists, L, g)
    BY <2>3, TakesSound
  <2>5. g \in Frames /\ g.n = Top.n
    BY <1>1, <1>2, TakesTyped, TakesReader
  <2> HIDE DEF g
  <2>6. Changed(stack, stack', k, g)
    BY <1>1, <1>4, <2>5, TopChanged DEF g, k
  <2> QED
    BY <1>1, <1>2, <1>4, <2>4, <2>5, <2>6, SoundChanged
<1>5. CASE SeekTermWord(n, l)
  <2>1. n \in Words
    BY <1>3, <1>5 DEF SeekTermWord, Words
  <2>2. CASE loc' = loc /\ TopBecomes(Takes(Top, Result(Null, 0, 0)))
    <3>1. /\ Result(Null, 0, 0) \in Results /\ Finds(tree, lists, loc, n, l, Result(Null, 0, 0))
          /\ Answers(tree, lists, loc, n, l, Result(Null, 0, 0))
      BY HighestFacts DEF Results, Result, Locations, Finds, Answers
    <3> QED
      BY <1>4, <2>2, <3>1 DEF SeeksInv
  <2>3. ASSUME NEW at, at = SeekWord(lists[tree[n].key], l), tree[n].key \in DOMAIN lists,
               loc' = [loc EXCEPT ![n] = at],
               TopBecomes(Takes(Top, Result(IF at < l THEN Null ELSE n, at, at)))
        PROVE  SoundStack(tree, lists, loc', stack')
    <3> DEFINE r == Result(IF at < l THEN Null ELSE n, at, at)
               L == [loc EXCEPT ![n] = at]
    <3>1. at \in Locations /\ at \in 0..Highest
      BY <1>1, <2>3, WordPostFacts, HighestFacts DEF Locations
    <3>2. r \in Results
      BY <2>1, <3>1 DEF Results, Result
    <3>3. loc' = L /\ TopBecomes(Takes(Top, r))
      BY <2>3
    <3>4. L = [loc EXCEPT ![n] = at] /\ r = Result(IF at < l THEN Null ELSE n, at, at)
      OBVIOUS
    <3>5. L \in [Words -> Locations]
      BY <2>1, <3>1 DEF TypeOK
    <3> HIDE DEF L, r
    <3>6. /\ Stands(tree, lists, L, n) /\ Finds(tree, lists, L, n, l, r)
          /\ (\A p \in Words : p # n => L[p] = loc[p]) /\ L[n] = at
      <4>1. l \in Int /\ tree[n].key \in DOMAIN lists /\ at = SeekWord(lists[tree[n].key], l)
        BY <1>3, <2>3
      <4>2. Finds(tree, lists, L, n, l, Result(IF at < l THEN Null ELSE n, at, at))
            /\ Stands(tree, lists, L, n) /\ (\A p \in Words : p # n => L[p] = loc[p]) /\ L[n] = at
        BY <2>1, <3>1, <3>4, <3>5, <4>1, WordFinds
      <4> QED
        BY <3>4, <4>2
    <3>7. FramesInv(tree, lists, L, stack)
      BY <1>1, <1>2, <2>1, <3>6, WordMovesKeep DEF SeeksInv, n
    <3>8. SoundStack(tree, lists, L, stack)
      BY <1>1, <1>2, <2>1, <3>6, WordMovesKeepSound DEF SeeksInv, n
    <3>9. Answers(tree, lists, L, n, l, r)
      <4>1. at \in Int
        BY <3>1, HighestFacts
      <4>2. r.post # Null => r.at = L[n] /\ r.at >= l
        BY <1>3, <3>4, <3>6, <4>1 DEF Result
      <4> QED
        BY <1>1, <1>3, <2>1, <3>6, <4>2, WordAnswers
    <3>10. SoundStack(tree, lists, L, stack')
      BY <1>4, <3>2, <3>3, <3>6, <3>7, <3>8, <3>9
    <3> QED
      BY <3>3, <3>10
  <2>4. CASE UNCHANGED <<loc, stack>>
    BY <2>4
  <2> QED
    BY <1>5, <2>2, <2>3, <2>4 DEF SeekTermWord
<1>6. CASE SeekTermBelow(n, l)
  <2> DEFINE f == Called(n, l)
  <2>1. FrameSound(tree, lists, loc, f)
    BY CalledSound
  <2>2. stack' = Append(stack, f) /\ loc' = loc
    BY <1>6 DEF SeekTermBelow
  <2> HIDE DEF f
  <2>3. /\ Len(stack') = k + 1 /\ stack'[k + 1] = f
        /\ \A j \in 1..k : stack'[j] = stack[j]
    BY <1>1, <2>2 DEF k
  <2>4. ASSUME NEW j \in 1..Len(stack') PROVE FrameSound(tree, lists, loc, stack'[j])
    <3>1. j \in 1..k \/ j = k + 1
      BY <1>2, <2>3, <2>4
    <3> QED
      BY <2>1, <2>3, <3>1 DEF SoundStack, k
  <2>5. stack'[1].n = Root
    BY <1>1, <1>2, <2>3 DEF SoundStack
  <2> QED
    BY <2>2, <2>4, <2>5 DEF SoundStack
<1>7. SeekTermWord(n, l) \/ SeekTermBelow(n, l)
  BY DEF SeekTerm, n, l
<1> QED
  BY <1>5, <1>6, <1>7

LEMMA SoundPasses ==
  ASSUME TypeOK, SoundStack(tree, lists, loc, stack), NextPhrasePass \/ NextContainerPass
  PROVE  SoundStack(tree, lists, loc, stack')
<1> DEFINE k == Len(stack)
<1>1. stack # << >> /\ stack \in Seq(Frames) /\ query \in DOMAIN Trees
  BY DEF TypeOK, NextPhrasePass, NextContainerPass, Searching
<1>2. Top \in Frames /\ Top = stack[k] /\ k \in 1..k
  BY <1>1, TopFacts DEF Top
<1>3. ASSUME NEW g \in Frames, TopBecomes(g), g.n = Top.n, FrameSound(tree, lists, loc, g)
      PROVE  SoundStack(tree, lists, loc, stack')
  <2>1. Changed(stack, stack', k, g)
    BY <1>1, <1>3, TopChanged
  <2> QED
    BY <1>1, <1>2, <1>3, <2>1, SoundChanged
<1>4. CASE NextPhrasePass
  <2>1. Op(Top) = "phrase" /\ TopBecomes(PhrasePass(Top))
    BY <1>4 DEF NextPhrasePass
  <2> QED
    BY <1>2, <1>3, <2>1, PhrasePassSound, PassTyped, PassReader
<1>5. CASE NextContainerPass
  <2>1. Op(Top) = "container"
    BY <1>5 DEF NextContainerPass
  <2>2. ASSUME NEW d, d = SeekEnd(Top.end),
               TopBecomes(IF d.offEnd THEN Lost(Top) ELSE ContainerPass(Top, d))
        PROVE  SoundStack(tree, lists, loc, stack')
    <3>1. CASE d.offEnd
      BY <1>2, <1>3, <2>1, <2>2, <3>1, LostSound, PassTyped, PassReader
    <3>2. CASE ~d.offEnd
      <4>1. FrameSound(tree, lists, loc, ContainerPass(Top, d))
        BY <1>2, <2>1, <2>2, <3>2, ContainerPassSound
      <4>2. Top.end \in Int
        BY <1>1, <1>2, FrameFacts
      <4>3. d.prevLoc \in Locations /\ d.endLocation \in Locations
        BY <1>1, <2>2, <4>2, SeekEndFacts DEF TypeOK
      <4>4. ContainerPass(Top, d) \in Frames
        BY <1>2, <4>3, PassTyped
      <4> QED
        BY <1>2, <1>3, <2>2, <3>2, <4>1, <4>4, PassReader
    <3> QED
      BY <3>1, <3>2
  <2> QED
    BY <1>5, <2>2 DEF NextContainerPass
<1> QED
  BY <1>4, <1>5

LEMMA SoundReturn ==
  ASSUME TypeOK, Calling(tree, stack), SeeksInv(tree, lists, loc, stack), Unaliased,
         SoundStack(tree, lists, loc, stack), Return
  PROVE  SoundStack(tree, lists, loc, stack')
<1> DEFINE k == Len(stack) - 1
           f == stack[k]
<1>1. /\ stack \in Seq(Frames) /\ query \in DOMAIN Trees /\ lists \in Chunks /\ Len(stack) \in Nat
  BY DEF TypeOK
<1>2. /\ k \in Nat \ {0} /\ Top = stack[k + 1] /\ Top \in Frames /\ Finished(Top) /\ f \in Frames
      /\ Term(f) = Top.n /\ TermTarget(f) \in Int /\ TermTarget(f) <= Top.target
      /\ \E start \in 0..Highest : \E g \in Frames :
           /\ Taking(loc, f, ResultOf(Top, start)) /\ g = Takes(f, ResultOf(Top, start))
           /\ stack' \in Seq(Frames) /\ Changed(stack, stack', k, g)
  BY ReturnTakes
<1>3. PICK start \in 0..Highest : \E g \in Frames :
        /\ Taking(loc, f, ResultOf(Top, start)) /\ g = Takes(f, ResultOf(Top, start))
        /\ stack' \in Seq(Frames) /\ Changed(stack, stack', k, g)
  BY <1>2
<1> DEFINE r == ResultOf(Top, start)
<1>4. PICK g \in Frames : Taking(loc, f, r) /\ g = Takes(f, r) /\ Changed(stack, stack', k, g)
  BY <1>3
<1>5. k \in 1..Len(stack) /\ k + 1 \in 1..Len(stack)
  <2>1. k \in Nat \ {0}
    BY <1>2
  <2>2. Len(stack) \in Nat /\ k = Len(stack) - 1
    BY <1>1
  <2> HIDE DEF k
  <2> QED
    BY <2>1, <2>2
<1>6. /\ FrameInv(tree, lists, loc, Top) /\ FrameSound(tree, lists, loc, Top)
      /\ FrameSound(tree, lists, loc, f)
  BY <1>2, <1>5 DEF SeeksInv, FramesInv, SoundStack
<1>7. Answers(tree, lists, loc, Top.n, Top.target, r)
  BY <1>2, <1>6, ResultSound
<1> HIDE DEF k, f, r
<1>8. Answers(tree, lists, loc, Term(f), TermTarget(f), r)
  <2>1. SUFFICES ASSUME r.post # Null, NotBefore(lists, r.at, Top.target + 1)
                 PROVE  NotBefore(lists, r.at, TermTarget(f) + 1)
    BY <1>2, <1>7 DEF Answers
  <2>2. r.at \in Nat
    BY <1>4, TakingFacts
  <2>3. Top.target \in Nat
    BY <1>1, <1>2, FrameFacts
  <2>4. TermTarget(f) + 1 <= Top.target + 1 /\ TermTarget(f) + 1 \in Int /\ Top.target + 1 \in Int
    BY <1>2, <2>3, SMTT(30)
  <2> QED
    BY <1>1, <2>1, <2>2, <2>4, NotBeforeFacts
<1>9. FrameSound(tree, lists, loc, g)
  BY <1>4, <1>6, <1>8, TakesSound DEF TakingSound
<1>10. g.n = f.n
  BY <1>1, <1>2, <1>4, TakesReader DEF Taking
<1> QED
  BY <1>1, <1>4, <1>9, <1>10, SoundChanged DEF f

-----------------------------------------------------------------------------
(* The documents ranked satisfy the query *)

MatchInv ==
  Unaliased =>
    /\ SoundStack(tree, lists, loc, stack)
    /\ \A d \in Answered : Holds(tree, lists, d)[Root]

\* The root returns a post; the document of it is right.
LEMMA SoundReturnToRanker ==
  ASSUME TypesInv, AnswersInv, Unaliased, SoundStack(tree, lists, loc, stack), ReturnToRanker
  PROVE  \A d \in Answered' \ Answered : Holds(tree, lists, d)[Root]
<1>1. TypeOK /\ stack # << >> /\ stack \in Seq(Frames) /\ query \in DOMAIN Trees /\ lists \in Chunks
      /\ Finished(Top) /\ Len(stack) = 1
  BY DEF TypesInv, TypeOK, ReturnToRanker, Searching
<1>2. Top \in Frames /\ Top = stack[1] /\ 1 \in 1..Len(stack)
  BY <1>1, TopFacts DEF Top
<1>3. Top.n = Root /\ FrameInv(tree, lists, loc, Top) /\ FrameSound(tree, lists, loc, Top)
  BY <1>1, <1>2 DEF AnswersInv, SeeksInv, FramesInv, SoundStack
<1> DEFINE p == PostOf(Top)
           r == ResultOf(Top, 0)
<1>4. 0 \in 0..Highest
  BY HighestFacts
<1>5. /\ Finds(tree, lists, loc, Root, Top.target, r) /\ Answers(tree, lists, loc, Root, Top.target, r)
  <2>1. Finds(tree, lists, loc, Top.n, Top.target, r)
    BY <1>1, <1>2, <1>3, <1>4, ResultFinds
  <2>2. Answers(tree, lists, loc, Top.n, Top.target, r)
    BY <1>1, <1>2, <1>3, <1>4, ResultSound
  <2> QED
    BY <1>3, <2>1, <2>2
<1>6. r.post = p /\ (p # Null => r.at = loc[p])
  BY DEF ResultOf, Result
<1> HIDE DEF p, r
<1>7. CASE UNCHANGED answers
  BY <1>7 DEF Answered
<1>8. ASSUME p # Null, docEnd' = SeekEnd(loc[p]), RankDocument(docEnd'.tData + 1, loc[p])
      PROVE  \A d \in Answered' \ Answered : Holds(tree, lists, d)[Root]
  <2> DEFINE d == docEnd'.tData + 1
             at == loc[p]
  <2>1. Stands(tree, lists, loc, p) /\ NotBefore(lists, at, Top.target) /\ Sound(tree, lists, loc, Root, at)
    BY <1>5, <1>6, <1>8 DEF Finds, Answers
  <2>2. Top.target \in Nat
    BY <1>1, <1>2, FrameFacts
  <2>3. d \in Documents /\ InDocument(at, d)
    BY <1>1, <1>8, <2>1, <2>2, DocumentFound
  <2>4. PICK rank \in Ranks : answers' = Append(answers, [doc |-> d, loc |-> at, rank |-> rank])
    BY <1>8 DEF RankDocument
  <2> HIDE DEF d, at
  <2>5. Holds(tree, lists, d)[Root]
    BY <2>1, <2>3 DEF Sound, InDocument, Documents
  <2>6. ASSUME NEW i \in DOMAIN answers' PROVE answers'[i].doc = d \/ answers'[i].doc \in Answered
    <3>1. answers \in Seq([doc : Documents, loc : Locations, rank : Ranks])
      BY <1>1 DEF TypeOK
    <3>2. /\ Len(answers) \in Nat /\ DOMAIN answers = 1..Len(answers) /\ DOMAIN answers' = 1..(Len(answers) + 1)
          /\ \A j \in DOMAIN answers : answers'[j] = answers[j]
          /\ answers'[Len(answers) + 1] = [doc |-> d, loc |-> at, rank |-> rank]
      BY <2>4, <3>1
    <3>3. i \in DOMAIN answers \/ i = Len(answers) + 1
      BY <3>2
    <3> QED
      BY <3>2, <3>3 DEF Answered
  <2> QED
    BY <2>5, <2>6 DEF Answered
<1>9. UNCHANGED answers \/ (p # Null /\ docEnd' = SeekEnd(loc[p]) /\ RankDocument(docEnd'.tData + 1, loc[p]))
  BY DEF ReturnToRanker, FindDocument, NoDocument, DocumentOf, EndSearch, p
<1> QED
  BY <1>7, <1>8, <1>9

LEMMA MatchInvInit == Init => MatchInv
<1> SUFFICES ASSUME Init PROVE MatchInv
  OBVIOUS
<1>1. stack = << >> /\ answers = << >>
  BY DEF Init, RankerInit
<1>2. SoundStack(tree, lists, loc, stack) /\ Answered = {}
  BY <1>1 DEF SoundStack, Answered
<1> QED
  BY <1>2 DEF MatchInv

LEMMA MatchInvStep == TypesInv /\ AnswersInv /\ MatchInv /\ [Next]_vars => MatchInv'
<1> SUFFICES ASSUME TypesInv, AnswersInv, MatchInv, [Next]_vars, Unaliased' PROVE MatchInv'
  BY DEF MatchInv
<1>1. TypeOK /\ Calling(tree, stack) /\ SeeksInv(tree, lists, loc, stack)
  BY DEF TypesInv, AnswersInv
<1>2. UNCHANGED <<lists, query>> /\ tree' = tree
  BY DEF Next, NextDocument, SeekTerm, NextPhrasePass, NextContainerPass, GoRoundForEver, Return,
         ReturnToRanker, OutOfTime, vars, chunkVars, tree
<1>3. Unaliased
  BY <1>2 DEF Unaliased, Containers, Phrases, IsThere, Words
<1>4. SoundStack(tree, lists, loc, stack) /\ \A d \in Answered : Holds(tree, lists, d)[Root]
  BY <1>3 DEF MatchInv
<1>5. SUFFICES /\ SoundStack(tree, lists, loc', stack')
               /\ \A d \in Answered' \ Answered : Holds(tree, lists, d)[Root]
  BY <1>2, <1>4 DEF MatchInv
<1>6. UNCHANGED answers => Answered' = Answered
  BY DEF Answered
<1>7. CASE NextDocument
  BY <1>6, <1>7, SoundNextDocument DEF NextDocument, rankerVars
<1>8. CASE SeekTerm
  <2>1. UNCHANGED answers
    BY <1>8 DEF SeekTerm, SeekTermWord, SeekTermBelow, EndSearch, rankerVars
  <2> QED
    BY <1>1, <1>3, <1>4, <1>6, <1>8, <2>1, SoundSeekTerm
<1>9. CASE NextPhrasePass \/ NextContainerPass
  <2>1. UNCHANGED <<answers, loc>>
    BY <1>9 DEF NextPhrasePass, NextContainerPass, EndSearch, rankerVars
  <2> QED
    BY <1>1, <1>4, <1>6, <1>9, <2>1, SoundPasses
<1>10. CASE Return
  <2>1. UNCHANGED <<answers, loc>>
    BY <1>10 DEF Return, rankerVars
  <2> QED
    BY <1>1, <1>3, <1>4, <1>6, <1>10, <2>1, SoundReturn
<1>11. CASE ReturnToRanker
  <2>1. SoundStack(tree, lists, loc', stack')
    BY <1>11 DEF ReturnToRanker, SoundStack
  <2> QED
    BY <1>3, <1>4, <1>11, <2>1, SoundReturnToRanker
<1>12. CASE GoRoundForEver \/ OutOfTime \/ UNCHANGED vars
  <2>1. UNCHANGED <<stack, loc, answers>>
    BY <1>12 DEF GoRoundForEver, OutOfTime, TimeIsUp, EndSearch, vars, rankerVars
  <2> QED
    BY <1>4, <1>6, <2>1
<1> QED
  BY <1>7, <1>8, <1>9, <1>10, <1>11, <1>12 DEF Next

\* Where the shape of the tree keeps every reader that a container was told of
\* in its document until the search returns (Unaliased), every document ranked
\* satisfies the query: it holds one of the terms of an OR, the words of a
\* phrase side by side and all the terms of a container.
THEOREM AnswersSatisfy == Spec => []AnswersMatchUnaliased
<1>1. Spec => []MatchInv
  BY MatchInvInit, MatchInvStep, TypesAlways, AnswersAlways, PTL DEF Spec
<1>2. MatchInv => AnswersMatchUnaliased
  BY DEF MatchInv, AnswersMatchUnaliased
<1> QED
  BY <1>1, <1>2, PTL
=============================================================================
