------------------------------- MODULE Ranker -------------------------------
(***************************************************************************)
(* What Ranker::getTopTen (src/src/Ranker.cpp) does with the documents of  *)
(* a chunk that the constraint solver finds one after the other: it ranks  *)
(* each of them and keeps MaxResults of them.  Which documents are found,  *)
(* and whether the next one is found at all, is StreamReaders'.  The       *)
(* score of a document may be the logarithm of a negative number.          *)
(***************************************************************************)
EXTENDS Integers, Sequences, SequencesExt, FiniteSets

CONSTANTS
  Ranks,            \* the ranks a document may get
  NaN,              \* the double that no other compares with
  MaxResults        \* how many documents chunkResults holds: 10

ASSUME RankerAssumption ==
  /\ Ranks \subseteq Int \cup {NaN} /\ NaN \notin Int
  /\ MaxResults \in Nat \ {0}

VARIABLES
  answers,    \* the documents getTopTen has ranked: index, matching location, rank
  results,    \* chunkResults, as positions in answers
  status      \* "search", "done", "timeout", or the fault that ended the search

rankerVars == <<answers, results, status>>

-----------------------------------------------------------------------------
\* x < y for doubles.
Below(x, y) == x # NaN /\ y # NaN /\ x < y

\* No rank among ranks is below the one at i, and the places before i do not
\* have one that is as low: a NaN, in the first of all, is below none.
IsFirstLowest(ranks, i) ==
  /\ \A j \in DOMAIN ranks : ~Below(ranks[j], ranks[i])
  /\ \A j \in 1..(i - 1) : Below(ranks[i], ranks[j]) \/ (j > 1 /\ ranks[j] = NaN)

\* Variant: the document with the highest rank is looked for.
WorstIsHighest(ranked, kept) ==
  CHOOSE i \in DOMAIN kept : \A j \in DOMAIN kept :
    ~Below(ranked[kept[i]].rank, ranked[kept[j]].rank)

\* The place of the worst result.
Worst(ranked, kept) ==
  CHOOSE i \in DOMAIN kept : IsFirstLowest([j \in DOMAIN kept |-> ranked[kept[j]].rank], i)

\* A document becomes a result, at first beside the others, then in place of
\* the worst of them, whatever its own rank.
Keep(ranked, kept, new) ==
  IF Len(kept) < MaxResults THEN Append(kept, new)
  ELSE [kept EXCEPT ![Worst(ranked, kept)] = new]

\* A document was found by a post at loc; it is ranked.
RankDocument(doc, loc) ==
  /\ \E rank \in Ranks : answers' = Append(answers, [doc |-> doc, loc |-> loc, rank |-> rank])
  /\ results' = Keep(answers, results, Len(answers'))
  /\ UNCHANGED status

\* getTopTen returns what it has, or never returns.
EndSearch(how) ==
  /\ status' = how
  /\ UNCHANGED <<answers, results>>

\* 20 seconds have passed when a document has been ranked.
TimeIsUp == answers # << >> /\ EndSearch("timeout")

RankerInit == answers = << >> /\ results = << >> /\ status = "search"

RankerNext ==
  /\ status = "search"
  /\ \/ \E doc, loc \in Nat : RankDocument(doc, loc)
     \/ \E how \in {"done", "crash", "hang"} : EndSearch(how)
     \/ TimeIsUp

RankerSpec == RankerInit /\ [][RankerNext]_rankerVars

-----------------------------------------------------------------------------
\* The results are the last document ranked and others that no document
\* given up ranks above: not always the best of them all.
ResultsBestAndLast ==
  answers # << >> =>
    /\ Len(answers) \in ToSet(results)
    /\ IsInjective(results)
    /\ Len(results) = IF Len(answers) < MaxResults THEN Len(answers) ELSE MaxResults
    /\ \A dropped \in DOMAIN answers \ ToSet(results) : \A kept \in ToSet(results) \ {Len(answers)} :
         ~Below(answers[kept].rank, answers[dropped].rank)
=============================================================================
