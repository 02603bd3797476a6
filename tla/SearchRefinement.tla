-------------------------- MODULE SearchRefinement --------------------------
(***************************************************************************)
(* The first search of an Index, as its caller sees it: the mapping under  *)
(* which the threads of ChunkSearch implement SearchAnswer.                *)
(***************************************************************************)
EXTENDS ChunkSearch

CONSTANT theIndex       \* the Index whose search is looked at

ASSUME IndexAssumption == theIndex \in Indexes

\* searchIndexChunks was not called, has not returned, or has.
Phase == IF mpc[theIndex] # "idle" THEN "searching"
         ELSE IF searches[theIndex] = 0 THEN "idle" ELSE "answered"

Abstract == INSTANCE SearchAnswer
  WITH phase <- Phase, query <- query[theIndex], Blank <- Blank,
       unranked <- Chunks \ ranked[theIndex], candidates <- found[theIndex],
       answer <- IF Phase = "answered" THEN topTen[theIndex] ELSE [j \in 1..K |-> Blank]

\* The first search of an Index implements SearchAnswer: whatever its threads
\* do, searchIndexChunks looks to its caller like a search that ranks each
\* chunk once and then answers with the best of what was found.
ImplementsSearchAnswer == Abstract!Spec
=============================================================================
