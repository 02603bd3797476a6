--------------------------- MODULE MCChunkSearch ---------------------------
(***************************************************************************)
(* Instances of ChunkSearch and SearchRefinement for TLC                   *)
(***************************************************************************)
EXTENDS SearchRefinement

CONSTANTS i1, i2, w1, w2, w3, c1, c2, c3, q1, q2, a, b, d, e

OneIndex == [w \in Workers |-> i1]
TwoIndexes == [w \in Workers |-> IF w \in {w1, w2} THEN i1 ELSE i2]

E1(u, r) == [url |-> u, rank |-> r]

\* q1: two results, a tie with another chunk, an empty list, and a truncated
\* list (getTopTen gives up after 20 s).  q2: other pages, and a chunk whose
\* IndexBlob fails verifyIndexBlob, or a query without a parse tree.
FoundTies == [q \in Queries |-> [c \in Chunks |->
  CASE q # q1 -> {<<E1(IF c = c1 THEN b ELSE IF c = c2 THEN d ELSE e, 2)>>}
    [] q = q1 /\ c = c1 -> {<<E1(a, 2), E1(b, 1)>>, <<E1(a, 2)>>}
    [] q = q1 /\ c = c2 -> {<<E1(d, 2)>>, << >>}
    [] OTHER  -> {<<E1(e, 3)>>}]]

\* One entry for each chunk and query.
FoundSmall == [q \in Queries |-> [c \in Chunks |->
  {<<E1(IF c = c1 THEN a ELSE b, IF q = q1 THEN 1 ELSE 2)>>}]]

KillsNothing == [q \in Queries |-> {}]
KillsWithQ2  == [q \in Queries |-> IF q = q2 THEN {c2} ELSE {}]

AllUrls == {a, b, d, e, NoUrl}
ThreeFiles == <<c1, c2, c3>>
TwoFiles == <<c1, c2>>
=============================================================================
