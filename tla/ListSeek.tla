------------------------------ MODULE ListSeek ------------------------------
(***************************************************************************)
(* Where a Seek in a posting list ends, as a function of the list and the  *)
(* target (src/include/Index.h): the levels of the sync table, the post a  *)
(* Seek starts from, and the post its scan stops on.  PostingList builds   *)
(* the table and scans step by step; StreamReaders, for which a Seek is    *)
(* one step, takes its result from here.                                   *)
(***************************************************************************)
EXTENDS Integers, Sequences

CONSTANTS
  Floor,            \* the first location of each level: 0, 2^9, 2^10, ...
  SYNCTABLESIZE

Levels == DOMAIN Floor

ASSUME LevelsAssumption ==
  /\ SYNCTABLESIZE \in Nat \ {0}
  /\ Levels = 0..(SYNCTABLESIZE - 1)
  /\ Floor \in [Levels -> Nat]
  /\ Floor[0] = 0
  /\ \A g, h \in Levels : g < h => Floor[g] < Floor[h]

\* 31 - __builtin_clz(l >> 8); the build's clz of 0 gives level 0.
HighBit(l) == CHOOSE h \in Levels :
                Floor[h] <= l /\ \A g \in Levels : g > h => l < Floor[g]

\* The post Seek starts from: the first one of the level of l or, where no
\* post has a level that high, of the highest level there is.
SyncPost(list, l) ==
  LET level == IF HighBit(l) <= HighBit(list[Len(list)]) THEN HighBit(l)
               ELSE HighBit(list[Len(list)])
  IN  IF level = 0 THEN 1
      ELSE CHOOSE j \in DOMAIN list :
             /\ HighBit(list[j]) >= level
             /\ \A k \in 1..(j - 1) : HighBit(list[k]) < level

Earliest(places) == CHOOSE j \in places : \A k \in places : j <= k

\* The post WordListIterator::Seek stops on: the first one at or after l behind
\* the one it starts from, or the last.
WordPost(list, l) ==
  LET later == {k \in DOMAIN list : k > SyncPost(list, l) /\ list[k] >= l}
  IN  IF later = {} THEN Len(list) ELSE Earliest(later)

\* The post EndDocListIterator::Seek stops on: the first one at or after l, or
\* none (0).
EndPost(list, l) ==
  LET later == {k \in DOMAIN list : list[k] >= l}
  IN  IF later = {} THEN 0 ELSE Earliest(later)
=============================================================================
