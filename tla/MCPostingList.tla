--------------------------- MODULE MCPostingList ---------------------------
(***************************************************************************)
(* Instances of PostingList for TLC: the levels start at 0, 2, 4, 8, ... in  *)
(* place of 0, 2^9, 2^10, ...                                                *)
(***************************************************************************)
EXTENDS PostingList

CONSTANT MaxLocation

SmallLocations == 0..MaxLocation
PowersOfTwo == [h \in 0..(SYNCTABLESIZE - 1) |-> IF h = 0 THEN 0 ELSE 2^h]
=============================================================================
