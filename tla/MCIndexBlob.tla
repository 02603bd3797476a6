----------------------------- MODULE MCIndexBlob -----------------------------
(***************************************************************************)
(* Instances of IndexBlob for TLC: hash functions that make keys collide   *)
(* in a small table and not in a large one.                                *)
(***************************************************************************)
EXTENDS IndexBlob, TLC

CONSTANTS HashValues

AllKeys == {Body(w) : w \in Words} \cup {AnchorKey(t) : t \in AnchorTexts} \cup {End}
AllHashes == [AllKeys -> HashValues]
AllLocations == 0..MaxLocation

\* The bytes of location 1 spell the anchor key of "a".
SomeLetters == 1 :> AnchorKey("a")
=============================================================================
