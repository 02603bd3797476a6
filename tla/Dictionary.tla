----------------------------- MODULE Dictionary -----------------------------
(***************************************************************************)
(* What the hash table promises IndexHT: a dictionary in which every key   *)
(* that was added has its list of posts, and a list only ever grows.  How  *)
(* the keys are spread over chains, and that the table is rebuilt, cannot  *)
(* be seen.                                                                *)
(***************************************************************************)
EXTENDS Sequences

CONSTANTS Keys, Locations

VARIABLE content      \* the posts of every key there is

Init == content = << >>

Posts(k) == IF k \in DOMAIN content THEN content[k] ELSE << >>

Add(k, loc) ==
  content' = [key \in DOMAIN content \cup {k} |->
                IF key = k THEN Append(Posts(k), loc) ELSE content[key]]

Next == \E k \in Keys, loc \in Locations : Add(k, loc)

Spec == Init /\ [][Next]_content
=============================================================================
