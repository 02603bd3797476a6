---------------------------- MODULE MCIndexBuild ----------------------------
(***************************************************************************)
(* Instances of IndexBuild for TLC: two files of up to two documents each.  *)
(***************************************************************************)
EXTENDS IndexBuild

CONSTANTS x, y, t, u1, u2, u3

InBody(w)  == [word |-> w, title |-> FALSE]
InTitle(w) == [word |-> w, title |-> TRUE]

\* A word twice and another between, an empty page that others link to, and a
\* title word that is also in a body.
Long  == [url |-> u1, words |-> <<InBody(x), InBody(y), InBody(x)>>, anchors |-> << >>]
Empty == [url |-> u2, words |-> << >>, anchors |-> <<[text |-> t, freq |-> 2]>>]
Short == [url |-> u3, words |-> <<InTitle(y), InBody(x)>>,
          anchors |-> <<[text |-> t, freq |-> 1]>>]

SmallFiles == UNION {[1..n -> {Long, Empty, Short}] : n \in 0..2}
SmallCorpora == {<<f, g>> : f, g \in SmallFiles}
=============================================================================
