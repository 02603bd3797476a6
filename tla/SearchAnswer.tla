---------------------------- MODULE SearchAnswer ----------------------------
(***************************************************************************)
(* What a search of an Index promises its caller (handle_query in          *)
(* src/src/Node.cpp, the drivers in src/tests): every chunk is ranked      *)
(* exactly once, in any order, and the answer is K places in order of      *)
(* rank, that hold the best of what the chunks gave.  No thread, queue or  *)
(* lock appears here.                                                      *)
(***************************************************************************)
EXTENDS Integers, Sequences

CONSTANTS Chunks, Queries, None, Found, K, Entry, Blank

VARIABLES phase, query, unranked, candidates, answer
vars == <<phase, query, unranked, candidates, answer>>

NoAnswer == [j \in 1..K |-> Blank]

\* t is a best answer to candidates c: sorted, of candidates that rank above
\* a blank and are shown once, and no candidate left out ranks above its last.
IsBest(t, c) ==
  /\ t \in [1..K -> Entry]
  /\ \A j \in 1..(K - 1) : t[j + 1].rank <= t[j].rank
  /\ \A j \in 1..K : t[j] = Blank \/ (t[j] \in c /\ t[j].rank > Blank.rank)
  /\ \A j, k \in 1..K : t[j] = t[k] => j = k \/ t[j] = Blank
  /\ \A e \in c : (\E j \in 1..K : t[j] = e) \/ e.rank <= t[K].rank

Init == /\ phase = "idle"
        /\ query = None
        /\ unranked = Chunks
        /\ candidates = {}
        /\ answer = NoAnswer

Ask(q) == /\ phase = "idle"
          /\ phase' = "searching"
          /\ query' = q
          /\ UNCHANGED <<unranked, candidates, answer>>

RankChunk(c) ==
  /\ phase = "searching"
  /\ c \in unranked
  /\ unranked' = unranked \ {c}
  /\ \E l \in Found[query][c] : candidates' = candidates \cup {l[j] : j \in DOMAIN l}
  /\ UNCHANGED <<phase, query, answer>>

Answer == /\ phase = "searching"
          /\ unranked = {}
          /\ phase' = "answered"
          /\ IsBest(answer', candidates)
          /\ UNCHANGED <<query, unranked, candidates>>

Next == (\E q \in Queries : Ask(q)) \/ (\E c \in Chunks : RankChunk(c)) \/ Answer

Spec == Init /\ [][Next]_vars
=============================================================================
