-------------------------- MODULE ConstraintSolver --------------------------
(***************************************************************************)
(* The tree of readers a parsed query is compiled to (src/src/Tuple.cpp,   *)
(* src/src/TupleList.cpp), and what a search of StreamReaders with such a  *)
(* tree has to do with the query.                                          *)
(*                                                                         *)
(* The operators are recursive, as the parse tree is: no theorem is stated *)
(* about this module.                                                      *)
(***************************************************************************)
EXTENDS StreamReaders

RECURSIVE Compile(_, _)

IsUnary(tuple) == tuple.op = "not"
IsIncluded(tuple) == tuple.op # "not"

Reader(op, key, terms, contained, under) ==
  [op |-> op, key |-> key, terms |-> terms, contained |-> contained, under |-> under]

\* The reader at a path, and those its tuples are compiled to, one step on.
CompileAll(op, tuples, contained, at) ==
  LET below == [i \in DOMAIN tuples |-> Compile(tuples[i], Append(at, i))]
      under == {at} \cup UNION {DOMAIN below[i] : i \in DOMAIN below}
      terms == [i \in DOMAIN tuples |-> Append(at, i)]
  IN  FoldLeft(@@, at :> Reader(op, << >>, terms, contained, under), below)

\* The tuples under NOT become excluded terms.
CompileAnd(tuples, at) ==
  LET included == SelectSeq(tuples, IsIncluded)
  IN  CompileAll("container", included \o SelectSeq(tuples, IsUnary), Len(included), at)

Compile(tuple, at) ==
  CASE tuple.op = "word"   -> at :> Reader("word", tuple.key, << >>, 0, {at})
    [] tuple.op \in {"or", "phrase"} -> CompileAll(tuple.op, tuple.terms, Len(tuple.terms), at)
    [] tuple.op = "and"    -> CompileAnd(tuple.terms, at)
    [] tuple.op = "nested" -> CompileAll("container", <<tuple.term>>, 1, at)
    [] tuple.op = "not"    -> CompileAll("container", <<tuple.term>>, 0, at)

\* The tree of every query.
Compiled(queries) == [tuple \in queries |-> Compile(tuple, Root)]

-----------------------------------------------------------------------------
(* What the search promises *)

\* Document d of the chunk satisfies the query, by the words it holds.
RECURSIVE Matches(_, _, _)
Matches(tuple, chunk, d) ==
  CASE tuple.op = "word"   -> \E l \in Locations : PostWithin(chunk, tuple.key, l, d)
    [] tuple.op = "phrase" ->
         /\ tuple.terms # << >>
         /\ \E l \in Locations : \A i \in DOMAIN tuple.terms :
              PostWithin(chunk, tuple.terms[i].key, l + i - 1, d)
    [] tuple.op = "or"     -> \E i \in DOMAIN tuple.terms : Matches(tuple.terms[i], chunk, d)
    [] tuple.op = "and"    -> \A i \in DOMAIN tuple.terms : Matches(tuple.terms[i], chunk, d)
    [] tuple.op = "nested" -> Matches(tuple.term, chunk, d)
    [] tuple.op = "not"    -> ~Matches(tuple.term, chunk, d)

\* A document that the tree holds for satisfies the query, and the other way
\* round where the query excludes nothing.
ASSUME TreesMeanQueries ==
  \A tuple \in DOMAIN Trees : \A chunk \in Chunks : \A d \in DOMAIN chunk[End] :
    LET readers == Trees[tuple]
        plain == \A n \in DOMAIN readers : readers[n].contained = Len(readers[n].terms)
        holds == Holds(readers, chunk, d)[Root]
    IN  /\ holds => Matches(tuple, chunk, d)
        /\ plain /\ Matches(tuple, chunk, d) => holds

\* Refuted: "Provides the ability to seek to the first location after a target
\* that matches a structured ISR tree" (Readme.md): a document ranked satisfies
\* the query.
AnswersMatch == \A d \in Answered : Matches(query, lists, d)

\* Refuted: the search of a chunk comes to its end ("5. If any ISR reaches the end,
\* there is no match", ISR.cpp).
SearchEnds == status # "hang"
=============================================================================
