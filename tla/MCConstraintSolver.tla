------------------------- MODULE MCConstraintSolver -------------------------
(***************************************************************************)
(* Instances of ConstraintSolver for TLC: two words, each in the body or in *)
(* the title ("$"), and the queries the parser builds from them.  The       *)
(* levels of the sync table start at 0 and 4 in place of 0, 2^9, 2^10, ...  *)
(***************************************************************************)
EXTENDS ConstraintSolver, QueryParser

CONSTANTS MaxBody, MaxDocuments

Key(word) == <<"", <<word>>>>
TitleKey(word) == <<"$", <<word>>>>

TwoLevels == [h \in 0..1 |-> 4 * h]

SeqsUpTo(S, n) == UNION {[1..k -> S] : k \in 0..n}

(* The chunk of some documents: every document's tokens in order, then its end. *)
Tokens(docs) == FlattenSeq([d \in DOMAIN docs |-> Append(docs[d], End)])

ListsOf(docs) ==
  LET tokens == Tokens(docs)
  IN  [key \in ToSet(tokens) |->
         SetToSortSeq({p - 1 : p \in {q \in DOMAIN tokens : tokens[q] = key}}, <)]

Contents(words) ==
  {body \o title : body \in SeqsUpTo({Key(w) : w \in words}, MaxBody),
                   title \in SeqsUpTo({TitleKey(w) : w \in words}, 1)}

TwoWords == {"a", "b"}
TwoWordDocs == UNION {[1..n -> Contents(TwoWords)] : n \in 1..MaxDocuments}

\* Longer chunks of one-word documents and one that holds both words.
LongDocs(n) == [1..n -> {<<Key("a")>>, <<Key("b")>>, <<Key("b"), TitleKey("a")>>}]

ChunkTable == {ListsOf(docs) : docs \in TwoWordDocs \cup LongDocs(4)}
ManyChunks == ChunkTable
SixDocumentChunks == {ListsOf(docs) : docs \in LongDocs(6)}

(* The parse trees of query lines. *)
Or == <<" ", "|", " ">>
Quoted(words) == <<"\"">> \o words \o <<"\"">>
Grouped(line) == <<"(">> \o line \o <<")">>
A == <<"a">>
B == <<"b">>
AB == <<"a", " ", "b">>

PlainLines ==
  {A, A \o Or \o B, AB, Quoted(A), Quoted(AB), Quoted(<<"a", " ", "a">>),
   Quoted(AB) \o B, Grouped(AB), AB \o Or \o Quoted(<<"b", " ", "a">>), AB \o Or \o Grouped(B),
   Grouped(A \o Or \o B) \o A, A \o Grouped(A \o Or \o B)}
NotLines == {<<"-", "a">>, <<"-", "a">> \o Or \o B, <<"a", " ", "-", "b">>, <<"a", " ", "-">> \o Grouped(B)}

ThreeWordPhrase == Quoted(<<"a", " ", "b", " ", "c">>)

TreeTable == Compiled({ParseTree(line) : line \in PlainLines \cup NotLines})
AllQueries == TreeTable
BothWords == Compiled({ParseTree(AB)})
LongPhrase == Compiled({ParseTree(ThreeWordPhrase)})

ThreeWords == {"a", "b", "c"}
ThreeWordChunks == {ListsOf(<<body>>) : body \in SeqsUpTo({Key(w) : w \in ThreeWords}, MaxBody)}
=============================================================================
