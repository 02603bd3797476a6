------------------------------ MODULE QueryNode ------------------------------
(***************************************************************************)
(* The query node with the parser it uses: what Connections takes as given *)
(* about lines and their trees is here what QueryParser makes of them.     *)
(***************************************************************************)
EXTENDS Connections, QueryParser

CONSTANT AnyQuery   \* the expression of a line that is none of the language

-----------------------------------------------------------------------------
\* The parse tree of every line that may be received, whole or in part.
LinesReceived ==
  UNION {UNION {{SubSeq(w.clients[c].line, 1, n) : n \in 0..Len(w.clients[c].line)} :
                 c \in DOMAIN w.clients} : w \in Workloads}
ParseTrees == [line \in LinesReceived |-> ParseTree(line)]
TreeOfReceived(line) == ParseTrees[line]

\* getTopTen dereferences the compiled tree, and UnarySimpleConstraint::Compile
\* its term.
RECURSIVE Compiles(_)
Compiles(tuple) ==
  CASE tuple.op = "nullptr"         -> FALSE
    [] tuple.op = "word"            -> TRUE
    [] tuple.op \in {"not", "nested"} -> Compiles(tuple.term)
    [] OTHER                        -> \A i \in DOMAIN tuple.terms : Compiles(tuple.terms[i])

RECURSIVE Tuples(_)
Tuples(tuple) ==
  {tuple} \cup CASE tuple.op \in {"word", "nullptr"} -> {}
                 [] tuple.op \in {"not", "nested"}   -> Tuples(tuple.term)
                 [] OTHER -> UNION {Tuples(tuple.terms[i]) : i \in DOMAIN tuple.terms}

\* The Ranker of a whole chunk goes round for ever or crashes for these trees
\* only (FaultsOnlyWhere of StreamReaders): NOT, phrases, two expressions that
\* become containers.  A search may hang or end the process for any tree.
RankingMayFail(tuple) ==
  \/ \E t \in Tuples(tuple) : t.op = "not" \/ (t.op = "phrase" /\ Len(t.terms) > 1)
  \/ Cardinality({t \in Tuples(tuple) : t.op \in {"and", "nested"}}) > 1

-----------------------------------------------------------------------------
(* What the node promises *)

(* The language of the queries, and what an expression of it means. *)

Joined(lines, between) ==
  FoldLeft(LAMBDA line, next : IF line = << >> THEN next ELSE line \o between \o next, << >>, lines)

RECURSIVE Written(_, _), Meaning(_)
WrittenAll(terms, style) == [i \in DOMAIN terms |-> Written(terms[i], style)]
Written(e, style) ==
  CASE e.op = "word"   -> e.word
    [] e.op = "phrase" -> <<"\"">> \o Joined(e.words, <<" ">>) \o <<"\"">>
    [] e.op = "and"    -> Joined(WrittenAll(e.terms, style), style.and)
    [] e.op = "or"     -> Joined(WrittenAll(e.terms, style), style.or)
    [] e.op = "not"    -> style.not \o Written(e.term, style)
    [] e.op = "nested" -> <<"(">> \o Written(e.term, style) \o <<")">>

Meaning(e) ==
  CASE e.op = "word"   -> OrExpression(<<SearchWord("$", e.word), SearchWord("", e.word)>>)
    [] e.op = "phrase" -> PhraseTuple(e.words)
    [] e.op \in {"and", "or"} ->
         [op |-> e.op, terms |-> [i \in DOMAIN e.terms |-> Meaning(e.terms[i])]]
    [] e.op \in {"not", "nested"} -> [op |-> e.op, term |-> Meaning(e.term)]

\* A query written in the language of expressions is parsed as it is meant,
\* however it is written and in however many pieces its line arrives.
ParsedAsMeant ==
  \A c \in HasTree :
    client[c].query # AnyQuery /\ Bytes(c) <= BufferSize => tree[c] = Meaning(client[c].query)

RECURSIVE WordsIn(_)
WordsIn(tuple) ==
  CASE tuple.op = "nullptr" -> << >>
    [] tuple.op = "word" -> IF tuple.key[1] = "" THEN <<tuple.key[2]>> ELSE << >>
    [] tuple.op \in {"not", "nested"} -> WordsIn(tuple.term)
    [] OTHER -> FlattenSeq([i \in DOMAIN tuple.terms |-> WordsIn(tuple.terms[i])])

\* The words of a line: its longest runs of letters, keywords excepted.
WordsOf(line) ==
  LET Letter(i) == CharAt(line, i) \notin Skipped \cup Marks \cup {EndOfLine}
      Starts(i) == Letter(i) /\ (i = 1 \/ ~Letter(i - 1))
      RunFrom(i) == SubSeq(line, i, CHOOSE j \in i..Len(line) : ~Letter(j + 1) /\ \A k \in i..j : Letter(k))
      runs == [n \in DOMAIN line |-> IF Starts(n) THEN RunFrom(n) ELSE << >>]
  IN  SelectSeq(runs, LAMBDA run : run # << >> /\ run \notin DOMAIN Keyword)

\* Between the words of a query a parser may rely on: its quotes are closed, it
\* has no parentheses, and an operator has a term on either side.
Orderly(tokens) ==
  /\ Cardinality({i \in DOMAIN tokens : tokens[i].type = "Phrase"}) % 2 = 0
  /\ \A i \in DOMAIN tokens :
       /\ tokens[i].type # "Nested"
       /\ tokens[i].type \in {"AND", "OR"} =>
            i > 1 /\ tokens[i - 1].type \notin {"AND", "OR", "NOT"}
       /\ tokens[i].type = "NOT" => tokens[i + 1].type \in {"Word", "Phrase", "NOT"}

\* The words of the query are those of the line, in order and undivided; where
\* some are missing they are its last ones, and it is not orderly.
WordsInOrder ==
  \A c \in WithTree :
    /\ IsPrefix(WordsIn(tree[c]), WordsOf(Received(c)))
    /\ Orderly(TokensOf(Received(c))) => WordsIn(tree[c]) = WordsOf(Received(c))

\* One line cannot hurt the connections of others as long as it is a list of
\* words, or of words with "|" between them.
Plain(tokens) ==
  LET types == {tokens[i].type : i \in DOMAIN tokens}
  IN  /\ tokens[1].type = "Word"
      /\ \/ types \subseteq {"Word", "AND", "EOF"}
         \/ /\ types \subseteq {"Word", "OR", "EOF"}
            /\ \A i \in 2..Len(tokens) : ~(tokens[i].type = "Word" /\ tokens[i - 1].type = "Word")

\* Such a line ends the process only with the help of another client or at a
\* chunk file that is torn, is invalid, or finds no descriptor.
DownOnlyFor ==
  down => \E c \in Clients :
            \/ c \in gone
            \/ CannotOpen(c)
            \/ \E chunk \in search[c].open :
                 directory[chunk] = "torn" \/ ~Plain(TokensOf(Received(c)))

\* A connection of the frontend that sends a line is closed in the end, unless
\* the process dies or something stands in its way for good: its search hangs,
\* in a chunk or because a worker slept when the queue was closed; every thread
\* is held by such a search or by a client that sends no line; or every
\* descriptor is held by those, the clients behind them, and strangers.
SendsLine(c) == client[c].frontend /\ client[c].ends \in {"zero", "shut"}
Hangs(c) ==
  \/ c \in At({"search", "join"}) /\ search[c].looping # {}
  \/ c \in At({"join"}) /\ search[c].asleep
Idle == {d \in Clients : Hangs(d) \/ (stage[d] = "receiving" /\ ~SendsLine(d) /\ d \notin gone)}
Kept == Idle \cup At({"refused", "queued"}) \cup UNION {{d} \X search[d].looping : d \in Clients}
Blocked(c) ==
  \/ Hangs(c)
  \/ c \in At({"queued"}) /\ Cardinality(Idle) >= Threads
  \/ c \in At({"waiting"}) /\ Cardinality(Kept) >= Descriptors

ClosedEventually ==
  \A c \in Connections :
    c \in Clients /\ SendsLine(c) => <>(down \/ c \in At({"closed"})) \/ <>[]Blocked(c)
=============================================================================
