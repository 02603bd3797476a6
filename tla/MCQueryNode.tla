----------------------------- MODULE MCQueryNode -----------------------------
(***************************************************************************)
(* Instances of QueryNode for TLC: one connection with any short line or   *)
(* any expression of the query language, and several connections with      *)
(* clients that stall, reset the connection, or are not the frontend.      *)
(***************************************************************************)
EXTENDS QueryNode

CONSTANTS c1, c2, c3, MaxLine

Blank == {" "}
Word(w) == [op |-> "word", word |-> w]
Phrase(words) == [op |-> "phrase", words |-> words]
Not(e) == [op |-> "not", term |-> e]
Nested(e) == [op |-> "nested", term |-> e]
Op(op, terms) == [op |-> op, terms |-> terms]

(* The grammar, two levels deep. *)
Words == {Word(<<"a">>), Word(<<"b", "AND">>)}
Phrases == {Phrase(<<<<"a">>, <<"b">>>>)}
Simple(inner) == Words \cup Phrases \cup {Not(w) : w \in Words \cup Phrases}
                 \cup {Nested(e) : e \in inner} \cup {Not(Nested(e)) : e \in inner}
Pairs(op, terms) == {Op(op, <<x, y>>) : x, y \in terms}
Inner ==
  LET x == Word(<<"a">>)
      y == Word(<<"b", "AND">>)
  IN  {Op("and", <<x, y>>), Op("or", <<y, x>>), Op("or", <<Op("and", <<x, y>>), y>>)}
TwoLevels ==
  LET simple == Simple(Inner)
  IN  simple \cup Pairs("and", simple) \cup {Op("or", <<x, Op("and", <<y, x>>)>>) : x, y \in simple}

ThreeStyles ==
  {[and |-> <<" ">>,             or |-> <<" ", "|", " ">>,       not |-> <<"-">>],
   [and |-> <<" ", "&", "&", " ">>, or |-> <<" ", "|", "|", " ">>, not |-> <<"-", "-">>],
   [and |-> <<" ", "AND", " ">>, or |-> <<" ", "OR", " ">>,      not |-> <<"NOT", " ">>]}

Client(line, query, ends, frontend) ==
  [line |-> line, query |-> query, ends |-> ends, frontend |-> frontend]
Sends(line) == Client(line, AnyQuery, "zero", TRUE)

Characters == {"a", "b", " ", "OR"} \cup Marks
Operators == {"a", " ", "&", "|", "-"}
Brackets == {"a", " ", "|", "(", ")"}
ShortLines ==
  UNION {[1..n -> Characters] : n \in 0..MaxLine}
    \cup [1..(MaxLine + 1) -> Operators] \cup [1..(MaxLine + 2) -> Brackets]

OfClients(clients, chunks) == [clients |-> clients, directory |-> chunks]
OneChunk == <<"whole">>

Alone ==
  {OfClients(c1 :> Sends(line), OneChunk) : line \in ShortLines} \cup
  {OfClients(c1 :> Client(Written(e, style), e, "zero", TRUE), OneChunk) : e \in TwoLevels, style \in ThreeStyles}

\* Three connections at a time over two threads and four descriptors.
Lines == {<<"a", "b">>, <<"-", "a">>, <<"|">>}
Directories ==
  {<< >>, <<"whole", "whole">>, <<"torn">>, <<"whole", "invalid">>}
Seconds ==
  {Client(line, AnyQuery, ends, TRUE) : line \in Lines, ends \in {"zero", "open", "reset"}}
    \cup {Client(<<"a">>, AnyQuery, "open", FALSE)}
Together ==
  {OfClients(c1 :> Client(<<"a">>, AnyQuery, "shut", TRUE) @@ c2 :> second
               @@ c3 :> Client(<<"b">>, AnyQuery, end3, TRUE), chunks) :
     second \in Seconds, end3 \in {"shut", "open"}, chunks \in Directories}

AnyCharacter == Characters \cup {"AND", "NOT"}

AllWorkloads == Alone \cup Together
=============================================================================
