----------------------------- MODULE TokenStream -----------------------------
(***************************************************************************)
(* The tokens of a query line (src/src/TokenStream.cpp).  A line is        *)
(* a sequence of characters; a run of letters that spells an operator      *)
(* keyword is one character, "AND", "OR" or "NOT".  Positions stand for    *)
(* the pointers startChar and currChar, and the position behind the line   *)
(* for endChar, where *currChar is '\0'.                                   *)
(***************************************************************************)
EXTENDS Integers, Sequences, SequencesExt, FiniteSets

CONSTANT Skipped     \* the characters isSkippedChar names

EndOfLine == "\\0"
Connectives == {"&", "|"}
Marks == {"\"", "-", "(", ")"} \cup Connectives
Keyword == [word \in {<<"AND">>, <<"OR">>, <<"NOT">>} |-> word[1]]

ASSUME TokenAssumption == Skipped \cap Marks = {} /\ EndOfLine \notin Skipped

CharAt(line, i) == IF i > Len(line) THEN EndOfLine ELSE line[i]

\* The first position from i on that holds none of the operators.
PastRun(line, i, operators) ==
  CHOOSE j \in i..(Len(line) + 1) :
    /\ CharAt(line, j) \notin operators
    /\ \A k \in i..(j - 1) : line[k] \in operators

\* A token, and where the stream goes on.  A word that spells a keyword is
\* an operator.
Taken(type, text, next) ==
  [type |-> IF text \in DOMAIN Keyword THEN Keyword[text] ELSE type,
   text |-> text, next |-> next]

WordOf(line, start, end, next) == Taken("Word", SubSeq(line, start, end - 1), next)

\* A word that runs into '&' or '|': these, and any '-' behind, are skipped.
WordAtConnective(line, start, end) ==
  WordOf(line, start, end, PastRun(line, end, Connectives \cup {"-"}))

RECURSIVE Scan(_, _, _)

\* Variant: the character behind an operator that is ignored is skipped, too.
AtConnectiveSkips(line, op, next) ==
  IF CharAt(line, next) \in Skipped \cup {EndOfLine}
    THEN Taken(IF op = "&" THEN "AND" ELSE "OR", <<op>>, next)
    ELSE Scan(line, next + 1, next + 1)

\* '&' or '|' not behind a word, repeated up to position next: an operator only
\* where a skipped character or the end of the line follows.
AtConnective(line, op, next) ==
  IF CharAt(line, next) \in Skipped \cup {EndOfLine}
    THEN Taken(IF op = "&" THEN "AND" ELSE "OR", <<op>>, next)
  ELSE IF CharAt(line, next) \in Connectives THEN Scan(line, next + 1, next + 1)
  ELSE Scan(line, next, next)

\* '-' not behind a word, repeated up to position next: ignored in front of
\* '&', '|' and what is skipped.
AtDash(line, next) ==
  IF CharAt(line, next) \in Skipped \cup Connectives
    THEN Scan(line, next + 1, next + 1)
    ELSE Taken("NOT", <<"-">>, next)

\* TokenStream::TakeToken: [start, curr) are the letters seen so far.
Scan(line, start, curr) ==
  LET c == CharAt(line, curr)
      inWord == start # curr
  IN  CASE c = EndOfLine ->
             IF inWord THEN WordOf(line, start, curr, curr) ELSE Taken("EOF", << >>, curr)
        [] c \in Skipped ->
             IF inWord THEN WordOf(line, start, curr, curr) ELSE Scan(line, curr + 1, curr + 1)
        [] c \in Connectives ->
             IF inWord THEN WordAtConnective(line, start, curr)
             ELSE AtConnective(line, c, PastRun(line, curr, {c}))
        [] c \in {"(", ")", "\""} ->
             IF inWord THEN WordOf(line, start, curr, curr)
             ELSE Taken(IF c = "\"" THEN "Phrase" ELSE "Nested", <<c>>, curr + 1)
        [] c = "-" ->
             IF inWord THEN WordOf(line, start, curr, PastRun(line, curr, {"-"}))
             ELSE AtDash(line, PastRun(line, curr, {"-"}))
        [] OTHER -> Scan(line, start, curr + 1)

TakeToken(line, from) == Scan(line, from, from)

\* The tokens FindNextToken takes one after the other, to the first EOF.
RECURSIVE TokensFrom(_, _)
TokensFrom(line, token) ==
  IF token.type = "EOF" THEN <<token>>
  ELSE <<token>> \o TokensFrom(line, TakeToken(line, token.next))

TokensOf(line) == TokensFrom(line, TakeToken(line, 1))
=============================================================================
