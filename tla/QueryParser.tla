----------------------------- MODULE QueryParser -----------------------------
(***************************************************************************)
(* The recursive descent of the query parser (src/src/QueryParser.cpp)     *)
(* over the tokens of a line.  A tuple is the record ConstraintSolver      *)
(* compiles; a parsing method returns a tuple, or NoTuple for nullptr, and *)
(* the tokens left, the current one first.                                 *)
(***************************************************************************)
EXTENDS TokenStream

NoTuple == [op |-> "nullptr"]

Type(tokens) == Head(tokens).type
FindNextToken(tokens) == IF Type(tokens) = "EOF" THEN tokens ELSE Tail(tokens)
Parsed(tuple, rest) == [tuple |-> tuple, rest |-> rest]
Nothing(rest) == Parsed(NoTuple, rest)

SearchWord(decorator, word) == [op |-> "word", key |-> <<decorator, word>>]
Expression(op, terms) == [op |-> op, terms |-> terms]
OrExpression(terms) == Expression("or", terms)
PhraseOf(decorator, words) ==
  [op |-> "phrase", terms |-> [i \in DOMAIN words |-> SearchWord(decorator, words[i])]]

\* Every word is looked for in the titles, too.
WordTuple(word) == OrExpression(<<SearchWord("$", word), SearchWord("", word)>>)

\* Of the four phrases, one for each decorator, two are filled.
PhraseTuple(words) ==
  OrExpression(<<PhraseOf("", words), PhraseOf("$", words), PhraseOf("", << >>), PhraseOf("", << >>)>>)

RECURSIVE FindSimpleConstraint(_), FindOrConstraint(_), AndTerms(_, _), OrTerms(_, _)

FindSearchWord(tokens) ==
  IF Type(tokens) = "Word" THEN Parsed(WordTuple(Head(tokens).text), FindNextToken(tokens))
  ELSE Nothing(tokens)

\* Up to the closing quote, at position last; only the words count.  Without
\* one the rest of the line is gone.
PhraseUpTo(tokens, last) ==
  LET IsWord(token) == token.type = "Word"
      words == SelectSeq(SubSeq(tokens, 2, last - 1), IsWord)
  IN  IF tokens[last].type = "EOF" THEN Nothing(<<tokens[last]>>)
      ELSE Parsed(PhraseTuple([i \in DOMAIN words |-> words[i].text]),
                  SubSeq(tokens, last + 1, Len(tokens)))

FindPhrase(tokens) ==
  IF Type(tokens) # "Phrase" THEN Nothing(tokens)
  ELSE PhraseUpTo(tokens, SelectInSubSeq(tokens, 2, Len(tokens),
                                         LAMBDA token : token.type \in {"Phrase", "EOF"}))

\* Variant: the tuple is returned as it is.
CloseNestedBare(inner) ==
  IF inner.tuple = NoTuple \/ Type(inner.rest) # "Nested" THEN inner
  ELSE Parsed(inner.tuple, FindNextToken(inner.rest))

\* What stands between parentheses has been parsed.
CloseNested(inner) ==
  IF inner.tuple = NoTuple \/ Type(inner.rest) # "Nested" THEN inner
  ELSE Parsed([op |-> "nested", term |-> inner.tuple], FindNextToken(inner.rest))

FindNestedConstraint(tokens) ==
  IF Head(tokens).text = <<"(">> THEN CloseNested(FindOrConstraint(FindNextToken(tokens)))
  ELSE Nothing(tokens)

FindUnarySimpleConstraint(term) == Parsed([op |-> "not", term |-> term.tuple], term.rest)

\* What was found before, or else a word; a phrase or a word.
OrWord(found) == IF found.tuple # NoTuple THEN found ELSE FindSearchWord(found.rest)
OrPhrase(found) == IF found.tuple # NoTuple THEN found ELSE OrWord(FindPhrase(found.rest))

FindSimpleConstraint(tokens) ==
  IF Type(tokens) = "NOT" THEN FindUnarySimpleConstraint(FindSimpleConstraint(FindNextToken(tokens)))
  ELSE OrPhrase(FindNestedConstraint(tokens))

PastOp(tokens, op) == IF Type(tokens) = op THEN FindNextToken(tokens) ELSE tokens     \* FindAndOp

\* The terms of an expression, the next of which has been looked for.
AndTerms(terms, next) ==
  IF next.tuple = NoTuple THEN [terms |-> terms, rest |-> next.rest]
  ELSE AndTerms(Append(terms, next.tuple), FindSimpleConstraint(PastOp(next.rest, "AND")))

OneOrAll(op, found) ==
  CASE found.terms = << >>    -> Nothing(found.rest)
    [] Len(found.terms) = 1 -> Parsed(found.terms[1], found.rest)
    [] OTHER                -> Parsed(Expression(op, found.terms), found.rest)

FindAndConstraint(tokens) == OneOrAll("and", AndTerms(<< >>, FindSimpleConstraint(tokens)))

\* Variant: without a right-hand side the whole expression is given up.
OrTermsAllOrNone(terms, next) ==
  IF next.tuple = NoTuple THEN Nothing(next.rest)
  ELSE IF Type(next.rest) = "OR"
       THEN OrTerms(Append(terms, next.tuple), FindAndConstraint(FindNextToken(next.rest)))
       ELSE OneOrAll("or", [terms |-> Append(terms, next.tuple), rest |-> next.rest])

\* The terms in front, and the AND constraint that was looked for next.  A
\* missing one is appended as the nullptr that ends the list anyway, and an OR
\* operator behind it is still taken.
OrTerms(terms, next) ==
  IF next.tuple = NoTuple THEN Parsed(OrExpression(terms), PastOp(next.rest, "OR"))
  ELSE IF Type(next.rest) = "OR"
       THEN OrTerms(Append(terms, next.tuple), FindAndConstraint(FindNextToken(next.rest)))
       ELSE OneOrAll("or", [terms |-> Append(terms, next.tuple), rest |-> next.rest])

FirstOr(first) == IF first.tuple = NoTuple THEN first ELSE OrTerms(<< >>, first)

FindOrConstraint(tokens) == FirstOr(FindAndConstraint(tokens))

\* Ranker::buildParseTree
ParseTree(line) == FindOrConstraint(TokensOf(line)).tuple
=============================================================================
