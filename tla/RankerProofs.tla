---------------------------- MODULE RankerProofs ----------------------------
(***************************************************************************)
(* What the results of getTopTen are after any number of documents, for    *)
(* any ranks and any number of results.                                    *)
(***************************************************************************)
EXTENDS Ranker, SequenceTheorems, WellFoundedInduction, TLAPS

RankedDocuments == [doc : Nat, loc : Nat, rank : Ranks]

\* Every document kept was ranked, and none is kept twice.
KeptTypes ==
  /\ answers \in Seq(RankedDocuments)
  /\ results \in Seq(DOMAIN answers)
  /\ IsInjective(results)

\* As long as there is room every document is kept, in the order they came.
AllKept == Len(answers) <= MaxResults =>
             /\ Len(results) = Len(answers)
             /\ \A i \in DOMAIN results : results[i] = i

\* Once there is none, the last document has just taken a place.
LastKept == Len(answers) > MaxResults =>
              /\ Len(results) = MaxResults
              /\ Len(answers) \in ToSet(results)

\* No document was given up for one it ranks above, unless for the last one.
BestKept ==
  \A dropped \in DOMAIN answers \ ToSet(results) : \A kept \in ToSet(results) \ {Len(answers)} :
    ~Below(answers[kept].rank, answers[dropped].rank)

\* A document without a rank that compares does not stay in the first place.
FirstPlace ==
  Len(answers) > MaxResults /\ answers[results[1]].rank = NaN => results[1] = Len(answers)

RankerInv == KeptTypes /\ AllKept /\ LastKept /\ BestKept /\ FirstPlace

-----------------------------------------------------------------------------
\* A set of natural numbers with 0, and with the successor of each of its
\* elements, has them all.
LEMMA NatSetInduction ==
  ASSUME NEW S, S \subseteq Nat, 0 \in S, \A n \in S : n + 1 \in S
  PROVE  \A n \in Nat : n \in S
<1> DEFINE R == {p \in Nat \X Nat : p[1] < p[2]}
           T == Nat \ S
<1>1. SUFFICES ASSUME T # {} PROVE FALSE
  OBVIOUS
<1>2. IsWellFoundedOn(R, Nat)
  BY NatLessThanWellFounded, Zenon DEF OpToRel
<1> HIDE DEF R
<1>3. PICK n \in T : \A m \in T : <<m, n>> \notin R
  BY <1>1, <1>2, WFMin, Zenon
<1>4. n \in Nat /\ n # 0 /\ n - 1 \in Nat
  BY <1>3
<1>5. n - 1 \in S
  <2>1. <<n - 1, n>> \in R
    BY <1>4 DEF R
  <2>2. n - 1 \notin T
    BY <1>3, <2>1
  <2> QED
    BY <1>4, <2>2
<1>6. (n - 1) + 1 = n
  BY <1>4
<1> QED
  BY <1>3, <1>5, <1>6

\* There is at least one result.
LEMMA SomeRoom == MaxResults \in Nat /\ MaxResults > 0
  BY RankerAssumption

\* A rank is NaN or an integer.
LEMMA RankTypes ==
  ASSUME NEW ranked \in Seq(RankedDocuments), NEW i \in DOMAIN ranked
  PROVE  ranked[i].rank \in Int \cup {NaN}
<1>1. ranked[i] \in RankedDocuments
  OBVIOUS
<1>2. ranked[i].rank \in Ranks
  BY <1>1 DEF RankedDocuments
<1> QED
  BY <1>2, RankerAssumption

\* i is the place getTopTen finds among the ranks f[1], ..., f[n].
FirstLeast(f, n, i) ==
  /\ i \in 1..n
  /\ \A j \in 1..n : ~Below(f[j], f[i])
  /\ \A j \in 1..(i - 1) : Below(f[i], f[j]) \/ (j > 1 /\ f[j] = NaN)

\* There is such a place.
LEMMA FirstLeastExists ==
  ASSUME NEW m \in Nat \ {0}, NEW f \in [1..m -> Int \cup {NaN}]
  PROVE  \E i \in 1..m : FirstLeast(f, m, i)
<1> DEFINE S == {n \in Nat : n \in 1..m => \E i \in 1..n : FirstLeast(f, n, i)}
<1>1. 0 \in S
  OBVIOUS
<1>2. ASSUME NEW n \in S PROVE n + 1 \in S
  <2>1. SUFFICES ASSUME n + 1 \in 1..m PROVE \E i \in 1..(n + 1) : FirstLeast(f, n + 1, i)
    OBVIOUS
  <2>2. \A j \in 1..(n + 1) : f[j] \in Int \/ f[j] = NaN
    BY <2>1
  <2>3. CASE n = 0
    <3>1. FirstLeast(f, 1, 1)
      BY <2>1, <2>2, <2>3 DEF FirstLeast, Below
    <3> QED
      BY <2>3, <3>1
  <2>4. CASE n # 0
    <3>1. PICK i \in 1..n : FirstLeast(f, n, i)
      BY <2>1, <2>4
    <3>2. CASE ~Below(f[n + 1], f[i])
      <4>1. FirstLeast(f, n + 1, i)
        BY <2>1, <3>1, <3>2 DEF FirstLeast
      <4> QED
        BY <4>1
    <3>3. CASE Below(f[n + 1], f[i])
      <4>1. f[n + 1] \in Int /\ f[i] \in Int /\ f[n + 1] < f[i]
        BY <2>2, <3>3 DEF Below
      <4>2. ASSUME NEW j \in 1..n, f[j] # NaN PROVE f[j] \in Int /\ f[n + 1] < f[j]
        <5>1. f[j] \in Int /\ ~(f[j] < f[i])
          BY <2>2, <3>1, <4>1, <4>2, RankerAssumption DEF FirstLeast, Below
        <5> QED
          BY <4>1, <5>1
      <4>3. \A j \in 1..(n + 1) : ~Below(f[j], f[n + 1])
        BY <4>1, <4>2 DEF Below
      <4>4. f[1] # NaN
        BY <3>1, <4>1, RankerAssumption DEF FirstLeast, Below
      <4>5. \A j \in 1..n : Below(f[n + 1], f[j]) \/ (j > 1 /\ f[j] = NaN)
        BY <4>1, <4>2, <4>4, RankerAssumption DEF Below
      <4>6. FirstLeast(f, n + 1, n + 1)
        BY <2>1, <4>3, <4>5 DEF FirstLeast
      <4> QED
        BY <4>6
    <3> QED
      BY <3>2, <3>3
  <2> QED
    BY <2>3, <2>4
<1>3. \A n \in Nat : n \in S
  <2> HIDE DEF S
  <2> QED
    BY <1>1, <1>2, NatSetInduction DEF S
<1> QED
  BY <1>3

\* Worst is a place of the results, no result ranks below the one there, and
\* that one has no rank that compares only in the first place.
LEMMA WorstIsLeast ==
  ASSUME NEW ranked \in Seq(RankedDocuments), NEW kept \in Seq(DOMAIN ranked), kept # << >>
  PROVE  LET w == Worst(ranked, kept)
         IN  /\ w \in DOMAIN kept
             /\ \A j \in DOMAIN kept : ~Below(ranked[kept[j]].rank, ranked[kept[w]].rank)
             /\ w # 1 => Below(ranked[kept[w]].rank, ranked[kept[1]].rank)
<1> DEFINE f == [j \in DOMAIN kept |-> ranked[kept[j]].rank]
           w == Worst(ranked, kept)
<1>1. Len(kept) \in Nat \ {0} /\ DOMAIN kept = 1..Len(kept) /\ DOMAIN f = DOMAIN kept
  OBVIOUS
<1>2. f \in [1..Len(kept) -> Int \cup {NaN}]
  <2>1. ASSUME NEW j \in 1..Len(kept) PROVE kept[j] \in DOMAIN ranked
    BY <1>1
  <2> QED
    BY <1>1, <2>1, RankTypes
<1>3. w = CHOOSE i \in DOMAIN kept : IsFirstLowest(f, i)
  BY DEF Worst
<1>4. \A j \in DOMAIN kept : f[j] = ranked[kept[j]].rank
  OBVIOUS
<1> HIDE DEF f, w
<1>5. PICK i \in DOMAIN kept : IsFirstLowest(f, i)
  <2>1. PICK i \in 1..Len(kept) : FirstLeast(f, Len(kept), i)
    BY <1>1, <1>2, FirstLeastExists
  <2>2. IsFirstLowest(f, i)
    BY <1>1, <2>1 DEF FirstLeast, IsFirstLowest
  <2> QED
    BY <1>1, <2>1, <2>2
<1>6. w \in DOMAIN kept /\ IsFirstLowest(f, w)
  BY <1>3, <1>5
<1>7. \A j \in DOMAIN kept : ~Below(f[j], f[w])
  BY <1>1, <1>6 DEF IsFirstLowest
<1>8. ASSUME w # 1 PROVE Below(f[w], f[1])
  <2>1. 1 \in 1..(w - 1)
    BY <1>1, <1>6, <1>8
  <2>2. Below(f[w], f[1]) \/ (1 > 1 /\ f[1] = NaN)
    BY <1>6, <2>1 DEF IsFirstLowest
  <2> QED
    BY <2>2
<1>9. 1 \in DOMAIN kept
  BY <1>1
<1> QED
  BY <1>4, <1>6, <1>7, <1>8, <1>9, Zenon DEF w

-----------------------------------------------------------------------------
LEMMA RankerInvInit == RankerInit => RankerInv
  BY SomeRoom DEF RankerInit, RankerInv, KeptTypes, AllKept, LastKept, BestKept,
                          FirstPlace, IsInjective, ToSet

\* There is room: the new document is put behind the others.
LEMMA RoomStep ==
  ASSUME RankerInv, NEW new \in RankedDocuments, Len(results) < MaxResults,
         answers' = Append(answers, new),
         results' = Append(results, Len(answers'))
  PROVE  RankerInv'
<1> DEFINE n == Len(answers)
<1>1. /\ answers \in Seq(RankedDocuments) /\ n \in Nat /\ DOMAIN answers = 1..n
      /\ results \in Seq(1..n) /\ DOMAIN results = 1..Len(results) /\ Len(results) \in Nat
  BY DEF RankerInv, KeptTypes
<1>2. n <= MaxResults
  <2>1. n > MaxResults => Len(results) = MaxResults
    BY DEF RankerInv, LastKept
  <2>2. n \in Nat /\ Len(results) \in Nat
    BY <1>1
  <2> HIDE DEF n
  <2> QED
    BY <2>1, <2>2, SomeRoom
<1>3. Len(results) = n /\ \A i \in 1..n : results[i] = i
  BY <1>1, <1>2 DEF RankerInv, AllKept
<1>4. answers' \in Seq(RankedDocuments) /\ Len(answers') = n + 1 /\ DOMAIN answers' = 1..(n + 1)
  BY <1>1
<1>5. results' \in Seq(1..(n + 1)) /\ Len(results') = n + 1 /\ DOMAIN results' = 1..(n + 1)
  BY <1>1, <1>3, <1>4
<1>6. \A i \in 1..(n + 1) : results'[i] = i
  BY <1>1, <1>3, <1>4
<1>7. IsInjective(results')
  BY <1>5, <1>6 DEF IsInjective
<1>8. ToSet(results') = 1..(n + 1)
  BY <1>5, <1>6 DEF ToSet
<1>9. n + 1 <= MaxResults
  BY <1>1, <1>3, SomeRoom
<1>10. KeptTypes'
  BY <1>4, <1>5, <1>7 DEF KeptTypes
<1>11. AllKept'
  BY <1>4, <1>5, <1>6 DEF AllKept
<1>12. LastKept'
  BY <1>1, <1>4, <1>9, SomeRoom DEF LastKept
<1>13. BestKept' /\ FirstPlace'
  BY <1>1, <1>4, <1>8, <1>9, SomeRoom DEF BestKept, FirstPlace
<1> QED
  BY <1>10, <1>11, <1>12, <1>13 DEF RankerInv

\* There is none: the new document takes the place of the worst result.  What
\* is dropped now ranks above no result, and what was dropped before ranks
\* above none of those that stay: not above the last document either, since the
\* one dropped now ranks between them, if it is not the last one itself, and
\* compares with both, since it is not one that has just taken the first place.
LEMMA FullStep ==
  ASSUME RankerInv, NEW new \in RankedDocuments, ~(Len(results) < MaxResults),
         answers' = Append(answers, new),
         results' = [results EXCEPT ![Worst(answers, results)] = Len(answers')]
  PROVE  RankerInv'
<1> DEFINE n == Len(answers)
           w == Worst(answers, results)
           out == results[w]
<1>1. /\ answers \in Seq(RankedDocuments) /\ n \in Nat /\ DOMAIN answers = 1..n
      /\ results \in Seq(1..n) /\ DOMAIN results = 1..Len(results) /\ Len(results) \in Nat
      /\ IsInjective(results)
  BY DEF RankerInv, KeptTypes
<1>2. Len(results) = MaxResults /\ n >= MaxResults
  <2>1. n > MaxResults => Len(results) = MaxResults
    BY DEF RankerInv, LastKept
  <2>2. n <= MaxResults => Len(results) = n
    BY DEF RankerInv, AllKept
  <2>3. n \in Nat /\ Len(results) \in Nat
    BY <1>1
  <2> HIDE DEF n
  <2> QED
    BY <2>1, <2>2, <2>3, SomeRoom
<1>3. n \in ToSet(results)
  <2>1. CASE n > MaxResults
    BY <2>1 DEF RankerInv, LastKept
  <2>2. CASE n = MaxResults
    <3>1. results[n] = n /\ n \in DOMAIN results
      BY <1>1, <1>2, <2>2, SomeRoom, SMTT(30) DEF RankerInv, AllKept
    <3> QED
      BY <3>1 DEF ToSet
  <2>3. n > MaxResults \/ n = MaxResults
    <3>1. n \in Nat
      BY <1>1
    <3> HIDE DEF n
    <3> QED
      BY <1>2, <3>1, SomeRoom
  <2> QED
    BY <2>1, <2>2, <2>3
<1>4. /\ w \in DOMAIN results
      /\ \A j \in DOMAIN results : ~Below(answers[results[j]].rank, answers[out].rank)
      /\ w # 1 => Below(answers[out].rank, answers[results[1]].rank)
  <2>1. results # << >>
    BY <1>1, <1>2, SomeRoom
  <2> QED
    BY <1>1, <2>1, WorstIsLeast
<1> HIDE DEF w
<1>5. answers' \in Seq(RankedDocuments) /\ Len(answers') = n + 1 /\ DOMAIN answers' = 1..(n + 1)
  BY <1>1
<1>6. \A i \in 1..n : answers'[i] = answers[i] /\ (answers[i].rank \in Int \/ answers[i].rank = NaN)
  BY <1>1, RankTypes
<1>7. /\ DOMAIN results' = DOMAIN results
      /\ results'[w] = n + 1
      /\ \A i \in DOMAIN results : i # w => results'[i] = results[i]
  <2>1. results' = [results EXCEPT ![w] = n + 1]
    BY <1>5 DEF w
  <2> QED
    BY <1>1, <1>4, <2>1
<1>8. results' \in Seq(1..(n + 1)) /\ Len(results') = Len(results)
  <2>1. results' = [results EXCEPT ![w] = n + 1]
    BY <1>5 DEF w
  <2>2. results \in Seq(1..(n + 1))
    BY <1>1
  <2> QED
    BY <1>1, <1>4, <2>1, <2>2
<1>9. IsInjective(results')
  <2>1. \A i \in DOMAIN results : results[i] # n + 1
    BY <1>1
  <2>2. \A i, j \in DOMAIN results : results[i] = results[j] => i = j
    BY <1>1, Zenon DEF IsInjective
  <2> QED
    BY <1>7, <2>1, <2>2 DEF IsInjective
<1>10. n + 1 \in ToSet(results')
  BY <1>4, <1>7 DEF ToSet
<1>11. \A k \in ToSet(results') : k = n + 1 \/ (k \in ToSet(results) /\ k # out)
  <2>1. SUFFICES ASSUME NEW i \in DOMAIN results, i # w
                 PROVE  results'[i] \in ToSet(results) /\ results'[i] # out
    BY <1>7 DEF ToSet
  <2>2. results[i] # out
    BY <1>1, <1>4, <2>1 DEF IsInjective
  <2> QED
    BY <1>7, <2>1, <2>2 DEF ToSet
<1>12. \A k \in ToSet(results) : k = out \/ k \in ToSet(results')
  BY <1>7 DEF ToSet
<1>13. \A k \in ToSet(results) : k \in 1..n /\ ~Below(answers[k].rank, answers[out].rank)
  BY <1>1, <1>4, SMTT(30) DEF ToSet
<1>14. out \in ToSet(results)
  BY <1>4 DEF ToSet
<1>15. ASSUME NEW d \in DOMAIN answers' \ ToSet(results'),
              NEW k \in ToSet(results') \ {Len(answers')}
       PROVE  ~Below(answers'[k].rank, answers'[d].rank)
  <2>1. k \in ToSet(results) /\ k # out /\ k \in 1..n
    BY <1>5, <1>11, <1>13, <1>15
  <2>2. d \in 1..n
    BY <1>5, <1>10, <1>15
  <2>3. ~Below(answers[k].rank, answers[out].rank)
    BY <1>6, <1>13, <1>14, <2>1
  <2>4. CASE d = out
    BY <1>6, <2>1, <2>2, <2>3, <2>4
  <2>5. CASE d # out
    <3>1. d \notin ToSet(results)
      BY <1>12, <1>15, <2>5
    <3>2. CASE k # n
      <4>1. ~Below(answers[k].rank, answers[d].rank)
        BY <1>1, <2>1, <2>2, <3>1, <3>2 DEF RankerInv, BestKept
      <4> QED
        BY <1>6, <2>1, <2>2, <4>1
    <3>3. CASE k = n
      <4>1. ~Below(answers[out].rank, answers[d].rank)
        BY <1>1, <1>14, <2>1, <2>2, <3>1, <3>3 DEF RankerInv, BestKept
      <4>2. n > MaxResults
        <5>1. SUFFICES ASSUME n <= MaxResults PROVE FALSE
          BY <1>1, SomeRoom
        <5>2. d \in DOMAIN results /\ results[d] = d
          BY <1>1, <1>2, <2>2, <5>1, SomeRoom DEF RankerInv, AllKept
        <5> QED
          BY <3>1, <5>2 DEF ToSet
      <4>3. answers[out].rank # NaN
        <5>1. SUFFICES ASSUME answers[out].rank = NaN PROVE FALSE
          OBVIOUS
        <5>2. w = 1
          BY <1>4, <5>1 DEF Below
        <5>3. results[1] = n
          BY <4>2, <5>1, <5>2 DEF RankerInv, FirstPlace
        <5> QED
          BY <2>1, <3>3, <5>2, <5>3
      <4> QED
        <5>1. out \in 1..n
          BY <1>13, <1>14
        <5>2. /\ answers[d].rank \in Int \/ answers[d].rank = NaN
              /\ answers[k].rank \in Int \/ answers[k].rank = NaN
              /\ answers[out].rank \in Int
          BY <1>6, <2>1, <2>2, <4>3, <5>1
        <5>3. ~Below(answers[k].rank, answers[d].rank)
          BY <2>3, <4>1, <4>3, <5>2, SMTT(30) DEF Below
        <5> QED
          BY <1>6, <2>1, <2>2, <5>3
    <3> QED
      BY <3>2, <3>3
  <2> QED
    BY <2>4, <2>5
<1>16. KeptTypes'
  BY <1>5, <1>8, <1>9 DEF KeptTypes
<1>17. AllKept'
  BY <1>1, <1>2, <1>5, SomeRoom DEF AllKept
<1>18. LastKept'
  BY <1>2, <1>5, <1>8, <1>10 DEF LastKept
<1>19. BestKept'
  BY <1>15 DEF BestKept
<1>20. FirstPlace'
  <2>1. SUFFICES ASSUME answers'[results'[1]].rank = NaN PROVE results'[1] = n + 1
    BY <1>5 DEF FirstPlace
  <2>2. 1 \in DOMAIN results /\ results[1] \in 1..n
    BY <1>1, <1>2, SomeRoom
  <2>3. CASE w = 1
    BY <1>7, <2>3
  <2>4. CASE w # 1
    <3>1. results'[1] = results[1]
      BY <1>7, <2>2, <2>4
    <3>2. answers[results[1]].rank # NaN
      BY <1>4, <2>4 DEF Below
    <3> QED
      BY <1>6, <2>1, <2>2, <3>1, <3>2
  <2> QED
    BY <2>3, <2>4
<1> QED
  BY <1>16, <1>17, <1>18, <1>19, <1>20 DEF RankerInv

LEMMA RankerInvStep ==
  ASSUME RankerInv, [RankerNext]_rankerVars
  PROVE  RankerInv'
<1>1. ASSUME NEW doc \in Nat, NEW loc \in Nat, RankDocument(doc, loc)
      PROVE  RankerInv'
  <2>1. PICK rank \in Ranks : answers' = Append(answers, [doc |-> doc, loc |-> loc, rank |-> rank])
    BY <1>1 DEF RankDocument
  <2>2. [doc |-> doc, loc |-> loc, rank |-> rank] \in RankedDocuments
    BY DEF RankedDocuments
  <2>3. CASE Len(results) < MaxResults
    BY <1>1, <2>1, <2>2, <2>3, RoomStep DEF RankDocument, Keep
  <2>4. CASE ~(Len(results) < MaxResults)
    BY <1>1, <2>1, <2>2, <2>4, FullStep DEF RankDocument, Keep
  <2> QED
    BY <2>3, <2>4
<1>2. ASSUME UNCHANGED <<answers, results>>
      PROVE  RankerInv'
  BY <1>2 DEF RankerInv, KeptTypes, AllKept, LastKept, BestKept, FirstPlace
<1> QED
  BY <1>1, <1>2 DEF RankerNext, EndSearch, TimeIsUp, rankerVars

\* However many documents a chunk has, whatever their ranks, and whenever the
\* search ends: the results getTopTen returns are the last document it ranked
\* and others that no document it gave up ranks above.
THEOREM ResultsKept == RankerSpec => []ResultsBestAndLast
<1>1. RankerInv => ResultsBestAndLast
  <2> SUFFICES ASSUME RankerInv, answers # << >> PROVE ResultsBestAndLast
    BY DEF ResultsBestAndLast
  <2>1. Len(answers) \in Nat \ {0} /\ DOMAIN answers = 1..Len(answers)
    BY DEF RankerInv, KeptTypes
  <2>2. Len(answers) \in ToSet(results)
    <3>1. CASE Len(answers) <= MaxResults
      <4>1. DOMAIN results = 1..Len(results)
        BY DEF RankerInv, KeptTypes
      <4>2. Len(answers) \in DOMAIN results /\ results[Len(answers)] = Len(answers)
        BY <2>1, <3>1, <4>1 DEF RankerInv, AllKept
      <4> QED
        BY <4>2 DEF ToSet
    <3>2. CASE Len(answers) > MaxResults
      BY <3>2 DEF RankerInv, LastKept
    <3> QED
      BY <2>1, <3>1, <3>2, SomeRoom
  <2>3. Len(results) = IF Len(answers) < MaxResults THEN Len(answers) ELSE MaxResults
    BY <2>1, SomeRoom DEF RankerInv, AllKept, LastKept
  <2> QED
    BY <2>2, <2>3 DEF RankerInv, KeptTypes, BestKept, ResultsBestAndLast
<1> QED
  BY <1>1, RankerInvInit, RankerInvStep, PTL DEF RankerSpec

\* With room for two results or more, and if all ranks compare, the results hold
\* a document that no other document of the chunk ranks above, until the end.
THEOREM HighestKept ==
  ASSUME MaxResults > 1, NaN \notin Ranks
  PROVE  RankerSpec =>
           [](answers # << >> =>
                \E k \in ToSet(results) : \A i \in DOMAIN answers : answers[i].rank <= answers[k].rank)
<1> DEFINE Highest(k) == \A i \in DOMAIN answers : answers[i].rank <= answers[k].rank
<1>1. ASSUME RankerInv, answers # << >>
      PROVE  \E k \in ToSet(results) : Highest(k)
  <2> DEFINE n == Len(answers)
             f == [i \in 1..n |-> 0 - answers[i].rank]
  <2>1. n \in Nat \ {0} /\ DOMAIN answers = 1..n
    BY <1>1 DEF RankerInv, KeptTypes
  <2>2. \A i \in 1..n : answers[i].rank \in Int
    <3>1. ASSUME NEW i \in 1..n PROVE answers[i].rank \in Ranks
      <4>1. answers[i] \in RankedDocuments
        BY <1>1, <2>1 DEF RankerInv, KeptTypes
      <4> QED
        BY <4>1 DEF RankedDocuments
    <3> QED
      BY <3>1, RankerAssumption
  <2>3. f \in [1..n -> Int \cup {NaN}]
    BY <2>1, <2>2
  <2>4. PICK b \in 1..n : FirstLeast(f, n, b)
    <3> HIDE DEF f, n
    <3> QED
      BY <2>1, <2>3, FirstLeastExists
  <2>5. \A i \in 1..n : answers[i].rank <= answers[b].rank
    <3>1. ASSUME NEW i \in 1..n PROVE answers[i].rank <= answers[b].rank
      <4>1. f[i] = 0 - answers[i].rank /\ f[b] = 0 - answers[b].rank
        BY <2>4
      <4>2. answers[i].rank \in Int /\ answers[b].rank \in Int
        BY <2>2, <2>4
      <4>3. ~Below(f[i], f[b]) /\ f[i] \in Int /\ f[b] \in Int
        BY <2>4, <4>1, <4>2 DEF FirstLeast
      <4>4. ~(f[i] < f[b])
        BY <4>3, RankerAssumption DEF Below
      <4> HIDE DEF f
      <4> QED
        BY <4>1, <4>2, <4>4
    <3> QED
      BY <3>1
  <2>6. CASE b \in ToSet(results)
    BY <2>1, <2>5, <2>6
  <2>7. CASE b \notin ToSet(results)
    <3>1. n > MaxResults
      <4>1. SUFFICES ASSUME n <= MaxResults PROVE FALSE
        BY <2>1, SomeRoom
      <4>2. b \in DOMAIN results /\ results[b] = b
        BY <1>1, <2>1, <4>1 DEF RankerInv, KeptTypes, AllKept
      <4> QED
        BY <2>7, <4>2 DEF ToSet
    <3>2. 1 \in DOMAIN results /\ 2 \in DOMAIN results /\ results[1] # results[2]
      BY <1>1, <3>1, SomeRoom DEF RankerInv, KeptTypes, LastKept, IsInjective
    <3>3. PICK k \in ToSet(results) : k # n
      <4>1. results[1] \in ToSet(results) /\ results[2] \in ToSet(results)
        BY <3>2 DEF ToSet
      <4>2. results[1] # n \/ results[2] # n
        BY <3>2, Zenon
      <4> QED
        BY <4>1, <4>2, Zenon
    <3>4. k \in 1..n
      BY <1>1, <2>1, <3>3 DEF RankerInv, KeptTypes, ToSet
    <3>5. answers[b].rank <= answers[k].rank
      <4>1. ~Below(answers[k].rank, answers[b].rank)
        BY <1>1, <2>1, <2>4, <2>7, <3>3 DEF RankerInv, BestKept
      <4>2. answers[k].rank \in Int /\ answers[b].rank \in Int
        BY <2>2, <2>4, <3>4
      <4> QED
        BY <4>1, <4>2, RankerAssumption DEF Below
    <3> QED
      <4>1. ASSUME NEW i \in 1..n PROVE answers[i].rank <= answers[k].rank
        <5>1. /\ answers[i].rank \in Int /\ answers[b].rank \in Int
              /\ answers[k].rank \in Int
          BY <2>2, <2>4, <3>4
        <5>2. answers[i].rank <= answers[b].rank
          BY <2>5
        <5> QED
          BY <3>5, <5>1, <5>2
      <4>2. Highest(k)
        BY <2>1, <4>1
      <4> QED
        BY <3>3, <4>2
  <2> QED
    BY <2>6, <2>7
<1>2. RankerInv => (answers # << >> => \E k \in ToSet(results) : Highest(k))
  BY <1>1
<1> QED
  BY <1>2, RankerInvInit, RankerInvStep, PTL DEF RankerSpec
=============================================================================
