--------------------------- MODULE HashTableProofs ---------------------------
(***************************************************************************)
(* Proofs about HashTable, for any keys, any hash values and any initial   *)
(* size: the operations keep the table sound, and show the dictionary it   *)
(* stands for.                                                             *)
(***************************************************************************)
EXTENDS HashTable, FiniteSetTheorems, SequenceTheorems, WellFoundedInduction, TLAPS

Bucket == [key : Keys, value : Seq(Locations)]

\* chains is a table of that size for hash function h, with n buckets.
ChainsSound(h, chains, size, n, met) ==
  /\ size \in Nat \ {0} /\ n \in Nat
  /\ chains \in [0..(size - 1) -> Seq(Bucket)]
  /\ IsFiniteSet(Places(chains)) /\ Cardinality(Places(chains)) = n
  /\ IsFiniteSet(InUse(chains)) /\ met = n - Cardinality(InUse(chains))
  /\ \A i \in 0..(size - 1) : \A j \in 1..Len(chains[i]) : h[chains[i][j].key] % size = i
  /\ \A i, m \in 0..(size - 1) : \A j \in 1..Len(chains[i]), l \in 1..Len(chains[m]) :
       chains[i][j].key = chains[m][l].key => i = m /\ j = l

\* The inductive invariant of the table.
TableInv ==
  /\ hash \in HashFunctions
  /\ \E i \in 0..tableSize : tableSize = PowerOfTwo[i]
  /\ ChainsSound(hash, buckets, tableSize, numberOfBuckets, collisions)

Holds(chains, b) == \E i \in DOMAIN chains : \E j \in 1..Len(chains[i]) : chains[i][j] = b

\* What Find shows of a table.
PlaceIn(chain, k) ==
  CHOOSE i \in 1..(Len(chain) + 1) :
    /\ i <= Len(chain) => chain[i].key = k
    /\ \A j \in 1..(i - 1) : chain[j].key # k
ContentOf(h, chains, size) ==
  [k \in {key \in Keys : PlaceIn(chains[h[key] % size], key) <= Len(chains[h[key] % size])} |->
     chains[h[k] % size][PlaceIn(chains[h[k] % size], k)].value]

-----------------------------------------------------------------------------
(* Induction and recursion on the natural numbers *)

\* A set of natural numbers with 0, and with the successor of each of its
\* elements, has them all.
LEMMA SetInduction ==
  ASSUME NEW S, S \subseteq Nat, 0 \in S, \A n \in S : n + 1 \in S
  PROVE  \A n \in Nat : n \in S
<1> DEFINE R == {p \in Nat \X Nat : p[1] < p[2]}
           T == Nat \ S
<1>1. SUFFICES ASSUME T # {} PROVE FALSE
  OBVIOUS
<1>2. IsWellFoundedOn(R, Nat)
  BY NatLessThanWellFounded, Zenon DEF OpToRel
<1> HIDE DEF R
<1>3. PICK n \in T : \A m \in T : <<m, n>> \notin R
  BY <1>1, <1>2, WFMin, Zenon
<1>4. n \in Nat /\ n # 0 /\ n - 1 \in Nat
  BY <1>3
<1>5. n - 1 \in S
  <2>1. n - 1 < n
    BY <1>4
  <2>2. <<n - 1, n>> \in R
    BY <1>4, <2>1 DEF R
  <2>3. n - 1 \notin T
    BY <1>3, <2>2
  <2> QED
    BY <1>4, <2>3
<1>6. (n - 1) + 1 = n
  BY <1>4
<1> QED
  BY <1>3, <1>5, <1>6

\* f begins with a and goes on with F, as far as n.
Follows(f, a, F, n) == \A i \in 0..n : f[i] = IF i = 0 THEN a ELSE F[<<f[i - 1], i>>]

LEMMA FollowsExists ==
  ASSUME NEW X, NEW a \in X, NEW F \in [X \X Nat -> X]
  PROVE  \A n \in Nat : \E f \in [0..n -> X] : Follows(f, a, F, n)
<1> DEFINE S == {n \in Nat : \E f \in [0..n -> X] : Follows(f, a, F, n)}
<1>1. 0 \in S
  <2> DEFINE f == [i \in 0..0 |-> a]
  <2>1. f \in [0..0 -> X] /\ Follows(f, a, F, 0)
    BY DEF Follows
  <2> HIDE DEF f
  <2> QED
    BY <2>1
<1>2. ASSUME NEW n \in S PROVE n + 1 \in S
  <2>1. PICK f \in [0..n -> X] : Follows(f, a, F, n)
    OBVIOUS
  <2> DEFINE g == [i \in 0..(n + 1) |-> IF i = n + 1 THEN F[<<f[n], n + 1>>] ELSE f[i]]
  <2>2. n \in Nat /\ n + 1 \in Nat /\ f[n] \in X
    OBVIOUS
  <2>3. F[<<f[n], n + 1>>] \in X
    BY <2>2
  <2>4. g \in [0..(n + 1) -> X]
    BY <2>2, <2>3
  <2>5. ASSUME NEW i \in 0..(n + 1)
        PROVE  g[i] = IF i = 0 THEN a ELSE F[<<g[i - 1], i>>]
    <3>1. CASE i = n + 1
      <4>1. i # 0 /\ i - 1 = n /\ n \in 0..(n + 1) /\ n # n + 1
        BY <2>2, <3>1
      <4>2. g[n] = f[n] /\ g[i] = F[<<f[n], i>>]
        BY <3>1, <4>1
      <4> QED
        BY <4>1, <4>2
    <3>2. CASE i # n + 1
      <4>1. i \in 0..n /\ g[i] = f[i]
        BY <2>2, <3>2
      <4>2. i # 0 => i - 1 \in 0..n /\ g[i - 1] = f[i - 1]
        BY <2>2, <3>2
      <4> QED
        BY <2>1, <4>1, <4>2 DEF Follows
    <3> QED
      BY <3>1, <3>2
  <2> HIDE DEF g
  <2>6. Follows(g, a, F, n + 1)
    BY <2>5 DEF Follows
  <2> QED
    BY <2>2, <2>4, <2>6
<1> HIDE DEF S
<1>3. \A n \in Nat : n \in S
  BY <1>1, <1>2, SetInduction DEF S
<1> QED
  BY <1>3 DEF S

LEMMA FollowsUnique ==
  ASSUME NEW a, NEW F, NEW f, NEW g, NEW n \in Nat, NEW m \in Nat,
         Follows(f, a, F, n), Follows(g, a, F, m)
  PROVE  \A k \in Nat : k <= n /\ k <= m => f[k] = g[k]
<1> DEFINE S == {k \in Nat : k <= n /\ k <= m => f[k] = g[k]}
<1>1. 0 \in S
  <2>1. 0 \in 0..n /\ 0 \in 0..m
    OBVIOUS
  <2>2. f[0] = a /\ g[0] = a
    BY <2>1, Zenon DEF Follows
  <2> QED
    BY <2>2
<1>2. ASSUME NEW k \in S PROVE k + 1 \in S
  <2>1. SUFFICES ASSUME k + 1 <= n, k + 1 <= m PROVE f[k + 1] = g[k + 1]
    OBVIOUS
  <2>2. k + 1 \in 0..n /\ k + 1 \in 0..m /\ k + 1 # 0 /\ (k + 1) - 1 = k /\ f[k] = g[k]
    BY <2>1
  <2> QED
    BY <2>2, ZenonT(30) DEF Follows
<1> HIDE DEF S
<1>3. \A k \in Nat : k \in S
  BY <1>1, <1>2, SetInduction DEF S
<1> QED
  BY <1>3 DEF S

\* The same without end.
Unfolds(f, a, F) == \A i \in Nat : f[i] = IF i = 0 THEN a ELSE F[<<f[i - 1], i>>]

\* What a recursive function on the natural numbers stands for is there.
LEMMA RecursionExists ==
  ASSUME NEW X, NEW a \in X, NEW F \in [X \X Nat -> X]
  PROVE  \E f \in [Nat -> X] : Unfolds(f, a, F)
<1> DEFINE upTo(n) == CHOOSE f \in [0..n -> X] : Follows(f, a, F, n)
           g == [n \in Nat |-> upTo(n)[n]]
<1>1. \A n \in Nat : upTo(n) \in [0..n -> X] /\ Follows(upTo(n), a, F, n)
  BY FollowsExists
<1> HIDE DEF upTo
<1>2. g \in [Nat -> X]
  BY <1>1
<1>3. ASSUME NEW i \in Nat PROVE g[i] = IF i = 0 THEN a ELSE F[<<g[i - 1], i>>]
  <2>1. upTo(i)[i] = IF i = 0 THEN a ELSE F[<<upTo(i)[i - 1], i>>]
    BY <1>1 DEF Follows
  <2>2. CASE i # 0
    <3>1. i - 1 \in Nat /\ i - 1 <= i
      BY <2>2
    <3>2. upTo(i)[i - 1] = upTo(i - 1)[i - 1]
      BY <1>1, <3>1, FollowsUnique
    <3> QED
      BY <2>1, <2>2, <3>1, <3>2
  <2> QED
    BY <2>1, <2>2
<1> HIDE DEF g
<1>4. Unfolds(g, a, F)
  BY <1>3 DEF Unfolds
<1> QED
  BY <1>2, <1>4

-----------------------------------------------------------------------------
(* Powers of two *)

LEMMA PowerFacts ==
  /\ PowerOfTwo[0] = 1
  /\ \A i \in Nat : PowerOfTwo[i + 1] = 2 * PowerOfTwo[i]
  /\ \A i \in Nat : PowerOfTwo[i] \in Nat /\ i < PowerOfTwo[i]
<1> DEFINE F == [x \in Nat \X Nat |-> 2 * x[1]]
           Is(f) == f = [i \in Nat |-> IF i = 0 THEN 1 ELSE 2 * f[i - 1]]
<1>1. F \in [Nat \X Nat -> Nat] /\ \A x, i \in Nat : F[<<x, i>>] = 2 * x
  OBVIOUS
<1> HIDE DEF F
<1>2. PICK f \in [Nat -> Nat] : Unfolds(f, 1, F)
  BY <1>1, RecursionExists
<1>3. ASSUME NEW i \in Nat PROVE f[i] = IF i = 0 THEN 1 ELSE 2 * f[i - 1]
  <2>1. i # 0 => i - 1 \in Nat /\ f[i - 1] \in Nat
    BY <1>2
  <2> QED
    BY <1>1, <1>2, <2>1 DEF Unfolds
<1>4. Is(f)
  BY <1>2, <1>3
<1>5. Is(PowerOfTwo)
  BY <1>4, Zenon DEF PowerOfTwo
<1>6. \A i \in Nat : PowerOfTwo[i] = IF i = 0 THEN 1 ELSE 2 * PowerOfTwo[i - 1]
  BY <1>5, Zenon
<1> HIDE DEF Is
<1>7. PowerOfTwo[0] = 1
  BY <1>6
<1>8. ASSUME NEW i \in Nat PROVE PowerOfTwo[i + 1] = 2 * PowerOfTwo[i]
  <2>1. i + 1 \in Nat /\ i + 1 # 0 /\ (i + 1) - 1 = i
    OBVIOUS
  <2> QED
    BY <1>6, <2>1
<1> DEFINE S == {i \in Nat : PowerOfTwo[i] \in Nat /\ i < PowerOfTwo[i]}
<1>9. \A i \in Nat : i \in S
  <2>1. 0 \in S
    BY <1>7
  <2>2. ASSUME NEW i \in S PROVE i + 1 \in S
    BY <1>8
  <2> HIDE DEF S
  <2> QED
    BY <2>1, <2>2, SetInduction DEF S
<1> QED
  BY <1>7, <1>8, <1>9

\* computeTwosPowCeiling returns a power of two.
LEMMA CeilingFacts ==
  ASSUME NEW num \in Nat
  PROVE  /\ TwosPowCeiling(num) \in Nat \ {0}
         /\ \E i \in 0..TwosPowCeiling(num) : TwosPowCeiling(num) = PowerOfTwo[i]
<1> DEFINE Enough(i) == num <= PowerOfTwo[i] /\ \A j \in 0..(i - 1) : PowerOfTwo[j] < num
           S == {i \in Nat : \A j \in 0..i : PowerOfTwo[j] < num}
<1>1. \E i \in 0..num : Enough(i)
  <2>1. SUFFICES ASSUME \A i \in 0..num : ~Enough(i) PROVE FALSE
    OBVIOUS
  <2>2. ASSUME NEW i \in Nat, i <= num, \A j \in 0..(i - 1) : PowerOfTwo[j] < num
        PROVE  \A j \in 0..i : PowerOfTwo[j] < num
    <3>1. PowerOfTwo[i] < num
      BY <2>1, <2>2, PowerFacts
    <3> QED
      BY <2>2, <3>1
  <2> DEFINE Q == {i \in Nat : i <= num => \A j \in 0..i : PowerOfTwo[j] < num}
  <2>3. 0 \in Q
    BY <2>2
  <2>4. ASSUME NEW i \in Q PROVE i + 1 \in Q
    BY <2>2
  <2> HIDE DEF Q
  <2>5. \A i \in Nat : i \in Q
    BY <2>3, <2>4, SetInduction DEF Q
  <2>6. PowerOfTwo[num] < num
    BY <2>5 DEF Q
  <2> QED
    BY <2>6, PowerFacts
<1> DEFINE least == CHOOSE i \in 0..num : Enough(i)
<1>2. least \in 0..num
  BY <1>1, Zenon
<1>3. TwosPowCeiling(num) = PowerOfTwo[least]
  BY Zenon DEF TwosPowCeiling
<1> HIDE DEF least
<1> QED
  BY <1>2, <1>3, PowerFacts

-----------------------------------------------------------------------------
(* Chains *)

LEMMA PlacesFacts ==
  ASSUME NEW size, NEW chains \in [0..(size - 1) -> Seq(Bucket)]
  PROVE  /\ \A p \in Places(chains) : /\ p = <<p[1], p[2]>>
                                        /\ p[1] \in 0..(size - 1)
                                        /\ p[2] \in 1..Len(chains[p[1]])
         /\ \A i, j : <<i, j>> \in Places(chains)
                       <=> i \in 0..(size - 1) /\ j \in 1..Len(chains[i])
<1>1. DOMAIN chains = 0..(size - 1)
  OBVIOUS
<1>2. ASSUME NEW p \in Places(chains)
      PROVE  p = <<p[1], p[2]>> /\ p[1] \in 0..(size - 1) /\ p[2] \in 1..Len(chains[p[1]])
  BY <1>1 DEF Places
<1>3. ASSUME NEW i \in 0..(size - 1), NEW j \in 1..Len(chains[i])
      PROVE  <<i, j>> \in Places(chains)
  BY <1>1 DEF Places
<1>4. ASSUME NEW i, NEW j, <<i, j>> \in Places(chains)
      PROVE  i \in 0..(size - 1) /\ j \in 1..Len(chains[i])
  BY <1>1, <1>4 DEF Places
<1> QED
  BY <1>2, <1>3, <1>4

\* A table without a bucket is sound.
LEMMA EmptiedSound ==
  ASSUME NEW size \in Nat \ {0}
  PROVE  /\ ChainsSound(hash, Emptied(size).chains, size, 0, Emptied(size).collisions)
         /\ Emptied(size) = [chains |-> Emptied(size).chains, collisions |-> 0]
         /\ \A b : ~Holds(Emptied(size).chains, b)
<1> DEFINE chains == [i \in 0..(size - 1) |-> << >>]
<1>1. Emptied(size).chains = chains /\ Emptied(size).collisions = 0
  BY DEF Emptied
<1>2. chains \in [0..(size - 1) -> Seq(Bucket)]
  BY EmptySeq
<1>3. \A i \in 0..(size - 1) : chains[i] = << >> /\ Len(chains[i]) = 0
  OBVIOUS
<1>4. DOMAIN chains = 0..(size - 1)
  OBVIOUS
<1> HIDE DEF chains
<1>5. Places(chains) = {} /\ InUse(chains) = {}
  BY <1>2, <1>3, <1>4, PlacesFacts DEF InUse
<1>6. ChainsSound(hash, chains, size, 0, 0)
  BY <1>2, <1>3, <1>5, FS_EmptySet DEF ChainsSound
<1>7. \A b : ~Holds(chains, b)
  BY <1>3, <1>4 DEF Holds
<1> QED
  BY <1>1, <1>6, <1>7 DEF Emptied

\* A bucket with a new key keeps a table sound when it goes to the end of its
\* chain, and is the one bucket more.
LEMMA PutLastSound ==
  ASSUME hash \in HashFunctions, NEW chains, NEW size, NEW n, NEW met,
         ChainsSound(hash, chains, size, n, met),
         NEW b \in Bucket, \A x : Holds(chains, x) => x.key # b.key
  PROVE  LET table == PutLast([chains |-> chains, collisions |-> met], size, b)
         IN  /\ ChainsSound(hash, table.chains, size, n + 1, table.collisions)
             /\ \A x : Holds(table.chains, x) <=> Holds(chains, x) \/ x = b
<1> DEFINE i0 == hash[b.key] % size
           new == [chains EXCEPT ![i0] = Append(chains[i0], b)]
           last == Len(chains[i0]) + 1
           met1 == met + IF chains[i0] = << >> THEN 0 ELSE 1
           table == PutLast([chains |-> chains, collisions |-> met], size, b)
<1>1. table.chains = new /\ table.collisions = met1
  BY DEF PutLast
<1>2. size \in Nat \ {0} /\ n \in Nat /\ chains \in [0..(size - 1) -> Seq(Bucket)]
  BY DEF ChainsSound
<1>3. b.key \in Keys /\ hash[b.key] \in Nat
  BY TableAssumption DEF Bucket
<1>4. i0 \in 0..(size - 1)
  BY <1>2, <1>3
<1> HIDE DEF i0, table
<1>5. chains[i0] \in Seq(Bucket) /\ Len(chains[i0]) \in Nat
  BY <1>2, <1>4
<1>6. /\ new \in [0..(size - 1) -> Seq(Bucket)]
      /\ \A i \in 0..(size - 1) : i # i0 => new[i] = chains[i]
      /\ new[i0] = Append(chains[i0], b)
  BY <1>2, <1>4, <1>5
<1>7. /\ Len(new[i0]) = last
      /\ new[i0][last] = b
      /\ \A j \in 1..Len(chains[i0]) : new[i0][j] = chains[i0][j]
  BY <1>5, <1>6
<1>8. DOMAIN new = 0..(size - 1) /\ DOMAIN chains = 0..(size - 1)
  BY <1>2, <1>6
<1> HIDE DEF new
<1>9. ASSUME NEW i \in 0..(size - 1), NEW j \in 1..Len(new[i])
      PROVE  \/ i = i0 /\ j = last /\ new[i][j] = b
             \/ j \in 1..Len(chains[i]) /\ new[i][j] = chains[i][j]
  <2>1. CASE i = i0
    BY <1>5, <1>7, <2>1
  <2>2. CASE i # i0
    BY <1>6, <2>2
  <2> QED
    BY <2>1, <2>2
<1>10. ASSUME NEW i \in 0..(size - 1), NEW j \in 1..Len(chains[i])
       PROVE  j \in 1..Len(new[i]) /\ new[i][j] = chains[i][j]
  <2>1. CASE i = i0
    BY <1>5, <1>7, <2>1
  <2>2. CASE i # i0
    BY <1>6, <2>2
  <2> QED
    BY <2>1, <2>2
<1>11. last \in 1..Len(new[i0])
  BY <1>5, <1>7
<1>12. ASSUME NEW x PROVE Holds(new, x) <=> Holds(chains, x) \/ x = b
  <2>1. Holds(new, x) => Holds(chains, x) \/ x = b
    BY <1>8, <1>9 DEF Holds
  <2>2. Holds(chains, x) => Holds(new, x)
    BY <1>8, <1>10 DEF Holds
  <2>3. Holds(new, b)
    BY <1>4, <1>7, <1>8, <1>11 DEF Holds
  <2> QED
    BY <2>1, <2>2, <2>3
<1>13. IsFiniteSet(Places(new)) /\ Cardinality(Places(new)) = n + 1
  <2>1. <<i0, last>> \notin Places(chains)
    BY <1>2, <1>5, PlacesFacts
  <2>2. Places(new) = Places(chains) \cup {<<i0, last>>}
    <3>1. ASSUME NEW p \in Places(new) PROVE p \in Places(chains) \cup {<<i0, last>>}
      <4>1. p = <<p[1], p[2]>> /\ p[1] \in 0..(size - 1) /\ p[2] \in 1..Len(new[p[1]])
        BY <1>6, PlacesFacts
      <4>2. CASE p[1] = i0 /\ p[2] = last
        BY <4>1, <4>2
      <4>3. CASE p[2] \in 1..Len(chains[p[1]])
        <5>1. <<p[1], p[2]>> \in Places(chains)
          BY <1>2, <4>1, <4>3, PlacesFacts
        <5> QED
          BY <4>1, <5>1
      <4> QED
        BY <1>9, <4>1, <4>2, <4>3
    <3>2. ASSUME NEW p \in Places(chains) PROVE p \in Places(new)
      <4>1. p = <<p[1], p[2]>> /\ p[1] \in 0..(size - 1) /\ p[2] \in 1..Len(chains[p[1]])
        BY <1>2, PlacesFacts
      <4>2. p[2] \in 1..Len(new[p[1]])
        BY <1>10, <4>1
      <4>3. <<p[1], p[2]>> \in Places(new)
        BY <1>6, <4>1, <4>2, PlacesFacts
      <4> QED
        BY <4>1, <4>3
    <3>3. <<i0, last>> \in Places(new)
      BY <1>4, <1>6, <1>11, PlacesFacts
    <3> QED
      BY <3>1, <3>2, <3>3
  <2>3. IsFiniteSet(Places(chains)) /\ Cardinality(Places(chains)) = n
    BY DEF ChainsSound
  <2> QED
    BY <2>1, <2>2, <2>3, FS_AddElement
<1>14. IsFiniteSet(InUse(new)) /\ met1 = (n + 1) - Cardinality(InUse(new))
  <2>1. InUse(new) = InUse(chains) \cup {i0}
    <3>1. new[i0] # << >>
      BY <1>5, <1>7
    <3> QED
      BY <1>4, <1>6, <1>8, <3>1 DEF InUse
  <2>2. i0 \in InUse(chains) <=> chains[i0] # << >>
    BY <1>4, <1>8 DEF InUse
  <2>3. IsFiniteSet(InUse(chains)) /\ met = n - Cardinality(InUse(chains))
    BY DEF ChainsSound
  <2>4. Cardinality(InUse(chains)) \in Nat
    BY <2>3, FS_CardinalityType
  <2>5. /\ IsFiniteSet(InUse(new))
        /\ Cardinality(InUse(new)) = IF i0 \in InUse(chains) THEN Cardinality(InUse(chains))
                                     ELSE Cardinality(InUse(chains)) + 1
    BY <2>1, <2>3, FS_AddElement
  <2>6. CASE chains[i0] = << >>
    BY <1>2, <2>2, <2>3, <2>4, <2>5, <2>6
  <2>7. CASE chains[i0] # << >>
    BY <1>2, <2>2, <2>3, <2>4, <2>5, <2>7
  <2> QED
    BY <2>6, <2>7
<1>15. ASSUME NEW i \in 0..(size - 1), NEW j \in 1..Len(new[i])
       PROVE  hash[new[i][j].key] % size = i
  <2>1. CASE i = i0 /\ new[i][j] = b
    BY <2>1 DEF i0
  <2>2. CASE j \in 1..Len(chains[i]) /\ new[i][j] = chains[i][j]
    BY <2>2 DEF ChainsSound
  <2> QED
    BY <1>9, <2>1, <2>2
<1>16. ASSUME NEW i \in 0..(size - 1), NEW m \in 0..(size - 1),
              NEW j \in 1..Len(new[i]), NEW l \in 1..Len(new[m]),
              new[i][j].key = new[m][l].key
       PROVE  i = m /\ j = l
  <2>1. ASSUME NEW q \in 0..(size - 1), NEW r \in 1..Len(chains[q])
        PROVE  chains[q][r].key # b.key
    BY <1>8 DEF Holds
  <2>2. CASE j \in 1..Len(chains[i]) /\ new[i][j] = chains[i][j]
             /\ l \in 1..Len(chains[m]) /\ new[m][l] = chains[m][l]
    <3>1. chains[i][j].key = chains[m][l].key
      BY <1>16, <2>2
    <3>2. \A q, r \in 0..(size - 1) : \A t \in 1..Len(chains[q]), u \in 1..Len(chains[r]) :
            chains[q][t].key = chains[r][u].key => q = r /\ t = u
      BY DEF ChainsSound
    <3> QED
      BY <2>2, <3>1, <3>2, SMTT(30)
  <2>3. CASE i = i0 /\ j = last /\ new[i][j] = b
    <3>1. new[m][l].key = b.key
      BY <1>16, <2>3
    <3>2. ~(l \in 1..Len(chains[m]) /\ new[m][l] = chains[m][l])
      BY <2>1, <3>1
    <3>3. m = i0 /\ l = last
      BY <1>9, <3>2
    <3> QED
      BY <2>3, <3>3
  <2>4. CASE m = i0 /\ l = last /\ new[m][l] = b
    <3>1. new[i][j].key = b.key
      BY <1>16, <2>4
    <3>2. ~(j \in 1..Len(chains[i]) /\ new[i][j] = chains[i][j])
      BY <2>1, <3>1
    <3>3. i = i0 /\ j = last
      BY <1>9, <3>2
    <3> QED
      BY <2>4, <3>3
  <2> QED
    BY <1>9, <2>2, <2>3, <2>4
<1> HIDE DEF last, met1
<1>17. ChainsSound(hash, new, size, n + 1, met1)
  BY <1>2, <1>6, <1>13, <1>14, <1>15, <1>16 DEF ChainsSound
<1> QED
  BY <1>1, <1>12, <1>17 DEF table

-----------------------------------------------------------------------------
(* Optimize *)

\* No two buckets of flat have the same key.
KeysDiffer(flat) == \A i, j \in 1..Len(flat) : flat[i].key = flat[j].key => i = j

\* The buckets that are put one by one into an empty table make a sound one.
LEMMA RehashedSound ==
  ASSUME hash \in HashFunctions, NEW size \in Nat \ {0},
         NEW flat \in Seq(Bucket), KeysDiffer(flat)
  PROVE  LET table == Rehashed(flat, size)
         IN  /\ ChainsSound(hash, table.chains, size, Len(flat), table.collisions)
             /\ \A b : Holds(table.chains, b) <=> \E i \in 1..Len(flat) : flat[i] = b
<1> DEFINE Tables == [chains : [0..(size - 1) -> Seq(Bucket)], collisions : Int]
           N == Len(flat)
           F == [x \in Tables \X Nat |-> IF x[2] \in 1..N THEN PutLast(x[1], size, flat[x[2]])
                                         ELSE x[1]]
           Is(f) == f = [n \in 0..N |-> IF n = 0 THEN Emptied(size)
                                        ELSE PutLast(f[n - 1], size, flat[n])]
<1>1. N \in Nat /\ \A i \in 1..N : flat[i] \in Bucket
  OBVIOUS
<1> HIDE DEF N
<1>2. Emptied(size) \in Tables
  BY EmptySeq DEF Emptied
<1>3. ASSUME NEW t \in Tables, NEW b \in Bucket PROVE PutLast(t, size, b) \in Tables
  <2>1. hash[b.key] % size \in 0..(size - 1)
    BY TableAssumption DEF Bucket
  <2>2. Append(t.chains[hash[b.key] % size], b) \in Seq(Bucket)
    BY <2>1
  <2> QED
    BY <2>1, <2>2 DEF PutLast
<1> HIDE DEF Tables
<1>4. F \in [Tables \X Nat -> Tables]
  BY <1>1, <1>3
<1>5. \A t \in Tables : \A i \in 1..N : F[<<t, i>>] = PutLast(t, size, flat[i])
  BY <1>1
<1> HIDE DEF F
<1>6. PICK f \in [0..N -> Tables] : Follows(f, Emptied(size), F, N)
  BY <1>1, <1>2, <1>4, FollowsExists
<1>7. ASSUME NEW n \in 0..N
      PROVE  f[n] = IF n = 0 THEN Emptied(size) ELSE PutLast(f[n - 1], size, flat[n])
  <2>1. n # 0 => n - 1 \in 0..N /\ n \in 1..N
    BY <1>1
  <2> QED
    BY <1>5, <1>6, <2>1 DEF Follows
<1>8. Is(f)
  BY <1>6, <1>7
<1> DEFINE g == CHOOSE g : Is(g)
<1>9. Is(g)
  BY <1>8, Zenon
<1>10. Rehashed(flat, size) = g[N]
  BY Zenon DEF Rehashed, N
<1>11. g[0] = Emptied(size) /\ \A n \in 1..N : g[n] = PutLast(g[n - 1], size, flat[n])
  BY <1>1, <1>9
<1> HIDE DEF g
<1> DEFINE Good(n) == /\ g[n] = [chains |-> g[n].chains, collisions |-> g[n].collisions]
                      /\ ChainsSound(hash, g[n].chains, size, n, g[n].collisions)
                      /\ \A b : Holds(g[n].chains, b) <=> \E i \in 1..n : flat[i] = b
           S == {n \in Nat : n <= N => Good(n)}
<1>12. 0 \in S
  BY <1>11, EmptiedSound
<1>13. ASSUME NEW n \in S PROVE n + 1 \in S
  <2>1. SUFFICES ASSUME n + 1 <= N PROVE Good(n + 1)
    OBVIOUS
  <2>2. n \in Nat /\ n + 1 \in 1..N /\ n <= N /\ (n + 1) - 1 = n /\ Good(n)
    <3> HIDE DEF Good
    <3> QED
      BY <1>1, <2>1
  <2> DEFINE chains == g[n].chains
             met == g[n].collisions
             b == flat[n + 1]
             table == PutLast([chains |-> chains, collisions |-> met], size, b)
  <2>3. g[n + 1] = table
    BY <1>11, <2>2
  <2>4. b \in Bucket
    BY <1>1, <2>2
  <2>5. ASSUME NEW x, Holds(chains, x) PROVE x.key # b.key
    <3>1. \E i \in 1..n : flat[i] = x
      <4>1. Holds(chains, x) <=> \E i \in 1..n : flat[i] = x
        BY <2>2, Zenon
      <4> QED
        BY <2>5, <4>1, Zenon
    <3>2. PICK i \in 1..n : flat[i] = x
      BY <3>1
    <3>3. i \in 1..N /\ i # n + 1
      <4>1. N \in Nat /\ n \in Nat /\ n <= N
        BY <1>1, <2>2
      <4> QED
        BY <4>1
    <3> QED
      BY <2>2, <3>2, <3>3 DEF KeysDiffer, N
  <2>6. /\ ChainsSound(hash, table.chains, size, n + 1, table.collisions)
        /\ \A x : Holds(table.chains, x) <=> Holds(chains, x) \/ x = b
    BY <2>2, <2>4, <2>5, PutLastSound
  <2>7. table = [chains |-> table.chains, collisions |-> table.collisions]
    BY DEF PutLast
  <2> HIDE DEF table
  <2>8. ASSUME NEW x
        PROVE  Holds(table.chains, x) <=> \E i \in 1..(n + 1) : flat[i] = x
    <3>1. Holds(table.chains, x) <=> (\E i \in 1..n : flat[i] = x) \/ flat[n + 1] = x
      BY <2>2, <2>6
    <3>2. 1..(n + 1) = (1..n) \cup {n + 1}
      BY <2>2
    <3> QED
      BY <3>1, <3>2
  <2> QED
    BY <2>3, <2>6, <2>7, <2>8
<1> HIDE DEF Good, S
<1>14. \A n \in Nat : n \in S
  BY <1>12, <1>13, SetInduction DEF S
<1>15. Good(N)
  BY <1>1, <1>14 DEF S
<1> QED
  BY <1>10, <1>15 DEF Good, N

\* The chains in front of the i-th hold the places Below(chains, i).
Below(chains, i) == {p \in Places(chains) : p[1] < i}

LEMMA BelowMore ==
  ASSUME NEW h, NEW chains, NEW size, NEW n, NEW met,
         ChainsSound(h, chains, size, n, met), NEW i \in 0..(size - 1)
  PROVE  /\ IsFiniteSet(Below(chains, i)) /\ Cardinality(Below(chains, i)) \in 0..n
         /\ Cardinality(Below(chains, i)) = n => Len(chains[i]) = 0
         /\ Cardinality(Below(chains, i + 1)) = Cardinality(Below(chains, i)) + Len(chains[i])
<1>1. size \in Nat \ {0} /\ n \in Nat /\ chains \in [0..(size - 1) -> Seq(Bucket)]
  BY DEF ChainsSound
<1>2. IsFiniteSet(Places(chains)) /\ Cardinality(Places(chains)) = n
  BY DEF ChainsSound
<1> DEFINE own == {i} \X (1..Len(chains[i]))
<1>3. i \in Nat /\ chains[i] \in Seq(Bucket) /\ Len(chains[i]) \in Nat
  BY <1>1
<1>4. Below(chains, i) \subseteq Places(chains)
  BY DEF Below
<1>5. /\ IsFiniteSet(Below(chains, i)) /\ Cardinality(Below(chains, i)) <= n
      /\ Cardinality(Below(chains, i)) = n => Below(chains, i) = Places(chains)
  BY <1>2, <1>4, FS_Subset
<1>6. Cardinality(Below(chains, i)) \in 0..n
  BY <1>1, <1>5, FS_CardinalityType
<1>7. ASSUME Below(chains, i) = Places(chains) PROVE Len(chains[i]) = 0
  <2>1. SUFFICES ASSUME Len(chains[i]) # 0 PROVE FALSE
    OBVIOUS
  <2>2. <<i, 1>> \in Places(chains)
    BY <1>1, <1>3, <2>1, PlacesFacts, SMTT(30)
  <2>3. <<i, 1>> \notin Below(chains, i)
    BY <1>3 DEF Below
  <2> QED
    BY <1>7, <2>2, <2>3
<1>8. Below(chains, i + 1) = Below(chains, i) \cup own
  <2>1. ASSUME NEW p \in Below(chains, i + 1) PROVE p \in Below(chains, i) \cup own
    <3>1. p \in Places(chains) /\ p[1] < i + 1
      BY DEF Below
    <3>2. p = <<p[1], p[2]>> /\ p[1] \in 0..(size - 1) /\ p[2] \in 1..Len(chains[p[1]])
      BY <1>1, <3>1, PlacesFacts
    <3>3. p[1] < i \/ p[1] = i
      BY <1>3, <3>1, <3>2
    <3>4. CASE p[1] = i
      BY <3>2, <3>4
    <3> QED
      BY <3>1, <3>3, <3>4 DEF Below
  <2>2. ASSUME NEW p \in Below(chains, i) PROVE p \in Below(chains, i + 1)
    <3>1. p \in Places(chains) /\ p[1] < i
      BY DEF Below
    <3>2. p[1] \in 0..(size - 1)
      BY <1>1, <3>1, PlacesFacts
    <3> QED
      BY <1>3, <3>1, <3>2 DEF Below
  <2>3. ASSUME NEW p \in own PROVE p \in Below(chains, i + 1)
    <3>1. p = <<i, p[2]>> /\ p[1] = i /\ p[2] \in 1..Len(chains[i])
      OBVIOUS
    <3>2. <<i, p[2]>> \in Places(chains)
      BY <1>1, <3>1, PlacesFacts
    <3> QED
      BY <1>3, <3>1, <3>2 DEF Below
  <2> QED
    BY <2>1, <2>2, <2>3
<1>9. Below(chains, i) \cap own = {}
  <2>1. ASSUME NEW p \in own PROVE p \notin Below(chains, i)
    <3>1. p[1] = i
      OBVIOUS
    <3>2. ~(p[1] < i)
      BY <1>3, <3>1
    <3> QED
      BY <3>2 DEF Below
  <2> QED
    BY <2>1
<1>10. IsFiniteSet(own) /\ Cardinality(own) = Len(chains[i])
  <2>1. IsFiniteSet({i}) /\ Cardinality({i}) = 1
    BY FS_Singleton
  <2>2. IsFiniteSet(1..Len(chains[i])) /\ Cardinality(1..Len(chains[i])) = Len(chains[i])
    <3>1. \A m \in Nat : IsFiniteSet(1..m) /\ Cardinality(1..m) = m
      BY FS_Interval
    <3> QED
      BY <1>3, <3>1
  <2>3. IsFiniteSet(own) /\ Cardinality(own) = Cardinality({i}) * Cardinality(1..Len(chains[i]))
    BY <2>1, <2>2, FS_Product
  <2> QED
    BY <1>3, <2>1, <2>2, <2>3
<1> HIDE DEF own
<1>11. Cardinality(Below(chains, i + 1))
         = Cardinality(Below(chains, i)) + Cardinality(own) - Cardinality({})
  BY <1>5, <1>8, <1>9, <1>10, FS_Union
<1>12. Cardinality({}) = 0
  BY FS_EmptySet
<1> QED
  BY <1>3, <1>5, <1>6, <1>7, <1>10, <1>11, <1>12

LEMMA ConcatParts ==
  ASSUME NEW s \in Seq(Bucket), NEW t \in Seq(Bucket)
  PROVE  /\ s \o t \in Seq(Bucket) /\ Len(s) \in Nat /\ Len(t) \in Nat
         /\ Len(s \o t) = Len(s) + Len(t)
         /\ \A m \in 1..Len(s) : (s \o t)[m] = s[m]
         /\ \A j \in 1..Len(t) : (s \o t)[Len(s) + j] = t[j]
<1>1. s \o t \in Seq(Bucket) /\ Len(s) \in Nat /\ Len(t) \in Nat
  BY ConcatProperties
<1>2. Len(s \o t) = Len(s) + Len(t)
  OBVIOUS
<1>3. ASSUME NEW m \in 1..Len(s) PROVE (s \o t)[m] = s[m]
  OBVIOUS
<1>4. ASSUME NEW j \in 1..Len(t) PROVE (s \o t)[Len(s) + j] = t[j]
  OBVIOUS
<1> QED
  BY <1>1, <1>2, <1>3, <1>4

\* flattenHashTable returns every bucket of the table, each once, although it
\* stops when it has met numberOfBuckets.
LEMMA FlattenedFacts ==
  ASSUME NEW h, ChainsSound(h, buckets, tableSize, numberOfBuckets, collisions)
  PROVE  /\ Flattened \in Seq(Bucket)
         /\ Len(Flattened) = numberOfBuckets
         /\ KeysDiffer(Flattened)
         /\ \A b : Holds(buckets, b) <=> \E i \in 1..Len(Flattened) : Flattened[i] = b
<1> DEFINE More(s, i) == IF Len(s) < numberOfBuckets THEN buckets[i - 1] ELSE << >>
           F == [x \in Seq(Bucket) \X Nat |->
                   IF x[2] \in 1..tableSize THEN x[1] \o More(x[1], x[2]) ELSE x[1]]
           Is(f) == f = [i \in 0..tableSize |->
                           IF i = 0 THEN << >> ELSE f[i - 1] \o More(f[i - 1], i)]
<1>1. /\ tableSize \in Nat \ {0} /\ numberOfBuckets \in Nat
      /\ buckets \in [0..(tableSize - 1) -> Seq(Bucket)]
  BY DEF ChainsSound
<1>18. \A i, m \in 0..(tableSize - 1) :
         \A j \in 1..Len(buckets[i]), l \in 1..Len(buckets[m]) :
           buckets[i][j].key = buckets[m][l].key => i = m /\ j = l
  BY DEF ChainsSound
<1>2. /\ \A i \in 1..tableSize : i - 1 \in 0..(tableSize - 1) /\ buckets[i - 1] \in Seq(Bucket)
      /\ << >> \in Seq(Bucket)
  BY <1>1, EmptySeq
<1>3. F \in [Seq(Bucket) \X Nat -> Seq(Bucket)]
  <2>1. ASSUME NEW s \in Seq(Bucket), NEW i \in 1..tableSize
        PROVE  s \o More(s, i) \in Seq(Bucket)
    <3>1. More(s, i) \in Seq(Bucket)
      BY <1>2
    <3> HIDE DEF More
    <3> QED
      BY <3>1, ConcatProperties
  <2> HIDE DEF More
  <2> QED
    BY <2>1
<1>4. \A s \in Seq(Bucket) : \A i \in 1..tableSize :
        F[<<s, i>>] = s \o More(s, i)
  <2> HIDE DEF More
  <2>1. ASSUME NEW s \in Seq(Bucket), NEW i \in 1..tableSize
        PROVE  F[<<s, i>>] = s \o More(s, i)
    <3>1. <<s, i>> \in Seq(Bucket) \X Nat /\ <<s, i>>[1] = s /\ <<s, i>>[2] = i
      OBVIOUS
    <3> QED
      BY <3>1, Zenon
  <2> QED
    BY <2>1
<1> HIDE DEF F, More
<1>5. PICK f \in [0..tableSize -> Seq(Bucket)] : Follows(f, << >>, F, tableSize)
  BY <1>1, <1>2, <1>3, FollowsExists
<1>6. Is(f)
  <2>1. ASSUME NEW i \in 0..tableSize
        PROVE  f[i] = IF i = 0 THEN << >> ELSE f[i - 1] \o More(f[i - 1], i)
    <3>1. i # 0 => i - 1 \in 0..tableSize /\ i \in 1..tableSize
      BY <1>1
    <3> QED
      BY <1>4, <1>5, <3>1 DEF Follows
  <2> QED
    BY <1>5, <2>1
<1> DEFINE g == CHOOSE g : Is(g)
<1>7. Is(g)
  BY <1>6, Zenon
<1>8. Flattened = g[tableSize]
  BY Zenon DEF Flattened, More
<1>19. \A i \in 0..tableSize : g[i] = IF i = 0 THEN << >> ELSE g[i - 1] \o More(g[i - 1], i)
  BY <1>7, Zenon
<1> HIDE DEF g, Is
<1>9. g[0] = << >>
  <2>1. 0 \in 0..tableSize
    BY <1>1
  <2> QED
    BY <1>19, <2>1, Zenon
<1>10. \A i \in 1..tableSize : g[i] = g[i - 1] \o More(g[i - 1], i)
  <2>1. ASSUME NEW i \in 1..tableSize PROVE i \in 0..tableSize /\ i # 0
    OBVIOUS
  <2> QED
    BY <1>19, <2>1
<1> DEFINE Good(i) ==
             /\ g[i] \in Seq(Bucket) /\ Len(g[i]) = Cardinality(Below(buckets, i))
             /\ \A m \in 1..Len(g[i]) : \E p \in Below(buckets, i) : g[i][m] = buckets[p[1]][p[2]]
             /\ \A p \in Below(buckets, i) : \E m \in 1..Len(g[i]) : g[i][m] = buckets[p[1]][p[2]]
             /\ KeysDiffer(g[i])
           S == {i \in Nat : i <= tableSize => Good(i)}
<1>11. 0 \in S
  <2>1. Below(buckets, 0) = {}
    BY <1>1, PlacesFacts DEF Below
  <2>2. g[0] \in Seq(Bucket) /\ Len(g[0]) = 0 /\ Cardinality(Below(buckets, 0)) = 0
    BY <1>2, <1>9, <2>1, FS_EmptySet
  <2> QED
    BY <2>1, <2>2 DEF KeysDiffer
<1>12. ASSUME NEW i \in S PROVE i + 1 \in S
  <2>1. SUFFICES ASSUME i + 1 <= tableSize PROVE Good(i + 1)
    <3> HIDE DEF Good
    <3> QED
      OBVIOUS
  <2>2. i \in 0..(tableSize - 1) /\ i + 1 \in 1..tableSize /\ (i + 1) - 1 = i /\ i <= tableSize
    BY <1>1, <2>1
  <2>3. Good(i)
    BY <2>2
  <2>4. g[i] \in Seq(Bucket) /\ Len(g[i]) = Cardinality(Below(buckets, i)) /\ KeysDiffer(g[i])
    BY <2>3
  <2>5. g[i + 1] = g[i] \o IF Len(g[i]) < numberOfBuckets THEN buckets[i] ELSE << >>
    <3>1. g[i + 1] = g[i] \o More(g[i], i + 1)
      BY <1>10, <2>2
    <3> QED
      BY <2>2, <3>1 DEF More
  <2>6. /\ Cardinality(Below(buckets, i)) \in 0..numberOfBuckets
        /\ Cardinality(Below(buckets, i)) = numberOfBuckets => Len(buckets[i]) = 0
        /\ Cardinality(Below(buckets, i + 1)) = Cardinality(Below(buckets, i)) + Len(buckets[i])
    BY <2>2, BelowMore
  <2>7. buckets[i] \in Seq(Bucket)
    BY <1>1, <2>2
  <2>8. g[i + 1] = g[i] \o buckets[i]
    <3>1. CASE Len(g[i]) < numberOfBuckets
      BY <2>5, <3>1
    <3>2. CASE ~(Len(g[i]) < numberOfBuckets)
      <4>1. Len(buckets[i]) = 0
        BY <1>1, <2>4, <2>6, <3>2
      <4>2. buckets[i] = << >>
        BY <2>7, <4>1, EmptySeq
      <4> QED
        BY <2>5, <3>2, <4>2
    <3> QED
      BY <3>1, <3>2
  <2> DEFINE new == g[i] \o buckets[i]
             from == Len(g[i])
  <2>9. /\ new \in Seq(Bucket) /\ from \in Nat /\ Len(buckets[i]) \in Nat
        /\ Len(new) = from + Len(buckets[i])
        /\ \A m \in 1..from : new[m] = g[i][m]
        /\ \A j \in 1..Len(buckets[i]) : new[from + j] = buckets[i][j]
    BY <2>4, <2>7, ConcatParts, Zenon
  <2> HIDE DEF new, from
  <2>10. ASSUME NEW m \in 1..Len(new)
         PROVE  \/ m \in 1..from /\ new[m] = g[i][m]
                \/ \E j \in 1..Len(buckets[i]) : m = from + j /\ new[m] = buckets[i][j]
    <3>1. CASE m <= from
      BY <2>9, <3>1
    <3>2. CASE m > from
      <4>1. m - from \in 1..Len(buckets[i]) /\ m = from + (m - from)
        BY <2>9, <3>2
      <4> QED
        BY <2>9, <4>1
    <3> QED
      BY <2>9, <3>1, <3>2
  <2>11. \A p \in Below(buckets, i + 1) :
           \/ p \in Below(buckets, i)
           \/ p[1] = i /\ p[2] \in 1..Len(buckets[i])
    <3>1. ASSUME NEW p \in Below(buckets, i + 1), p \notin Below(buckets, i)
          PROVE  p[1] = i /\ p[2] \in 1..Len(buckets[i])
      <4>1. p \in Places(buckets) /\ p[1] < i + 1 /\ ~(p[1] < i)
        BY <3>1 DEF Below
      <4>2. p[1] \in 0..(tableSize - 1) /\ p[2] \in 1..Len(buckets[p[1]])
        BY <1>1, <4>1, PlacesFacts
      <4>3. p[1] = i
        BY <2>2, <4>1, <4>2
      <4> QED
        BY <4>2, <4>3
    <3> QED
      BY <3>1
  <2>12. \A p \in Below(buckets, i) : p \in Below(buckets, i + 1)
    <3>1. ASSUME NEW p \in Below(buckets, i) PROVE p \in Below(buckets, i + 1)
      <4>1. p \in Places(buckets) /\ p[1] < i
        BY DEF Below
      <4>2. p[1] \in 0..(tableSize - 1)
        BY <1>1, <4>1, PlacesFacts
      <4> QED
        BY <2>2, <4>1, <4>2 DEF Below
    <3> QED
      BY <3>1
  <2>13. \A j \in 1..Len(buckets[i]) : <<i, j>> \in Below(buckets, i + 1)
    <3>1. ASSUME NEW j \in 1..Len(buckets[i]) PROVE <<i, j>> \in Below(buckets, i + 1)
      <4>1. <<i, j>> \in Places(buckets)
        BY <1>1, <2>2, PlacesFacts
      <4>2. <<i, j>>[1] < i + 1
        <5>1. i < i + 1
          BY <2>2
        <5> QED
          BY <5>1
      <4> QED
        BY <4>1, <4>2 DEF Below
    <3> QED
      BY <3>1
  <2>14. ASSUME NEW m \in 1..Len(new)
         PROVE  \E p \in Below(buckets, i + 1) : new[m] = buckets[p[1]][p[2]]
    <3>1. CASE m \in 1..from /\ new[m] = g[i][m]
      BY <2>3, <2>12, <3>1 DEF from
    <3>2. ASSUME NEW j \in 1..Len(buckets[i]), m = from + j, new[m] = buckets[i][j]
          PROVE  \E p \in Below(buckets, i + 1) : new[m] = buckets[p[1]][p[2]]
      <4>1. <<i, j>>[1] = i /\ <<i, j>>[2] = j
        OBVIOUS
      <4> QED
        BY <2>13, <3>2, <4>1
    <3> QED
      BY <2>10, <3>1, <3>2
  <2>15. ASSUME NEW p \in Below(buckets, i + 1)
         PROVE  \E m \in 1..Len(new) : new[m] = buckets[p[1]][p[2]]
    <3>1. CASE p \in Below(buckets, i)
      <4>1. PICK m \in 1..from : g[i][m] = buckets[p[1]][p[2]]
        BY <2>3, <3>1 DEF from
      <4>2. m \in 1..Len(new)
        BY <2>9
      <4> QED
        BY <2>9, <4>1, <4>2
    <3>2. CASE p[1] = i /\ p[2] \in 1..Len(buckets[i])
      <4>1. from + p[2] \in 1..Len(new)
        BY <2>9, <3>2
      <4> QED
        BY <2>9, <3>2, <4>1
    <3> QED
      BY <2>11, <3>1, <3>2
  <2>16. KeysDiffer(new)
    <3>1. ASSUME NEW m \in 1..from, NEW j \in 1..Len(buckets[i])
          PROVE  new[m].key # buckets[i][j].key
      <4>1. PICK p \in Below(buckets, i) : g[i][m] = buckets[p[1]][p[2]]
        BY <2>3 DEF from
      <4>2. p \in Places(buckets) /\ p[1] < i
        BY DEF Below
      <4>3. p[1] \in 0..(tableSize - 1) /\ p[2] \in 1..Len(buckets[p[1]])
        BY <1>1, <4>2, PlacesFacts
      <4>4. p[1] # i
        BY <2>2, <4>2, <4>3
      <4>5. buckets[p[1]][p[2]].key # buckets[i][j].key
        BY <1>18, <2>2, <4>3, <4>4
      <4> QED
        BY <2>9, <4>1, <4>5
    <3>2. ASSUME NEW m \in 1..Len(new), NEW l \in 1..Len(new), new[m].key = new[l].key
          PROVE  m = l
      <4>1. CASE m \in 1..from /\ new[m] = g[i][m] /\ l \in 1..from /\ new[l] = g[i][l]
        BY <2>4, <3>2, <4>1 DEF KeysDiffer, from
      <4>2. ASSUME NEW j \in 1..Len(buckets[i]), m = from + j, new[m] = buckets[i][j],
                   NEW q \in 1..Len(buckets[i]), l = from + q, new[l] = buckets[i][q]
            PROVE  m = l
        <5>1. buckets[i][j].key = buckets[i][q].key
          BY <3>2, <4>2
        <5> QED
          BY <1>18, <2>2, <4>2, <5>1
      <4>3. ASSUME NEW j \in 1..Len(buckets[i]), m = from + j, new[m] = buckets[i][j],
                   l \in 1..from
            PROVE  FALSE
        BY <3>1, <3>2, <4>3
      <4>4. ASSUME NEW j \in 1..Len(buckets[i]), l = from + j, new[l] = buckets[i][j],
                   m \in 1..from
            PROVE  FALSE
        BY <3>1, <3>2, <4>4
      <4> QED
        BY <2>10, <4>1, <4>2, <4>3, <4>4
    <3> QED
      BY <3>2 DEF KeysDiffer
  <2>17. Len(new) = Cardinality(Below(buckets, i + 1))
    BY <2>4, <2>6, <2>9 DEF from
  <2>18. g[i + 1] = new
    BY <2>8 DEF new
  <2> QED
    BY <2>9, <2>14, <2>15, <2>16, <2>17, <2>18
<1>13. \A i \in Nat : i \in S
  <2> HIDE DEF S
  <2> QED
    BY <1>11, <1>12, SetInduction DEF S
<1>14. Good(tableSize)
  <2> HIDE DEF Good
  <2> QED
    BY <1>1, <1>13
<1>15. Below(buckets, tableSize) = Places(buckets)
  <2>1. \A p \in Places(buckets) : p[1] \in 0..(tableSize - 1)
    BY <1>1, PlacesFacts
  <2> QED
    BY <1>1, <2>1 DEF Below
<1>16. Cardinality(Places(buckets)) = numberOfBuckets
  BY DEF ChainsSound
<1>17. ASSUME NEW b PROVE Holds(buckets, b) <=> \E m \in 1..Len(Flattened) : Flattened[m] = b
  <2>1. ASSUME Holds(buckets, b) PROVE \E m \in 1..Len(Flattened) : Flattened[m] = b
    <3>1. DOMAIN buckets = 0..(tableSize - 1)
      BY <1>1
    <3>2. PICK i \in 0..(tableSize - 1) : \E j \in 1..Len(buckets[i]) : buckets[i][j] = b
      BY <2>1, <3>1 DEF Holds
    <3>3. PICK j \in 1..Len(buckets[i]) : buckets[i][j] = b
      BY <3>2
    <3>4. <<i, j>> \in Below(buckets, tableSize) /\ <<i, j>>[1] = i /\ <<i, j>>[2] = j
      BY <1>1, <1>15, PlacesFacts
    <3> QED
      BY <1>8, <1>14, <3>3, <3>4
  <2>2. ASSUME NEW m \in 1..Len(Flattened), Flattened[m] = b PROVE Holds(buckets, b)
    <3>1. PICK p \in Places(buckets) : b = buckets[p[1]][p[2]]
      BY <1>8, <1>14, <1>15, <2>2
    <3>2. p[1] \in 0..(tableSize - 1) /\ p[2] \in 1..Len(buckets[p[1]])
      BY <1>1, PlacesFacts
    <3>3. DOMAIN buckets = 0..(tableSize - 1)
      BY <1>1
    <3> QED
      BY <3>1, <3>2, <3>3 DEF Holds
  <2> QED
    BY <2>1, <2>2
<1> QED
  BY <1>8, <1>14, <1>15, <1>16, <1>17

-----------------------------------------------------------------------------
(* What Find shows *)

\* helperFind stops at the key, or behind a chain without it.
LEMMA PlaceInFacts ==
  ASSUME NEW chain \in Seq(Bucket), NEW k
  PROVE  /\ PlaceIn(chain, k) \in 1..(Len(chain) + 1)
         /\ PlaceIn(chain, k) <= Len(chain) => chain[PlaceIn(chain, k)].key = k
         /\ \A j \in 1..Len(chain) : chain[j].key = k => PlaceIn(chain, k) <= Len(chain)
<1> DEFINE Stops(i) == /\ i <= Len(chain) => chain[i].key = k
                       /\ \A j \in 1..(i - 1) : chain[j].key # k
           n == Len(chain)
<1>1. n \in Nat
  OBVIOUS
<1> HIDE DEF n
<1>2. \E i \in 1..(n + 1) : Stops(i)
  <2>1. SUFFICES ASSUME \A i \in 1..(n + 1) : ~Stops(i) PROVE FALSE
    OBVIOUS
  <2> DEFINE S == {i \in Nat : i <= n => \A j \in 1..i : chain[j].key # k}
  <2>2. 0 \in S
    OBVIOUS
  <2>3. ASSUME NEW i \in S PROVE i + 1 \in S
    <3>1. SUFFICES ASSUME i + 1 <= n PROVE \A j \in 1..(i + 1) : chain[j].key # k
      OBVIOUS
    <3>2. /\ i \in Nat /\ i + 1 \in 1..(n + 1) /\ (i + 1) - 1 = i /\ i <= n
          /\ \A j \in 1..i : chain[j].key # k
      BY <1>1, <3>1
    <3>3. chain[i + 1].key # k
      BY <2>1, <3>1, <3>2 DEF n
    <3> QED
      BY <3>2, <3>3
  <2> HIDE DEF S
  <2>4. \A i \in Nat : i \in S
    BY <2>2, <2>3, SetInduction DEF S
  <2>5. \A j \in 1..n : chain[j].key # k
    BY <1>1, <2>4 DEF S
  <2>6. n + 1 \in 1..(n + 1) /\ ~(n + 1 <= n) /\ (n + 1) - 1 = n
    BY <1>1
  <2> QED
    BY <2>1, <2>5, <2>6 DEF n
<1>3. PlaceIn(chain, k) = CHOOSE i \in 1..(n + 1) : Stops(i)
  BY Zenon DEF PlaceIn, n
<1>4. PlaceIn(chain, k) \in 1..(n + 1) /\ Stops(PlaceIn(chain, k))
  BY <1>2, <1>3, Zenon
<1>5. ASSUME NEW j \in 1..n, chain[j].key = k PROVE PlaceIn(chain, k) <= n
  BY <1>1, <1>4, <1>5
<1> QED
  BY <1>4, <1>5 DEF n

\* Find shows each bucket of a sound table, and nothing else.
LEMMA ContentFacts ==
  ASSUME NEW h \in HashFunctions, NEW chains, NEW size, NEW n, NEW met,
         ChainsSound(h, chains, size, n, met)
  PROVE  LET c == ContentOf(h, chains, size)
         IN  /\ c = [k \in DOMAIN c |-> c[k]]
             /\ DOMAIN c \subseteq Keys
             /\ \A k \in DOMAIN c : \E b \in Bucket : Holds(chains, b) /\ b.key = k
             /\ \A b : Holds(chains, b) =>
                  b \in Bucket /\ b.key \in DOMAIN c /\ c[b.key] = b.value
<1> DEFINE c == ContentOf(h, chains, size)
           ch(k) == chains[h[k] % size]
<1>1. /\ size \in Nat \ {0} /\ chains \in [0..(size - 1) -> Seq(Bucket)]
      /\ DOMAIN chains = 0..(size - 1)
  BY DEF ChainsSound
<1>2. ASSUME NEW k \in Keys PROVE h[k] % size \in 0..(size - 1) /\ ch(k) \in Seq(Bucket)
  <2>1. h[k] \in Nat
    BY TableAssumption
  <2>2. h[k] % size \in 0..(size - 1)
    BY <1>1, <2>1
  <2> QED
    BY <1>1, <2>2
<1>3. /\ DOMAIN c = {k \in Keys : PlaceIn(ch(k), k) <= Len(ch(k))}
      /\ \A k \in DOMAIN c : c[k] = ch(k)[PlaceIn(ch(k), k)].value
      /\ c = [k \in DOMAIN c |-> c[k]]
  BY DEF ContentOf
<1> HIDE DEF c, ch
<1>4. ASSUME NEW k \in DOMAIN c PROVE \E b \in Bucket : Holds(chains, b) /\ b.key = k
  <2>1. k \in Keys /\ PlaceIn(ch(k), k) <= Len(ch(k))
    BY <1>3
  <2>2. ch(k) \in Seq(Bucket)
    BY <1>2, <2>1
  <2> DEFINE j == PlaceIn(ch(k), k)
  <2>3. j \in 1..(Len(ch(k)) + 1) /\ ch(k)[j].key = k
    BY <2>1, <2>2, PlaceInFacts
  <2>4. j \in 1..Len(ch(k))
    BY <2>1, <2>2, <2>3
  <2> HIDE DEF j
  <2>5. ch(k)[j] \in Bucket
    BY <2>2, <2>4
  <2>6. Holds(chains, ch(k)[j])
    BY <1>1, <1>2, <2>1, <2>4 DEF Holds, ch
  <2> QED
    BY <2>3, <2>5, <2>6 DEF j
<1>5. ASSUME NEW b, Holds(chains, b)
      PROVE  b \in Bucket /\ b.key \in DOMAIN c /\ c[b.key] = b.value
  <2>1. PICK i \in 0..(size - 1) : \E j \in 1..Len(chains[i]) : chains[i][j] = b
    BY <1>1, <1>5 DEF Holds
  <2>2. PICK j \in 1..Len(chains[i]) : chains[i][j] = b
    BY <2>1
  <2>3. chains[i] \in Seq(Bucket) /\ b \in Bucket
    BY <1>1, <2>2
  <2>4. b.key \in Keys /\ h[b.key] % size = i
    BY <2>2, <2>3 DEF Bucket, ChainsSound
  <2>5. ch(b.key) = chains[i]
    BY <2>4 DEF ch
  <2> DEFINE l == PlaceIn(chains[i], b.key)
  <2>6. l \in 1..(Len(chains[i]) + 1) /\ l <= Len(chains[i]) /\ chains[i][l].key = b.key
    BY <2>2, <2>3, PlaceInFacts
  <2>7. l \in 1..Len(chains[i])
    BY <2>3, <2>6
  <2> HIDE DEF l
  <2>8. l = j
    BY <2>2, <2>6, <2>7, SMTT(30) DEF ChainsSound
  <2> QED
    BY <1>3, <2>2, <2>3, <2>4, <2>5, <2>6, <2>8 DEF l
<1> QED
  BY <1>3, <1>4, <1>5 DEF c

\* Two sound tables with the same buckets show the same.
LEMMA SameContent ==
  ASSUME NEW h \in HashFunctions,
         NEW chains, NEW size, NEW n, NEW met, ChainsSound(h, chains, size, n, met),
         NEW chains1, NEW size1, NEW n1, NEW met1, ChainsSound(h, chains1, size1, n1, met1),
         \A b : Holds(chains1, b) <=> Holds(chains, b)
  PROVE  ContentOf(h, chains1, size1) = ContentOf(h, chains, size)
<1> DEFINE c == ContentOf(h, chains, size)
           c1 == ContentOf(h, chains1, size1)
<1>1. /\ c = [k \in DOMAIN c |-> c[k]]
      /\ \A k \in DOMAIN c : \E b \in Bucket : Holds(chains, b) /\ b.key = k
      /\ \A b : Holds(chains, b) => b.key \in DOMAIN c /\ c[b.key] = b.value
  BY ContentFacts
<1>2. /\ c1 = [k \in DOMAIN c1 |-> c1[k]]
      /\ \A k \in DOMAIN c1 : \E b \in Bucket : Holds(chains1, b) /\ b.key = k
      /\ \A b : Holds(chains1, b) => b.key \in DOMAIN c1 /\ c1[b.key] = b.value
  BY ContentFacts
<1> HIDE DEF c, c1
<1>3. ASSUME NEW k \in DOMAIN c PROVE k \in DOMAIN c1 /\ c1[k] = c[k]
  BY <1>1, <1>2
<1>4. ASSUME NEW k \in DOMAIN c1 PROVE k \in DOMAIN c
  BY <1>1, <1>2
<1>5. c1 = c
  BY <1>1, <1>2, <1>3, <1>4
<1> QED
  BY <1>5 DEF c, c1

\* A sound table in which bucket b takes the place of the one with its key, if
\* there was one, shows the value of b for this key.
LEMMA ContentAdds ==
  ASSUME NEW h \in HashFunctions,
         NEW chains, NEW size, NEW n, NEW met, ChainsSound(h, chains, size, n, met),
         NEW chains1, NEW size1, NEW n1, NEW met1, ChainsSound(h, chains1, size1, n1, met1),
         NEW b, \A x : Holds(chains1, x) <=> (Holds(chains, x) /\ x.key # b.key) \/ x = b
  PROVE  LET c == ContentOf(h, chains, size)
         IN  ContentOf(h, chains1, size1)
               = [k \in DOMAIN c \cup {b.key} |-> IF k = b.key THEN b.value ELSE c[k]]
<1> DEFINE c == ContentOf(h, chains, size)
           c1 == ContentOf(h, chains1, size1)
<1>1. /\ \A k \in DOMAIN c : \E x \in Bucket : Holds(chains, x) /\ x.key = k
      /\ \A x : Holds(chains, x) => x.key \in DOMAIN c /\ c[x.key] = x.value
  BY ContentFacts
<1>2. /\ c1 = [k \in DOMAIN c1 |-> c1[k]]
      /\ \A k \in DOMAIN c1 : \E x \in Bucket : Holds(chains1, x) /\ x.key = k
      /\ \A x : Holds(chains1, x) => x.key \in DOMAIN c1 /\ c1[x.key] = x.value
  BY ContentFacts
<1> HIDE DEF c, c1
<1>3. b.key \in DOMAIN c1 /\ c1[b.key] = b.value
  BY <1>2
<1>4. ASSUME NEW k \in DOMAIN c, k # b.key PROVE k \in DOMAIN c1 /\ c1[k] = c[k]
  <2>1. PICK x \in Bucket : Holds(chains, x) /\ x.key = k
    BY <1>1
  <2>2. Holds(chains1, x)
    BY <1>4, <2>1
  <2> QED
    BY <1>1, <1>2, <2>1, <2>2
<1>5. ASSUME NEW k \in DOMAIN c1, k # b.key PROVE k \in DOMAIN c
  <2>1. PICK x \in Bucket : Holds(chains1, x) /\ x.key = k
    BY <1>2
  <2>2. Holds(chains, x)
    BY <1>5, <2>1
  <2> QED
    BY <1>1, <2>1, <2>2
<1>6. DOMAIN c1 = DOMAIN c \cup {b.key}
  BY <1>3, <1>4, <1>5
<1>7. c1 = [k \in DOMAIN c \cup {b.key} |-> IF k = b.key THEN b.value ELSE c[k]]
  BY <1>2, <1>3, <1>4, <1>6
<1> QED
  BY <1>7 DEF c, c1

-----------------------------------------------------------------------------
(* The operations *)

LEMMA ContentIs == Content = ContentOf(hash, buckets, tableSize)
BY DEF Content, ContentOf, Found, ValueOf, HelperFind, Chain, IndexOf, PlaceIn

\* The invariant is as strong as what is promised of the table.
LEMMA InvIsSound == TableInv => TableSound
<1> SUFFICES ASSUME TableInv PROVE TableSound
  OBVIOUS
<1>1. ChainsSound(hash, buckets, tableSize, numberOfBuckets, collisions)
  BY DEF TableInv
<1>2. /\ tableSize \in Nat \ {0} /\ buckets \in [0..(tableSize - 1) -> Seq(Bucket)]
      /\ DOMAIN buckets = 0..(tableSize - 1)
  BY <1>1 DEF ChainsSound
<1>3. ASSUME NEW p \in Places(buckets)
      PROVE  KeyAt(p) \in Keys /\ IndexOf(KeyAt(p)) = p[1]
  <2>1. p[1] \in 0..(tableSize - 1) /\ p[2] \in 1..Len(buckets[p[1]])
    BY <1>2, PlacesFacts
  <2>2. buckets[p[1]][p[2]] \in Bucket
    BY <1>2, <2>1
  <2> QED
    BY <1>1, <2>1, <2>2 DEF ChainsSound, KeyAt, IndexOf, Bucket
<1>4. ASSUME NEW p \in Places(buckets), NEW q \in Places(buckets), KeyAt(p) = KeyAt(q)
      PROVE  p = q
  <2>1. /\ p[1] \in 0..(tableSize - 1) /\ p[2] \in 1..Len(buckets[p[1]])
        /\ q[1] \in 0..(tableSize - 1) /\ q[2] \in 1..Len(buckets[q[1]])
        /\ p = <<p[1], p[2]>> /\ q = <<q[1], q[2]>>
    BY <1>2, PlacesFacts
  <2>2. p[1] = q[1] /\ p[2] = q[2]
    BY <1>1, <1>4, <2>1 DEF ChainsSound, KeyAt
  <2> QED
    BY <2>1, <2>2
<1> QED
  BY <1>1, <1>2, <1>3, <1>4 DEF TableInv, TableSound, ChainsSound

\* A new table is sound, and shows nothing.
LEMMA TableInitSound == TableInit => TableInv /\ Promise!Init
<1> SUFFICES ASSUME TableInit PROVE TableInv /\ Promise!Init
  OBVIOUS
<1>1. /\ hash \in HashFunctions /\ tableSize = TwosPowCeiling(InitialSize)
      /\ buckets = Emptied(tableSize).chains /\ numberOfBuckets = 0 /\ collisions = 0
  BY DEF TableInit
<1>2. InitialSize \in Nat
  BY TableAssumption
<1>3. tableSize \in Nat \ {0} /\ \E i \in 0..tableSize : tableSize = PowerOfTwo[i]
  BY <1>1, <1>2, CeilingFacts
<1>4. /\ ChainsSound(hash, buckets, tableSize, numberOfBuckets, collisions)
      /\ \A b : ~Holds(buckets, b)
  <2>1. Emptied(tableSize).collisions = 0
    BY DEF Emptied
  <2> QED
    BY <1>1, <1>3, <2>1, EmptiedSound
<1>5. TableInv
  BY <1>1, <1>3, <1>4 DEF TableInv
<1> DEFINE c == ContentOf(hash, buckets, tableSize)
<1>6. /\ c = [k \in DOMAIN c |-> c[k]]
      /\ \A k \in DOMAIN c : \E b \in Bucket : Holds(buckets, b) /\ b.key = k
  BY <1>1, <1>4, ContentFacts
<1> HIDE DEF c
<1>7. DOMAIN c = {}
  BY <1>4, <1>6
<1>8. c = << >>
  BY <1>6, <1>7
<1> QED
  BY <1>5, <1>8, ContentIs DEF Promise!Init, c

\* Find(k) returns an entry exactly when k is shown, and its value.
LEMMA FoundShown ==
  ASSUME NEW k \in Keys
  PROVE  /\ Found(k) <=> k \in DOMAIN Content
         /\ Found(k) => ValueOf(k) = Content[k]
BY DEF Content

\* What Dictionary says of an addition, with the content it leaves.
LEMMA AddedContent ==
  ASSUME NEW k, NEW loc, NEW content, NEW value,
         value = IF k \in DOMAIN Content THEN Append(Content[k], loc) ELSE <<loc>>,
         content = [key \in DOMAIN Content \cup {k} |-> IF key = k THEN value ELSE Content[key]]
  PROVE  Content' = content => Promise!Add(k, loc)
<1>1. value = Append(Promise!Posts(k), loc)
  <2>1. Append(<< >>, loc) = <<loc>>
    OBVIOUS
  <2> QED
    BY <2>1 DEF Promise!Posts
<1> QED
  BY <1>1 DEF Promise!Add

\* Find(k, value) for a key without an entry keeps the table sound.
LEMMA AddEntrySound ==
  ASSUME TableInv, NEW k \in Keys, NEW loc \in Locations, AddEntry(k, loc)
  PROVE  TableInv' /\ Promise!Add(k, loc)
<1> DEFINE b == [key |-> k, value |-> <<loc>>]
           added == PutLast([chains |-> buckets, collisions |-> collisions], tableSize, b)
           c == ContentOf(hash, buckets, tableSize)
<1>1. /\ hash \in HashFunctions /\ \E i \in 0..tableSize : tableSize = PowerOfTwo[i]
      /\ ChainsSound(hash, buckets, tableSize, numberOfBuckets, collisions)
  BY DEF TableInv
<1>2. /\ ~Found(k) /\ buckets' = added.chains /\ collisions' = added.collisions
      /\ numberOfBuckets' = numberOfBuckets + 1 /\ hash' = hash /\ tableSize' = tableSize
  BY DEF AddEntry
<1>3. b \in Bucket /\ b.key = k /\ b.value = <<loc>>
  BY DEF Bucket
<1> HIDE DEF b
<1>4. c = Content
  BY ContentIs
<1> HIDE DEF c
<1>5. k \notin DOMAIN c
  BY <1>2, <1>4, FoundShown
<1>6. ASSUME NEW x, Holds(buckets, x) PROVE x.key # b.key
  BY <1>1, <1>3, <1>5, <1>6, ContentFacts DEF c
<1>7. /\ ChainsSound(hash, added.chains, tableSize, numberOfBuckets + 1, added.collisions)
      /\ \A x : Holds(added.chains, x) <=> Holds(buckets, x) \/ x = b
  BY <1>1, <1>3, <1>6, PutLastSound
<1> HIDE DEF added
<1>8. TableInv'
  BY <1>1, <1>2, <1>7 DEF TableInv
<1>9. \A x : Holds(added.chains, x) <=> (Holds(buckets, x) /\ x.key # b.key) \/ x = b
  BY <1>6, <1>7
<1>10. ContentOf(hash, added.chains, tableSize)
         = [key \in DOMAIN c \cup {k} |-> IF key = k THEN <<loc>> ELSE c[key]]
  BY <1>1, <1>3, <1>7, <1>9, ContentAdds DEF c
<1>11. Content' = ContentOf(hash, added.chains, tableSize)
  <2>1. Content' = ContentOf(hash', buckets', tableSize')
    BY DEF Content, ContentOf, Found, ValueOf, HelperFind, Chain, IndexOf, PlaceIn
  <2> QED
    BY <1>2, <2>1
<1>12. Promise!Add(k, loc)
  BY <1>4, <1>5, <1>10, <1>11, AddedContent
<1> QED
  BY <1>8, <1>12

\* A post for the list of an entry keeps the table sound.
LEMMA AddToEntrySound ==
  ASSUME TableInv, NEW k \in Keys, NEW loc \in Locations, AddToEntry(k, loc)
  PROVE  TableInv' /\ Promise!Add(k, loc)
<1> DEFINE i0 == IndexOf(k)
           j0 == HelperFind(k)
           old == buckets[i0][j0]
           b == [old EXCEPT !.value = Append(old.value, loc)]
           chain == [buckets[i0] EXCEPT ![j0] = b]
           new == [buckets EXCEPT ![i0] = chain]
           c == ContentOf(hash, buckets, tableSize)
<1>1. /\ hash \in HashFunctions /\ \E i \in 0..tableSize : tableSize = PowerOfTwo[i]
      /\ ChainsSound(hash, buckets, tableSize, numberOfBuckets, collisions)
  BY DEF TableInv
<1>2. /\ Found(k) /\ hash' = hash /\ tableSize' = tableSize
      /\ numberOfBuckets' = numberOfBuckets /\ collisions' = collisions
  BY DEF AddToEntry
<1>3. buckets' = new
  BY DEF AddToEntry
<1>4. /\ tableSize \in Nat \ {0} /\ buckets \in [0..(tableSize - 1) -> Seq(Bucket)]
      /\ DOMAIN buckets = 0..(tableSize - 1)
  BY <1>1 DEF ChainsSound
<1>5. hash[k] \in Nat
  BY <1>1, TableAssumption
<1>6. i0 \in 0..(tableSize - 1)
  BY <1>4, <1>5 DEF IndexOf
<1>7. buckets[i0] \in Seq(Bucket) /\ Len(buckets[i0]) \in Nat
  BY <1>4, <1>6
<1>8. j0 = PlaceIn(buckets[i0], k) /\ j0 <= Len(buckets[i0])
  BY <1>2 DEF HelperFind, Chain, PlaceIn, Found
<1> HIDE DEF i0, j0
<1>9. j0 \in 1..Len(buckets[i0]) /\ old.key = k
  <2>1. j0 \in 1..(Len(buckets[i0]) + 1) /\ old.key = k
    BY <1>7, <1>8, PlaceInFacts
  <2> QED
    BY <1>7, <1>8, <2>1
<1>10. old \in Bucket
  BY <1>7, <1>9
<1> HIDE DEF old
<1>11. b.key = k /\ b.value = Append(old.value, loc) /\ b \in Bucket
  BY <1>9, <1>10 DEF Bucket
<1> HIDE DEF b
<1>12. /\ chain \in Seq(Bucket) /\ Len(chain) = Len(buckets[i0])
       /\ chain[j0] = b
       /\ \A j \in 1..Len(buckets[i0]) : j # j0 => chain[j] = buckets[i0][j]
  BY <1>7, <1>9, <1>11
<1> HIDE DEF chain
<1>13. /\ new \in [0..(tableSize - 1) -> Seq(Bucket)] /\ DOMAIN new = 0..(tableSize - 1)
       /\ new[i0] = chain
       /\ \A i \in 0..(tableSize - 1) : i # i0 => new[i] = buckets[i]
  BY <1>4, <1>6, <1>12
<1> HIDE DEF new
<1>14. ASSUME NEW i \in 0..(tableSize - 1)
       PROVE  Len(new[i]) = Len(buckets[i]) /\ (new[i] = << >> <=> buckets[i] = << >>)
  <2>1. new[i] \in Seq(Bucket) /\ buckets[i] \in Seq(Bucket)
    BY <1>4, <1>13
  <2>2. Len(new[i]) = Len(buckets[i])
    BY <1>12, <1>13
  <2> QED
    BY <2>1, <2>2, EmptySeq
<1>15. ASSUME NEW i \in 0..(tableSize - 1), NEW j \in 1..Len(buckets[i])
       PROVE  /\ new[i][j].key = buckets[i][j].key
              /\ i = i0 /\ j = j0 => new[i][j] = b /\ buckets[i][j] = old
              /\ ~(i = i0 /\ j = j0) => new[i][j] = buckets[i][j]
  <2>1. CASE i = i0 /\ j = j0
    BY <1>9, <1>11, <1>12, <1>13, <2>1 DEF old
  <2>2. CASE i = i0 /\ j # j0
    BY <1>12, <1>13, <2>2
  <2>3. CASE i # i0
    BY <1>13, <2>3
  <2> QED
    BY <2>1, <2>2, <2>3
<1>16. Places(new) = Places(buckets)
  BY <1>4, <1>13, <1>14 DEF Places
<1>17. InUse(new) = InUse(buckets)
  BY <1>4, <1>13, <1>14 DEF InUse
<1>18. ASSUME NEW i \in 0..(tableSize - 1), NEW j \in 1..Len(new[i])
       PROVE  hash[new[i][j].key] % tableSize = i
  <2>1. j \in 1..Len(buckets[i])
    BY <1>14
  <2>2. hash[buckets[i][j].key] % tableSize = i
    BY <1>1, <2>1 DEF ChainsSound
  <2> QED
    BY <1>15, <2>1, <2>2
<1>19. ASSUME NEW i \in 0..(tableSize - 1), NEW m \in 0..(tableSize - 1),
              NEW j \in 1..Len(new[i]), NEW l \in 1..Len(new[m]),
              new[i][j].key = new[m][l].key
       PROVE  i = m /\ j = l
  <2>1. j \in 1..Len(buckets[i]) /\ l \in 1..Len(buckets[m])
    BY <1>14
  <2>2. buckets[i][j].key = buckets[m][l].key
    BY <1>15, <1>19, <2>1
  <2> QED
    BY <1>1, <2>1, <2>2, SMTT(30) DEF ChainsSound
<1>20. ChainsSound(hash, new, tableSize, numberOfBuckets, collisions)
  BY <1>1, <1>13, <1>16, <1>17, <1>18, <1>19 DEF ChainsSound
<1>21. TableInv'
  BY <1>1, <1>2, <1>3, <1>20 DEF TableInv
<1>22. Holds(buckets, old)
  BY <1>4, <1>6, <1>9, <1>15 DEF Holds
<1>23. ASSUME NEW x
       PROVE  Holds(new, x) <=> (Holds(buckets, x) /\ x.key # b.key) \/ x = b
  <2>1. ASSUME Holds(new, x), x # b PROVE Holds(buckets, x) /\ x.key # b.key
    <3>1. PICK i \in 0..(tableSize - 1) : \E j \in 1..Len(new[i]) : new[i][j] = x
      BY <1>13, <2>1 DEF Holds
    <3>2. PICK j \in 1..Len(new[i]) : new[i][j] = x
      BY <3>1
    <3>3. j \in 1..Len(buckets[i])
      BY <1>14
    <3>4. ~(i = i0 /\ j = j0) /\ buckets[i][j] = x
      BY <1>15, <2>1, <3>2, <3>3
    <3>5. x.key # k
      <4>1. SUFFICES ASSUME x.key = k PROVE FALSE
        OBVIOUS
      <4>2. buckets[i0][j0].key = k
        BY <1>6, <1>9, <1>15
      <4>3. buckets[i0][j0].key = buckets[i][j].key
        BY <3>4, <4>1, <4>2
      <4>4. i0 = i /\ j0 = j
        <5>1. \A q, r \in 0..(tableSize - 1) :
                \A t \in 1..Len(buckets[q]), u \in 1..Len(buckets[r]) :
                  buckets[q][t].key = buckets[r][u].key => q = r /\ t = u
          BY <1>1 DEF ChainsSound
        <5> QED
          BY <1>6, <1>9, <3>3, <4>3, <5>1
      <4> QED
        BY <3>4, <4>4
    <3> QED
      BY <1>4, <1>11, <3>3, <3>4, <3>5 DEF Holds
  <2>2. ASSUME Holds(buckets, x), x.key # k PROVE Holds(new, x)
    <3>1. PICK i \in 0..(tableSize - 1) : \E j \in 1..Len(buckets[i]) : buckets[i][j] = x
      BY <1>4, <2>2 DEF Holds
    <3>2. PICK j \in 1..Len(buckets[i]) : buckets[i][j] = x
      BY <3>1
    <3>3. ~(i = i0 /\ j = j0)
      BY <1>9, <1>15, <2>2, <3>2
    <3>4. j \in 1..Len(new[i]) /\ new[i][j] = x
      BY <1>14, <1>15, <3>2, <3>3
    <3> QED
      BY <1>13, <3>4 DEF Holds
  <2>3. Holds(new, b)
    <3>1. j0 \in 1..Len(new[i0]) /\ new[i0][j0] = b
      BY <1>6, <1>9, <1>14, <1>15
    <3> QED
      BY <1>6, <1>13, <3>1 DEF Holds
  <2> QED
    BY <1>11, <2>1, <2>2, <2>3
<1>24. c = Content
  BY ContentIs
<1>25. k \in DOMAIN c /\ c[k] = old.value
  BY <1>1, <1>9, <1>22, ContentFacts
<1>26. ContentOf(hash, new, tableSize)
         = [key \in DOMAIN c \cup {k} |-> IF key = k THEN Append(c[k], loc) ELSE c[key]]
  <2>1. ContentOf(hash, new, tableSize)
          = [key \in DOMAIN c \cup {b.key} |-> IF key = b.key THEN b.value ELSE c[key]]
    <3>1. \A x : Holds(new, x) <=> (Holds(buckets, x) /\ x.key # b.key) \/ x = b
      BY <1>23
    <3>2. /\ hash \in HashFunctions
          /\ ChainsSound(hash, buckets, tableSize, numberOfBuckets, collisions)
      BY <1>1
    <3> QED
      BY <1>20, <3>1, <3>2, ContentAdds
  <2> HIDE DEF c
  <2>2. b.key = k /\ b.value = Append(c[k], loc)
    BY <1>11, <1>25
  <2> QED
    BY <2>1, <2>2, Zenon
<1>27. Content' = ContentOf(hash, new, tableSize)
  <2>1. Content' = ContentOf(hash', buckets', tableSize')
    BY DEF Content, ContentOf, Found, ValueOf, HelperFind, Chain, IndexOf, PlaceIn
  <2> QED
    BY <1>2, <1>3, <2>1
<1> HIDE DEF c
<1>28. Promise!Add(k, loc)
  BY <1>24, <1>25, <1>26, <1>27, AddedContent
<1> QED
  BY <1>21, <1>28

\* The two ways of adding a post.
LEMMA AddSound ==
  ASSUME TableInv, NEW k \in Keys, NEW loc \in Locations, Add(k, loc)
  PROVE  TableInv' /\ Promise!Add(k, loc)
BY AddEntrySound, AddToEntrySound DEF Add

\* Optimize keeps the table sound, and every entry.
LEMMA OptimizeSound ==
  ASSUME TableInv, Optimize
  PROVE  TableInv' /\ Content' = Content
<1> DEFINE size == TwosPowCeiling(2 * numberOfBuckets)
           flat == Flattened
           table == Rehashed(flat, size)
<1>1. /\ hash \in HashFunctions
      /\ ChainsSound(hash, buckets, tableSize, numberOfBuckets, collisions)
  BY DEF TableInv
<1>2. /\ tableSize' = size /\ buckets' = table.chains /\ collisions' = table.collisions
      /\ hash' = hash /\ numberOfBuckets' = numberOfBuckets
  BY DEF Optimize
<1>3. 2 * numberOfBuckets \in Nat
  BY <1>1 DEF ChainsSound
<1>4. size \in Nat \ {0} /\ \E i \in 0..size : size = PowerOfTwo[i]
  BY <1>3, CeilingFacts
<1>5. /\ flat \in Seq(Bucket) /\ Len(flat) = numberOfBuckets /\ KeysDiffer(flat)
      /\ \A b : Holds(buckets, b) <=> \E i \in 1..Len(flat) : flat[i] = b
  BY <1>1, FlattenedFacts
<1> HIDE DEF size, flat
<1>6. /\ ChainsSound(hash, table.chains, size, Len(flat), table.collisions)
      /\ \A b : Holds(table.chains, b) <=> \E i \in 1..Len(flat) : flat[i] = b
  BY <1>1, <1>4, <1>5, RehashedSound
<1> HIDE DEF table
<1>7. TableInv'
  BY <1>1, <1>2, <1>4, <1>5, <1>6 DEF TableInv
<1>8. \A b : Holds(table.chains, b) <=> Holds(buckets, b)
  BY <1>5, <1>6, Zenon
<1>9. ContentOf(hash, table.chains, size) = ContentOf(hash, buckets, tableSize)
  BY <1>1, <1>6, <1>8, SameContent
<1>10. Content' = ContentOf(hash', buckets', tableSize')
  BY DEF Content, ContentOf, Found, ValueOf, HelperFind, Chain, IndexOf, PlaceIn
<1> QED
  BY <1>2, <1>7, <1>9, <1>10, ContentIs

=============================================================================
