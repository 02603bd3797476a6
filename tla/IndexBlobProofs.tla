--------------------------- MODULE IndexBlobProofs ---------------------------
(***************************************************************************)
(* Proofs about IndexBlob: the dictionary of a chunk is sound and keeps    *)
(* its promise through every sequence of documents, anchor texts and       *)
(* rebuilds, and the file written from it has the size that was measured   *)
(* and finds every list, for any words, hash values and limits.            *)
(***************************************************************************)
EXTENDS IndexBlob, HashTableProofs

\* The locations that addDoc adds are those of the index: there is an end for
\* every url, and the tokens still to be added lie in front of the last one.
EndsInv ==
  /\ urls \in Nat /\ pending \in Nat
  /\ urls = IF End \in DOMAIN Content THEN Len(Content[End]) ELSE 0
  /\ urls = 0 => pending = 0
  /\ urls > 0 => pending <= Content[End][urls]

BlobInv == TableInv /\ EndsInv

LEMMA KeyFacts ==
  /\ End \in Keys
  /\ \A w \in Words : Body(w) \in Keys /\ Body(w) # End
  /\ \A t \in AnchorTexts : AnchorKey(t) \in Keys /\ AnchorKey(t) # End
BY BlobAssumption DEF Body, AnchorKey, End

\* The list of a key is one of locations.
LEMMA ListOfKey ==
  ASSUME TableInv, NEW k \in DOMAIN Content
  PROVE  k \in Keys /\ Content[k] \in Seq(Locations)
<1> DEFINE c == ContentOf(hash, buckets, tableSize)
<1>1. /\ hash \in HashFunctions
      /\ ChainsSound(hash, buckets, tableSize, numberOfBuckets, collisions)
  BY DEF TableInv
<1>2. c = Content
  BY ContentIs
<1>3. /\ DOMAIN c \subseteq Keys
      /\ \A key \in DOMAIN c : \E b \in Bucket : Holds(buckets, b) /\ b.key = key
      /\ \A b : Holds(buckets, b) => b \in Bucket /\ c[b.key] = b.value
  BY <1>1, ContentFacts
<1> HIDE DEF c
<1>4. PICK b \in Bucket : Holds(buckets, b) /\ b.key = k
  BY <1>2, <1>3
<1>5. Content[k] = b.value /\ k \in Keys
  BY <1>2, <1>3, <1>4
<1> QED
  BY <1>5 DEF Bucket

\* The end of the last document.
LEMMA LastEndFacts ==
  ASSUME BlobInv, urls > 0
  PROVE  /\ End \in DOMAIN Content
         /\ LastEnd = Content[End][urls] /\ LastEnd \in 0..MaxLocation /\ pending <= LastEnd
<1>1. urls \in Nat /\ urls > 0 /\ End \in DOMAIN Content /\ urls = Len(Content[End])
  BY DEF BlobInv, EndsInv
<1>2. Found(End) /\ ValueOf(End) = Content[End]
  BY <1>1, KeyFacts, FoundShown
<1>3. Content[End] \in Seq(0..MaxLocation)
  BY <1>1, ListOfKey, BlobAssumption DEF BlobInv
<1>4. LastEnd = Content[End][urls]
  BY <1>2 DEF LastEnd
<1>5. Content[End][urls] \in 0..MaxLocation
  <2>1. urls \in 1..Len(Content[End])
    BY <1>1
  <2> QED
    BY <1>3, <2>1, ElementOfSeq, Zenon
<1> QED
  BY <1>1, <1>4, <1>5 DEF BlobInv, EndsInv

\* An addition for another key leaves the ends alone.
LEMMA OtherKey ==
  ASSUME NEW k, k # End, NEW loc, Promise!Add(k, loc)
  PROVE  /\ End \in DOMAIN Content' <=> End \in DOMAIN Content
         /\ End \in DOMAIN Content => Content'[End] = Content[End]
BY DEF Promise!Add

LEMMA StartDocStep ==
  ASSUME BlobInv, NEW n \in 0..MaxTokens, StartDoc(n)
  PROVE  BlobInv' /\ Promise!Next
<1> DEFINE loc == NextEnd(n)
<1>1. /\ pending = 0 /\ loc <= MaxLocation /\ Add(End, loc)
      /\ urls' = urls + 1 /\ pending' = n
  BY DEF StartDoc
<1>2. urls \in Nat /\ n \in Nat
  BY DEF BlobInv, EndsInv
<1>3. loc \in Locations /\ n <= loc
  <2>1. CASE urls = 0
    BY <1>1, <1>2, <2>1, BlobAssumption DEF NextEnd
  <2>2. CASE urls # 0
    <3>1. LastEnd \in 0..MaxLocation
      BY <1>2, <2>2, LastEndFacts
    <3> QED
      BY <1>1, <1>2, <2>2, <3>1, BlobAssumption DEF NextEnd
  <2> QED
    BY <2>1, <2>2
<1> HIDE DEF loc
<1>4. TableInv' /\ Promise!Add(End, loc)
  BY <1>1, <1>3, KeyFacts, AddSound DEF BlobInv
<1>5. /\ End \in DOMAIN Content'
      /\ Content'[End] = Append(Promise!Posts(End), loc)
  BY <1>4 DEF Promise!Add
<1>6. Len(Content'[End]) = urls + 1 /\ Content'[End][urls + 1] = loc
  <2>1. CASE End \in DOMAIN Content
    <3>1. Content[End] \in Seq(Locations) /\ urls = Len(Content[End])
      BY <2>1, ListOfKey DEF BlobInv, EndsInv
    <3> QED
      BY <1>5, <2>1, <3>1 DEF Promise!Posts
  <2>2. CASE End \notin DOMAIN Content
    <3>1. urls = 0 /\ Content'[End] = <<loc>>
      BY <1>5, <2>2 DEF BlobInv, EndsInv, Promise!Posts
    <3> QED
      BY <3>1
  <2> QED
    BY <2>1, <2>2
<1>7. EndsInv'
  BY <1>1, <1>2, <1>3, <1>5, <1>6 DEF EndsInv
<1> QED
  BY <1>3, <1>4, <1>7, KeyFacts DEF BlobInv, Promise!Next

LEMMA AddWordStep ==
  ASSUME BlobInv, NEW w \in Words, AddWord(w)
  PROVE  BlobInv' /\ Promise!Next
<1> DEFINE loc == LastEnd - pending
<1>1. pending > 0 /\ Add(Body(w), loc) /\ pending' = pending - 1 /\ urls' = urls
  BY DEF AddWord
<1>2. urls \in Nat /\ pending \in Nat /\ urls > 0
  BY <1>1 DEF BlobInv, EndsInv
<1>3. /\ End \in DOMAIN Content /\ LastEnd = Content[End][urls]
      /\ LastEnd \in 0..MaxLocation /\ pending <= LastEnd
  BY <1>2, LastEndFacts
<1>4. loc \in Locations
  BY <1>1, <1>2, <1>3, BlobAssumption
<1> HIDE DEF loc
<1>5. TableInv' /\ Promise!Add(Body(w), loc)
  BY <1>1, <1>4, KeyFacts, AddSound DEF BlobInv
<1>6. End \in DOMAIN Content' /\ Content'[End] = Content[End]
  BY <1>3, <1>5, KeyFacts, OtherKey
<1>7. EndsInv'
  BY <1>1, <1>2, <1>3, <1>6 DEF BlobInv, EndsInv
<1> QED
  BY <1>4, <1>5, <1>7, KeyFacts DEF BlobInv, Promise!Next

LEMMA AddAnchorStep ==
  ASSUME BlobInv, NEW t \in AnchorTexts, AddAnchor(t)
  PROVE  BlobInv' /\ Promise!Next
<1>1. urls > 0 /\ pending = 0 /\ Add(AnchorKey(t), 1) /\ UNCHANGED <<urls, pending>>
  BY DEF AddAnchor
<1>2. 1 \in Locations
  BY BlobAssumption
<1>3. TableInv' /\ Promise!Add(AnchorKey(t), 1)
  BY <1>1, <1>2, KeyFacts, AddSound DEF BlobInv
<1>4. End \in DOMAIN Content /\ End \in DOMAIN Content' /\ Content'[End] = Content[End]
  BY <1>1, <1>3, KeyFacts, OtherKey, LastEndFacts
<1>5. EndsInv'
  BY <1>1, <1>4 DEF BlobInv, EndsInv
<1> QED
  BY <1>2, <1>3, <1>5, KeyFacts DEF BlobInv, Promise!Next

LEMMA BlobInit == Init => BlobInv /\ Promise!Init
<1> SUFFICES ASSUME Init PROVE BlobInv /\ Promise!Init
  OBVIOUS
<1>1. TableInv /\ Promise!Init /\ urls = 0 /\ pending = 0
  BY TableInitSound DEF Init
<1>2. DOMAIN Content = {}
  BY <1>1 DEF Promise!Init
<1> QED
  BY <1>1, <1>2 DEF BlobInv, EndsInv

\* Every step keeps the invariant and is one of the dictionary, or cannot be
\* seen in it.
LEMMA BlobStep ==
  ASSUME BlobInv, [Next]_vars
  PROVE  BlobInv' /\ [Promise!Next]_Content
<1>1. ASSUME NEW n \in 0..MaxTokens, StartDoc(n) PROVE BlobInv' /\ Promise!Next
  BY <1>1, StartDocStep
<1>2. ASSUME NEW w \in Words, AddWord(w) PROVE BlobInv' /\ Promise!Next
  BY <1>2, AddWordStep
<1>3. ASSUME NEW t \in AnchorTexts, AddAnchor(t) PROVE BlobInv' /\ Promise!Next
  BY <1>3, AddAnchorStep
<1>4. CASE OptimizeTable
  <2>1. Optimize /\ UNCHANGED <<urls, pending>>
    BY <1>4 DEF OptimizeTable
  <2>2. TableInv' /\ Content' = Content
    BY <2>1, OptimizeSound DEF BlobInv
  <2>3. EndsInv'
    BY <2>1, <2>2 DEF BlobInv, EndsInv
  <2> QED
    BY <2>2, <2>3 DEF BlobInv
<1>5. CASE UNCHANGED <<tableVars, urls, pending>>
  <2>1. TableInv'
    BY <1>5 DEF BlobInv, TableInv, ChainsSound, tableVars
  <2>2. Content' = Content
    BY <1>5 DEF Content, Found, ValueOf, HelperFind, Chain, IndexOf, tableVars
  <2>3. EndsInv'
    BY <1>5, <2>2 DEF BlobInv, EndsInv
  <2> QED
    BY <2>1, <2>2, <2>3 DEF BlobInv
<1>6. CASE WriteChunk
  BY <1>5, <1>6 DEF WriteChunk
<1>7. CASE UNCHANGED vars
  BY <1>5, <1>7 DEF vars
<1> QED
  BY <1>1, <1>2, <1>3, <1>4, <1>6, <1>7 DEF Next

-----------------------------------------------------------------------------
(* Sequences of sequences, one after the other, and sums *)

LEMMA FunctionIsSeq ==
  ASSUME NEW X, NEW n \in Nat, NEW s \in [1..n -> X]
  PROVE  s \in Seq(X) /\ Len(s) = n
OBVIOUS

\* The first m elements of s.
First(s, m) == [i \in 1..m |-> s[i]]

\* f is what FlattenSeq computes for all beginnings of s.
Flattens(f, s, n) ==
  /\ f[0] = << >>
  /\ \A m \in 1..n : f[m] = f[m - 1] \o s[m]
  /\ \A m \in 0..n : FlattenSeq(First(s, m)) = f[m]

LEMMA FlattenSeqIs ==
  ASSUME NEW X, NEW n \in Nat, NEW s \in [1..n -> Seq(X)]
  PROVE  \E f \in [0..n -> Seq(X)] : Flattens(f, s, n)
<1> DEFINE F == [x \in Seq(X) \X Nat |-> IF x[2] \in 1..n THEN x[1] \o s[x[2]] ELSE x[1]]
<1>1. F \in [Seq(X) \X Nat -> Seq(X)]
  <2>1. ASSUME NEW x \in Seq(X) \X Nat
        PROVE  (IF x[2] \in 1..n THEN x[1] \o s[x[2]] ELSE x[1]) \in Seq(X)
    <3>1. x[1] \in Seq(X) /\ (x[2] \in 1..n => s[x[2]] \in Seq(X))
      OBVIOUS
    <3> QED
      BY <3>1, ConcatProperties
  <2> QED
    BY <2>1
<1>2. ASSUME NEW t \in Seq(X), NEW m \in 1..n PROVE F[<<t, m>>] = t \o s[m]
  <2>1. <<t, m>> \in Seq(X) \X Nat /\ <<t, m>>[1] = t /\ <<t, m>>[2] = m
    OBVIOUS
  <2> QED
    BY <2>1
<1> HIDE DEF F
<1>3. << >> \in Seq(X)
  OBVIOUS
<1>4. PICK f \in [0..n -> Seq(X)] : Follows(f, << >>, F, n)
  BY <1>1, <1>3, FollowsExists
<1>5. f[0] = << >>
  <2>1. 0 \in 0..n
    OBVIOUS
  <2> QED
    BY <1>4, <2>1, Zenon DEF Follows
<1>6. ASSUME NEW m \in 1..n PROVE f[m] = f[m - 1] \o s[m]
  <2>1. m \in 0..n /\ m # 0 /\ m - 1 \in 0..n /\ f[m - 1] \in Seq(X)
    OBVIOUS
  <2>2. f[m] = F[<<f[m - 1], m>>]
    BY <1>4, <2>1 DEF Follows
  <2> QED
    BY <1>2, <2>1, <2>2
<1>7. ASSUME NEW m \in 0..n PROVE FlattenSeq(First(s, m)) = f[m]
  <2> DEFINE t == First(s, m)
             Is(g) == g = [i \in 1..m |-> IF i = 1 THEN t[i] ELSE g[i - 1] \o t[i]]
             g0 == CHOOSE g : Is(g)
  <2>1. m \in Nat /\ t \in [1..m -> Seq(X)]
    BY DEF First
  <2>2. Len(t) = m /\ \A i \in 1..m : t[i] = s[i]
    BY <2>1, FunctionIsSeq DEF First
  <2> HIDE DEF t
  <2>3. CASE m = 0
    <3>1. t = << >>
      BY <2>1, <2>3
    <3>2. FlattenSeq(t) = t
      BY <2>2, <2>3 DEF FlattenSeq
    <3> QED
      BY <1>5, <2>3, <3>1, <3>2 DEF t
  <2>4. CASE m # 0
    <3> DEFINE r == [i \in 1..m |-> f[i]]
    <3>1. Is(r)
      <4>1. ASSUME NEW i \in 1..m PROVE f[i] = IF i = 1 THEN t[i] ELSE r[i - 1] \o t[i]
        <5>1. i \in 1..n /\ f[i] = f[i - 1] \o s[i] /\ t[i] = s[i] /\ s[i] \in Seq(X)
          <6>1. i \in 1..n /\ s[i] \in Seq(X)
            OBVIOUS
          <6> QED
            BY <1>6, <2>2, <6>1
        <5>2. CASE i = 1
          <6>1. f[i - 1] = << >>
            BY <1>5, <5>2
          <6>2. << >> \o s[i] = s[i]
            BY <5>1, ConcatEmptySeq
          <6> QED
            BY <5>1, <5>2, <6>1, <6>2
        <5>3. CASE i # 1
          <6>1. i - 1 \in 1..m /\ r[i - 1] = f[i - 1]
            BY <5>3
          <6> QED
            BY <5>1, <5>3, <6>1
        <5> QED
          BY <5>2, <5>3
      <4> QED
        BY <4>1
    <3>2. Is(g0)
      BY <3>1, Zenon
    <3>3. FlattenSeq(t) = g0[m]
      <4>1. Len(t) # 0
        BY <2>2, <2>4
      <4>2. FlattenSeq(t) = LET flatten[i \in 1..Len(t)] == IF i = 1 THEN t[i] ELSE flatten[i - 1] \o t[i]
                            IN  flatten[Len(t)]
        BY <4>1, ZenonT(30) DEF FlattenSeq
      <4> QED
        BY <2>2, <4>2, Zenon
    <3>4. \A i \in 1..m : g0[i] = IF i = 1 THEN t[i] ELSE g0[i - 1] \o t[i]
      BY <3>2
    <3> HIDE DEF g0
    <3> DEFINE S == {i \in Nat : i \in 1..m => g0[i] = f[i]}
    <3>5. 0 \in S
      OBVIOUS
    <3>6. ASSUME NEW i \in S PROVE i + 1 \in S
      <4>1. SUFFICES ASSUME i + 1 \in 1..m PROVE g0[i + 1] = f[i + 1]
        OBVIOUS
      <4>2. i \in Nat /\ (i + 1) - 1 = i /\ i + 1 \in 1..n /\ s[i + 1] \in Seq(X)
        BY <4>1
      <4>3. f[i + 1] = f[i] \o s[i + 1] /\ t[i + 1] = s[i + 1]
        BY <1>6, <2>2, <4>1, <4>2
      <4>4. CASE i = 0
        <5>1. g0[i + 1] = s[i + 1]
          BY <3>4, <4>1, <4>3, <4>4
        <5>2. << >> \o s[i + 1] = s[i + 1]
          BY <4>2, ConcatEmptySeq
        <5> QED
          BY <1>5, <4>3, <4>4, <5>1, <5>2
      <4>5. CASE i # 0
        <5>1. i \in 1..m /\ i + 1 # 1
          BY <4>1, <4>2, <4>5
        <5>2. g0[i] = f[i]
          BY <5>1
        <5>3. g0[i + 1] = g0[i] \o t[i + 1]
          BY <3>4, <4>1, <4>2, <5>1
        <5> QED
          BY <4>3, <5>2, <5>3
      <4> QED
        BY <4>4, <4>5
    <3> HIDE DEF S
    <3>7. m \in S
      BY <2>1, <3>5, <3>6, SetInduction DEF S
    <3> QED
      BY <2>1, <2>4, <3>3, <3>7 DEF S, t
  <2> QED
    BY <2>3, <2>4
<1>8. Flattens(f, s, n)
  BY <1>5, <1>6, <1>7 DEF Flattens
<1> QED
  BY <1>8

Flat(s, m) == FlattenSeq(First(s, m))

LEMMA ConcatLaws ==
  ASSUME NEW X, NEW s \in Seq(X), NEW t \in Seq(X)
  PROVE  /\ s \o t \in Seq(X) /\ Len(s) \in Nat /\ Len(t) \in Nat
         /\ Len(s \o t) = Len(s) + Len(t)
         /\ \A i \in 1..Len(s) : (s \o t)[i] = s[i]
         /\ \A i \in 1..Len(t) : (s \o t)[Len(s) + i] = t[i]
<1>1. s \o t \in Seq(X) /\ Len(s) \in Nat /\ Len(t) \in Nat
  BY ConcatProperties
<1>2. Len(s \o t) = Len(s) + Len(t)
  OBVIOUS
<1>3. ASSUME NEW i \in 1..Len(s) PROVE (s \o t)[i] = s[i]
  OBVIOUS
<1>4. ASSUME NEW i \in 1..Len(t) PROVE (s \o t)[Len(s) + i] = t[i]
  OBVIOUS
<1> QED
  BY <1>1, <1>2, <1>3, <1>4

LEMMA Shifted ==
  ASSUME NEW a \in Nat, NEW b \in Nat
  PROVE  /\ \A i \in 1..b : a + i \in 1..(a + b)
         /\ \A i \in 1..a : i \in 1..(a + b)
         /\ \A i \in 1..(a + b) : i \in 1..a \/ (i - a \in 1..b /\ i = a + (i - a))
OBVIOUS

\* The elements of s[m] follow those of the sequences in front of it.
InARow(s, n, X) ==
  /\ \A m \in 0..n : Flat(s, m) \in Seq(X) /\ Len(Flat(s, m)) \in Nat
  /\ Len(Flat(s, 0)) = 0
  /\ \A m \in 1..n : Len(Flat(s, m)) = Len(Flat(s, m - 1)) + Len(s[m])
  /\ \A m \in 1..n : \A r \in 1..Len(s[m]) :
       /\ Len(Flat(s, m - 1)) + r \in 1..Len(Flat(s, n))
       /\ Flat(s, n)[Len(Flat(s, m - 1)) + r] = s[m][r]
  /\ \A p \in 1..Len(Flat(s, n)) : \E m \in 1..n : \E r \in 1..Len(s[m]) :
       p = Len(Flat(s, m - 1)) + r

LEMMA FlatFacts ==
  ASSUME NEW X, NEW n \in Nat, NEW s \in [1..n -> Seq(X)]
  PROVE  InARow(s, n, X)
<1>0. PICK f \in [0..n -> Seq(X)] : Flattens(f, s, n)
  BY FlattenSeqIs
<1>1. /\ f[0] = << >>
      /\ \A m \in 1..n : f[m] = f[m - 1] \o s[m]
      /\ \A m \in 0..n : FlattenSeq(First(s, m)) = f[m]
  BY <1>0 DEF Flattens
<1>2. \A m \in 0..n : Flat(s, m) = f[m] /\ f[m] \in Seq(X) /\ Len(f[m]) \in Nat
  <2>1. \A m \in 0..n : Flat(s, m) = f[m]
    BY <1>1 DEF Flat
  <2> QED
    BY <2>1
<1>3. ASSUME NEW m \in 1..n
      PROVE  /\ m \in 0..n /\ m - 1 \in 0..n /\ s[m] \in Seq(X) /\ Len(s[m]) \in Nat
             /\ Len(f[m]) = Len(f[m - 1]) + Len(s[m])
             /\ \A i \in 1..Len(f[m - 1]) : f[m][i] = f[m - 1][i]
             /\ \A i \in 1..Len(s[m]) : f[m][Len(f[m - 1]) + i] = s[m][i]
  <2>1. m \in 0..n /\ m - 1 \in 0..n /\ s[m] \in Seq(X) /\ f[m - 1] \in Seq(X)
    OBVIOUS
  <2>2. f[m] = f[m - 1] \o s[m]
    BY <1>1
  <2> QED
    BY <2>1, <2>2, ConcatLaws
<1> DEFINE Holds1(q) == \A m \in 1..q : \A r \in 1..Len(s[m]) :
                          /\ Len(f[m - 1]) + r \in 1..Len(f[q])
                          /\ f[q][Len(f[m - 1]) + r] = s[m][r]
           Meets(q) == \A p \in 1..Len(f[q]) : \E m \in 1..q : \E r \in 1..Len(s[m]) :
                         p = Len(f[m - 1]) + r
           S == {q \in Nat : q <= n => Holds1(q) /\ Meets(q)}
<1>4. 0 \in S
  <2>1. Len(f[0]) = 0
    BY <1>1
  <2> QED
    BY <2>1
<1>5. ASSUME NEW q \in S PROVE q + 1 \in S
  <2>1. SUFFICES ASSUME q + 1 <= n PROVE Holds1(q + 1) /\ Meets(q + 1)
    OBVIOUS
  <2>2. q \in Nat /\ q \in 0..n /\ q + 1 \in 1..n /\ q <= n /\ (q + 1) - 1 = q
    BY <2>1
  <2>3. Holds1(q) /\ Meets(q)
    <3> HIDE DEF Holds1, Meets
    <3> QED
      BY <2>2
  <2>4. /\ s[q + 1] \in Seq(X) /\ Len(s[q + 1]) \in Nat /\ Len(f[q]) \in Nat
        /\ Len(f[q + 1]) = Len(f[q]) + Len(s[q + 1])
        /\ \A i \in 1..Len(f[q]) : f[q + 1][i] = f[q][i]
        /\ \A i \in 1..Len(s[q + 1]) : f[q + 1][Len(f[q]) + i] = s[q + 1][i]
    BY <1>2, <1>3, <2>2
  <2>5. ASSUME NEW m \in 1..(q + 1), NEW r \in 1..Len(s[m])
        PROVE  /\ Len(f[m - 1]) + r \in 1..Len(f[q + 1])
               /\ f[q + 1][Len(f[m - 1]) + r] = s[m][r]
    <3>1. CASE m = q + 1
      <4>1. m - 1 = q /\ r \in 1..Len(s[q + 1])
        BY <2>2, <3>1
      <4>2. Len(f[q]) + r \in 1..(Len(f[q]) + Len(s[q + 1]))
        BY <2>4, <4>1, Shifted, Zenon
      <4> QED
        BY <2>4, <3>1, <4>1, <4>2
    <3>2. CASE m # q + 1
      <4>1. m \in 1..q
        BY <2>2, <3>2
      <4>2. Len(f[m - 1]) + r \in 1..Len(f[q]) /\ f[q][Len(f[m - 1]) + r] = s[m][r]
        BY <2>3, <4>1
      <4>3. f[q + 1][Len(f[m - 1]) + r] = f[q][Len(f[m - 1]) + r]
        BY <2>4, <4>2
      <4>4. Len(f[m - 1]) + r \in 1..(Len(f[q]) + Len(s[q + 1]))
        BY <2>4, <4>2, Shifted, Zenon
      <4> QED
        BY <2>4, <4>2, <4>3, <4>4
    <3> QED
      BY <3>1, <3>2
  <2>6. ASSUME NEW p \in 1..Len(f[q + 1])
        PROVE  \E m \in 1..(q + 1) : \E r \in 1..Len(s[m]) : p = Len(f[m - 1]) + r
    <3> DEFINE r == p - Len(f[q])
    <3>1. p \in 1..Len(f[q]) \/ (r \in 1..Len(s[q + 1]) /\ p = Len(f[q]) + r)
      <4>1. p \in 1..(Len(f[q]) + Len(s[q + 1]))
        BY <2>4, Zenon
      <4> QED
        BY <2>4, <4>1, Shifted, Zenon
    <3> HIDE DEF r
    <3>2. CASE p \in 1..Len(f[q])
      <4>1. PICK m \in 1..q : \E i \in 1..Len(s[m]) : p = Len(f[m - 1]) + i
        BY <2>3, <3>2
      <4>2. m \in 1..(q + 1)
        BY <2>2
      <4> QED
        BY <4>1, <4>2
    <3>3. CASE r \in 1..Len(s[q + 1]) /\ p = Len(f[q]) + r
      <4>1. q + 1 \in 1..(q + 1) /\ p = Len(f[(q + 1) - 1]) + r
        BY <2>2, <3>3
      <4> QED
        BY <3>3, <4>1
    <3> QED
      BY <3>1, <3>2, <3>3
  <2> QED
    BY <2>5, <2>6
<1> HIDE DEF Holds1, Meets, S
<1>6. n \in S
  BY <1>4, <1>5, SetInduction DEF S
<1>7. Holds1(n) /\ Meets(n)
  BY <1>6 DEF S
<1>8. n \in 0..n /\ 0 \in 0..n /\ \A m \in 1..n : m - 1 \in 0..n
  OBVIOUS
<1>9. Len(Flat(s, 0)) = 0
  BY <1>1, <1>2, <1>8
<1>10. \A m \in 1..n : Len(Flat(s, m)) = Len(Flat(s, m - 1)) + Len(s[m])
  BY <1>2, <1>3
<1>11. ASSUME NEW m \in 1..n, NEW r \in 1..Len(s[m])
       PROVE  /\ Len(Flat(s, m - 1)) + r \in 1..Len(Flat(s, n))
              /\ Flat(s, n)[Len(Flat(s, m - 1)) + r] = s[m][r]
  <2>1. Flat(s, m - 1) = f[m - 1] /\ Flat(s, n) = f[n]
    BY <1>2, <1>8
  <2> QED
    BY <1>7, <2>1 DEF Holds1
<1>12. ASSUME NEW p \in 1..Len(Flat(s, n))
       PROVE  \E m \in 1..n : \E r \in 1..Len(s[m]) : p = Len(Flat(s, m - 1)) + r
  <2>1. Flat(s, n) = f[n]
    BY <1>2, <1>8
  <2>2. PICK m \in 1..n : \E r \in 1..Len(s[m]) : p = Len(f[m - 1]) + r
    BY <1>7, <2>1 DEF Meets
  <2>3. Flat(s, m - 1) = f[m - 1]
    BY <1>2, <1>8
  <2> QED
    BY <2>2, <2>3
<1> QED
  BY <1>2, <1>9, <1>10, <1>11, <1>12 DEF InARow

\* What the first m numbers add up to.
LEMMA TotalFacts ==
  ASSUME NEW n \in Nat, NEW s \in [1..n -> Nat]
  PROVE  /\ \A m \in 0..n : Total(First(s, m)) \in Nat
         /\ Total(First(s, 0)) = 0
         /\ \A m \in 1..n : Total(First(s, m)) = Total(First(s, m - 1)) + s[m]
<1> DEFINE F == [x \in Nat \X Nat |-> IF x[2] \in 1..n THEN x[1] + s[x[2]] ELSE x[1]]
<1>1. F \in [Nat \X Nat -> Nat] /\ \A t \in Nat : \A m \in 1..n : F[<<t, m>>] = t + s[m]
  OBVIOUS
<1> HIDE DEF F
<1>2. PICK f \in [0..n -> Nat] : Follows(f, 0, F, n)
  BY <1>1, FollowsExists
<1>3. f[0] = 0
  <2>1. 0 \in 0..n
    OBVIOUS
  <2> QED
    BY <1>2, <2>1, Zenon DEF Follows
<1>4. ASSUME NEW m \in 1..n PROVE f[m] = f[m - 1] + s[m]
  <2>1. m \in 0..n /\ m # 0 /\ m - 1 \in 0..n /\ f[m - 1] \in Nat
    OBVIOUS
  <2>2. f[m] = F[<<f[m - 1], m>>]
    BY <1>2, <2>1 DEF Follows
  <2> QED
    BY <1>1, <2>1, <2>2
<1>5. ASSUME NEW m \in 0..n PROVE Total(First(s, m)) = f[m]
  <2> DEFINE t == First(s, m)
             Is(g) == g = [i \in 0..m |-> IF i = 0 THEN 0 ELSE g[i - 1] + t[i]]
             g0 == CHOOSE g : Is(g)
             r == [i \in 0..m |-> f[i]]
  <2>1. m \in Nat /\ t \in [1..m -> Nat]
    BY DEF First
  <2>2. Len(t) = m /\ \A i \in 1..m : t[i] = s[i]
    BY <2>1, FunctionIsSeq DEF First
  <2> HIDE DEF t
  <2>3. Is(r)
    <3>1. ASSUME NEW i \in 0..m PROVE f[i] = IF i = 0 THEN 0 ELSE r[i - 1] + t[i]
      <4>1. CASE i = 0
        BY <1>3, <4>1
      <4>2. CASE i # 0
        <5>1. i \in 1..n /\ i \in 1..m /\ i - 1 \in 0..m
          BY <4>2
        <5> QED
          BY <1>4, <2>2, <4>2, <5>1
      <4> QED
        BY <4>1, <4>2
    <3> QED
      BY <3>1
  <2>4. Is(g0)
    BY <2>3, Zenon
  <2>5. Total(t) = g0[m]
    <3>1. Total(t) = LET upTo[i \in 0..Len(t)] == IF i = 0 THEN 0 ELSE upTo[i - 1] + t[i]
                     IN  upTo[Len(t)]
      BY Zenon DEF Total
    <3> QED
      BY <2>2, <3>1, Zenon
  <2>6. \A i \in 0..m : g0[i] = IF i = 0 THEN 0 ELSE g0[i - 1] + t[i]
    BY <2>4
  <2> HIDE DEF g0
  <2> DEFINE S == {i \in Nat : i \in 0..m => g0[i] = f[i]}
  <2>7. 0 \in S
    <3>1. 0 \in 0..m
      BY <2>1
    <3> QED
      BY <1>3, <2>6, <3>1
  <2>8. ASSUME NEW i \in S PROVE i + 1 \in S
    <3>1. SUFFICES ASSUME i + 1 \in 0..m PROVE g0[i + 1] = f[i + 1]
      OBVIOUS
    <3>2. /\ i \in Nat /\ i \in 0..m /\ (i + 1) - 1 = i /\ i + 1 # 0
          /\ i + 1 \in 1..m /\ i + 1 \in 1..n
      BY <3>1
    <3>3. g0[i] = f[i] /\ g0[i + 1] = g0[i] + t[i + 1]
      BY <2>6, <3>1, <3>2
    <3> QED
      BY <1>4, <2>2, <3>2, <3>3
  <2> HIDE DEF S
  <2>9. m \in S
    BY <2>1, <2>7, <2>8, SetInduction DEF S
  <2> QED
    BY <2>1, <2>5, <2>9 DEF S, t
<1>6. \A m \in 1..n : m \in 0..n /\ m - 1 \in 0..n
  OBVIOUS
<1> QED
  BY <1>3, <1>4, <1>5, <1>6

\* The length of what FlattenSeq returns.
LEMMA FlatLength ==
  ASSUME NEW X, NEW n \in Nat, NEW s, InARow(s, n, X), NEW w \in [1..n -> Nat],
         \A m \in 1..n : Len(s[m]) = w[m]
  PROVE  \A m \in 0..n : Len(Flat(s, m)) = Total(First(w, m))
<1>1. Len(Flat(s, 0)) = 0 /\ \A m \in 1..n : Len(Flat(s, m)) = Len(Flat(s, m - 1)) + Len(s[m])
  BY DEF InARow
<1>2. /\ Total(First(w, 0)) = 0
      /\ \A m \in 1..n : Total(First(w, m)) = Total(First(w, m - 1)) + w[m]
  BY TotalFacts
<1> DEFINE S == {m \in Nat : m <= n => Len(Flat(s, m)) = Total(First(w, m))}
<1>3. 0 \in S
  BY <1>1, <1>2
<1>4. ASSUME NEW m \in S PROVE m + 1 \in S
  <2>1. SUFFICES ASSUME m + 1 <= n PROVE Len(Flat(s, m + 1)) = Total(First(w, m + 1))
    OBVIOUS
  <2>2. m + 1 \in 1..n /\ (m + 1) - 1 = m /\ Len(Flat(s, m)) = Total(First(w, m))
    BY <2>1
  <2> QED
    BY <1>1, <1>2, <2>2
<1> HIDE DEF S
<1>5. \A m \in Nat : m \in S
  BY <1>3, <1>4, SetInduction DEF S
<1> QED
  BY <1>5 DEF S

-----------------------------------------------------------------------------
(* What is in the file *)

\* What a cell can hold.
Numbers == Nat \cup {b.value[1] : b \in Bucket}
Strings == Keys \cup {Blank} \cup {Body(k[2]) : k \in Keys}
CellSet == [number : Numbers, string : Strings]

\* How far behind the beginning of its list the key k is.
KeyPlace(k) == IF IsAnchor(k) THEN 1 ELSE SyncCells + 1

LEMMA FirstOfAll ==
  ASSUME NEW n \in Nat, NEW s, s = [i \in 1..n |-> s[i]]
  PROVE  First(s, n) = s
BY DEF First

LEMMA RepeatFacts ==
  ASSUME NEW n \in Nat, NEW cell \in CellSet
  PROVE  Repeat(cell, n) \in Seq(CellSet) /\ Len(Repeat(cell, n)) = n
<1>1. Repeat(cell, n) \in [1..n -> CellSet]
  BY DEF Repeat
<1> QED
  BY <1>1, FunctionIsSeq

LEMMA OneFacts ==
  ASSUME NEW X, NEW x \in X
  PROVE  <<x>> \in Seq(X) /\ Len(<<x>>) = 1 /\ <<x>>[1] = x
OBVIOUS

LEMMA CellFacts ==
  ASSUME NEW n \in Numbers, NEW x \in Strings
  PROVE  Cell(n, x) \in CellSet /\ Cell(n, x).number = n /\ Cell(n, x).string = x
BY DEF Cell, CellSet

LEMMA CellTypes ==
  /\ \A n \in Nat : n \in Numbers
  /\ Blank \in Strings
  /\ \A k \in Keys : k \in Strings /\ Body(k[2]) \in Strings
  /\ \A b \in Bucket : b.value[1] \in Numbers
  /\ \A loc : Spelled(loc) \in Strings
<1>1. ASSUME NEW loc PROVE Spelled(loc) \in Strings
  BY BlobAssumption DEF Spelled, Strings
<1> QED
  BY <1>1 DEF Numbers, Strings

\* A list is as long as was measured, begins with its length, and has its key
\* where the finder of its kind reads it.
LEMMA ListCellsFacts ==
  ASSUME NEW b \in Bucket
  PROVE  /\ ListBytes(b) \in Nat \ {0}
         /\ ListCells(b) \in Seq(CellSet) /\ Len(ListCells(b)) = ListBytes(b)
         /\ ListCells(b)[1].number = ListBytes(b)
         /\ KeyPlace(b.key) + 1 \in 1..ListBytes(b)
         /\ ListCells(b)[KeyPlace(b.key) + 1].string = b.key
<1> DEFINE k == b.key
           n == Len(b.value)
           size == ListBytes(b)
           deltas == Repeat(Cell(1, Blank), n)
<1>1. k \in Keys /\ n \in Nat /\ SyncCells \in Nat \ {0}
  BY BlobAssumption DEF Bucket
<1>2. size = 1 + (IF IsAnchor(k) THEN 0 ELSE SyncCells) + KeyCells(k) + n
  BY DEF ListBytes
<1>3. deltas \in Seq(CellSet) /\ Len(deltas) = n
  BY <1>1, RepeatFacts, CellFacts, CellTypes
<1> HIDE DEF deltas, k, n, size
<1>4. CASE IsAnchor(k)
  <2> DEFINE c1 == Cell(size, Blank)
             c2 == Cell(1, k)
             c3 == Cell(1, Body(k[2]))
             front == <<c1, c2, c3>>
  <2>1. size = 3 + n /\ size \in Nat \ {0} /\ KeyPlace(k) + 1 = 2
    BY <1>1, <1>2, <1>4 DEF KeyCells, KeyPlace
  <2>2. /\ c1 \in CellSet /\ c2 \in CellSet /\ c3 \in CellSet
        /\ c1.number = size /\ c2.string = k
    BY <1>1, <2>1, CellFacts, CellTypes
  <2>3. ListCells(b) = front \o deltas
    BY <1>4 DEF ListCells, k, n, size, deltas
  <2> HIDE DEF c1, c2, c3
  <2>4. front \in Seq(CellSet) /\ Len(front) = 3 /\ front[1] = c1 /\ front[2] = c2
    BY <2>2
  <2> HIDE DEF front
  <2>5. /\ front \o deltas \in Seq(CellSet) /\ Len(front \o deltas) = 3 + n
        /\ (front \o deltas)[1] = c1 /\ (front \o deltas)[2] = c2
    <3>1. 1 \in 1..Len(front) /\ 2 \in 1..Len(front)
      BY <2>4
    <3>2. /\ front \o deltas \in Seq(CellSet)
          /\ Len(front \o deltas) = Len(front) + Len(deltas)
          /\ \A i \in 1..Len(front) : (front \o deltas)[i] = front[i]
      BY <1>3, <2>4, ConcatLaws, ZenonT(30)
    <3> QED
      BY <1>3, <2>4, <3>1, <3>2, Zenon
  <2>6. 2 \in 1..size
    BY <1>1, <2>1
  <2> QED
    BY <2>1, <2>2, <2>3, <2>5, <2>6 DEF k, size
<1>5. CASE ~IsAnchor(k)
  <2> DEFINE c1 == Cell(size, Blank)
             c2 == Cell(b.value[1], Spelled(b.value[1]))
             c3 == Cell(1, k)
             rest == Repeat(Cell(0, Blank), SyncCells - 1)
             sync == <<c2>> \o rest
             one == <<c1>> \o sync
             two == one \o <<c3>>
  <2>1. size = 2 + SyncCells + n /\ size \in Nat \ {0} /\ KeyPlace(k) + 1 = SyncCells + 2
    BY <1>1, <1>2, <1>5 DEF KeyCells, KeyPlace
  <2>2. /\ c1 \in CellSet /\ c2 \in CellSet /\ c3 \in CellSet
        /\ c1.number = size /\ c3.string = k
    BY <1>1, <2>1, CellFacts, CellTypes
  <2>3. ListCells(b) = two \o deltas
    BY <1>5 DEF ListCells, k, n, size, deltas
  <2>4. rest \in Seq(CellSet) /\ Len(rest) = SyncCells - 1
    <3>1. SyncCells - 1 \in Nat /\ Cell(0, Blank) \in CellSet
      BY <1>1, CellFacts, CellTypes
    <3> QED
      BY <3>1, RepeatFacts
  <2> HIDE DEF c1, c2, c3, rest
  <2>5. sync \in Seq(CellSet) /\ Len(sync) = SyncCells
    <3>1. <<c2>> \in Seq(CellSet) /\ Len(<<c2>>) = 1
      BY <2>2, OneFacts
    <3> QED
      BY <1>1, <2>4, <3>1, ConcatLaws
  <2> HIDE DEF sync
  <2>6. one \in Seq(CellSet) /\ Len(one) = SyncCells + 1 /\ one[1] = c1
    <3>1. <<c1>> \in Seq(CellSet) /\ Len(<<c1>>) = 1 /\ <<c1>>[1] = c1 /\ 1 \in 1..Len(<<c1>>)
      BY <2>2, OneFacts
    <3> QED
      BY <1>1, <2>5, <3>1, ConcatLaws
  <2> HIDE DEF one
  <2>7. two \in Seq(CellSet) /\ Len(two) = SyncCells + 2 /\ two[1] = c1 /\ two[SyncCells + 2] = c3
    <3>1. <<c3>> \in Seq(CellSet) /\ Len(<<c3>>) = 1 /\ <<c3>>[1] = c3 /\ 1 \in 1..Len(<<c3>>)
      BY <2>2, OneFacts
    <3>2. 1 \in 1..Len(one) /\ Len(one) + 1 = SyncCells + 2
      BY <1>1, <2>6
    <3> QED
      BY <1>1, <2>6, <3>1, <3>2, ConcatLaws
  <2> HIDE DEF two
  <2>8. /\ two \o deltas \in Seq(CellSet) /\ Len(two \o deltas) = SyncCells + 2 + n
        /\ (two \o deltas)[1] = c1 /\ (two \o deltas)[SyncCells + 2] = c3
    <3>1. 1 \in 1..Len(two) /\ SyncCells + 2 \in 1..Len(two)
      BY <1>1, <2>7
    <3>2. /\ two \o deltas \in Seq(CellSet)
          /\ Len(two \o deltas) = Len(two) + Len(deltas)
          /\ \A i \in 1..Len(two) : (two \o deltas)[i] = two[i]
      BY <1>3, <2>7, ConcatLaws, ZenonT(30)
    <3> QED
      BY <1>3, <2>7, <3>1, <3>2, Zenon
  <2>9. SyncCells + 2 \in 1..size /\ SyncCells + 2 + n = size
    BY <1>1, <2>1
  <2> QED
    BY <2>1, <2>2, <2>3, <2>8, <2>9 DEF k, size
<1> QED
  BY <1>4, <1>5

\* Each list of a chain is where those in front of it end, and the sentinel
\* comes last.
LEMMA ChainFacts ==
  ASSUME NEW c \in Seq(Bucket)
  PROVE  /\ ChainCells(c) \in Seq(CellSet)
         /\ Len(ChainCells(c)) = ChainBytes(c) /\ ChainBytes(c) \in Nat
         /\ Len(ListsBefore(c, 1)) = 0
         /\ \A j \in 1..(Len(c) + 1) :
              /\ Len(ListsBefore(c, j)) \in Nat
              /\ Len(ListsBefore(c, j)) + 1 \in 1..Len(ChainCells(c))
         /\ \A j \in 1..Len(c) :
              /\ Len(ListsBefore(c, j + 1)) = Len(ListsBefore(c, j)) + ListBytes(c[j])
              /\ \A r \in 1..ListBytes(c[j]) :
                   /\ Len(ListsBefore(c, j)) + r \in 1..Len(ChainCells(c))
                   /\ ChainCells(c)[Len(ListsBefore(c, j)) + r] = ListCells(c[j])[r]
         /\ ChainCells(c)[Len(ListsBefore(c, Len(c) + 1)) + 1].number = 0
<1> DEFINE n == Len(c)
           l == [i \in 1..n |-> ListCells(c[i])]
           w == [i \in 1..n |-> ListBytes(c[i])]
           all == ListsBefore(c, n + 1)
<1>1. n \in Nat /\ \A j \in 1..n : c[j] \in Bucket
  OBVIOUS
<1> HIDE DEF n
<1>2. l \in [1..n -> Seq(CellSet)] /\ w \in [1..n -> Nat]
  BY <1>1, ListCellsFacts
<1>3. \A j \in 1..n : l[j] = ListCells(c[j]) /\ w[j] = ListBytes(c[j]) /\ Len(l[j]) = w[j]
  BY <1>1, ListCellsFacts
<1>4. ASSUME NEW j \in 1..(n + 1) PROVE ListsBefore(c, j) = Flat(l, j - 1)
  <2>1. j - 1 \in Nat /\ \A i \in 1..(j - 1) : i \in 1..n
    BY <1>1
  <2>2. First(l, j - 1) = [i \in 1..(j - 1) |-> ListCells(c[i])]
    BY <1>3, <2>1 DEF First
  <2> QED
    BY <2>2 DEF ListsBefore, Flat
<1>5. First(w, n) = w
  BY <1>1, <1>2, FirstOfAll
<1>6. ChainBytes(c) = Total(w) + 1
  BY DEF ChainBytes, n
<1> HIDE DEF l, w
<1>7. InARow(l, n, CellSet)
  BY <1>1, <1>2, FlatFacts
<1>8. Len(Flat(l, n)) = Total(w)
  <2>1. Len(Flat(l, n)) = Total(First(w, n))
    <3>1. n \in 0..n
      BY <1>1
    <3>2. \A m \in 0..n : Len(Flat(l, m)) = Total(First(w, m))
      <4>1. n \in Nat /\ w \in [1..n -> Nat]
        BY <1>1, <1>2
      <4>2. \A m \in 1..n : Len(l[m]) = w[m]
        BY <1>3
      <4> QED
        BY <1>7, <4>1, <4>2, FlatLength, SMTT(30)
    <3> QED
      BY <3>1, <3>2
  <2> QED
    BY <1>5, <2>1
<1>9. all = Flat(l, n) /\ all \in Seq(CellSet) /\ Len(all) \in Nat
  <2>1. n + 1 \in 1..(n + 1) /\ (n + 1) - 1 = n /\ n \in 0..n
    BY <1>1
  <2> QED
    BY <1>4, <1>7, <2>1 DEF InARow
<1> HIDE DEF all
<1>10. Sentinel \in CellSet /\ Sentinel.number = 0
  BY CellFacts, CellTypes DEF Sentinel
<1>11. /\ ChainCells(c) = all \o <<Sentinel>>
       /\ ChainCells(c) \in Seq(CellSet) /\ Len(ChainCells(c)) = Len(all) + 1
       /\ \A i \in 1..Len(all) : ChainCells(c)[i] = all[i]
       /\ ChainCells(c)[Len(all) + 1] = Sentinel
  <2>1. ChainCells(c) = all \o <<Sentinel>>
    BY DEF ChainCells, all, n
  <2>2. <<Sentinel>> \in Seq(CellSet) /\ Len(<<Sentinel>>) = 1 /\ <<Sentinel>>[1] = Sentinel
    BY <1>10, OneFacts
  <2>3. 1 \in 1..Len(<<Sentinel>>)
    BY <2>2
  <2>4. /\ all \o <<Sentinel>> \in Seq(CellSet)
        /\ Len(all \o <<Sentinel>>) = Len(all) + Len(<<Sentinel>>)
        /\ \A i \in 1..Len(all) : (all \o <<Sentinel>>)[i] = all[i]
        /\ \A i \in 1..Len(<<Sentinel>>) : (all \o <<Sentinel>>)[Len(all) + i] = <<Sentinel>>[i]
    BY <1>9, <2>2, ConcatLaws
  <2> QED
    BY <2>1, <2>2, <2>3, <2>4, Zenon
<1>12. Len(ListsBefore(c, 1)) = 0
  <2>1. 1 \in 1..(n + 1) /\ 1 - 1 = 0
    BY <1>1
  <2> QED
    BY <1>4, <1>7, <2>1 DEF InARow
<1>13. ASSUME NEW j \in 1..n
       PROVE  /\ Len(ListsBefore(c, j + 1)) = Len(ListsBefore(c, j)) + ListBytes(c[j])
              /\ \A r \in 1..ListBytes(c[j]) :
                   /\ Len(ListsBefore(c, j)) + r \in 1..Len(all)
                   /\ all[Len(ListsBefore(c, j)) + r] = ListCells(c[j])[r]
  <2>1. j \in 1..(n + 1) /\ j + 1 \in 1..(n + 1) /\ (j + 1) - 1 = j
    BY <1>1
  <2>2. ListsBefore(c, j) = Flat(l, j - 1) /\ ListsBefore(c, j + 1) = Flat(l, j)
    BY <1>4, <2>1
  <2>3. l[j] = ListCells(c[j]) /\ Len(l[j]) = ListBytes(c[j])
    BY <1>3
  <2>4. Len(Flat(l, j)) = Len(Flat(l, j - 1)) + Len(l[j])
    BY <1>7 DEF InARow
  <2>5. \A r \in 1..Len(l[j]) :
          /\ Len(Flat(l, j - 1)) + r \in 1..Len(Flat(l, n))
          /\ Flat(l, n)[Len(Flat(l, j - 1)) + r] = l[j][r]
    BY <1>7 DEF InARow
  <2> QED
    BY <1>9, <2>2, <2>3, <2>4, <2>5, Zenon
<1>14. ASSUME NEW j \in 1..(n + 1)
       PROVE  Len(ListsBefore(c, j)) \in Nat /\ Len(ListsBefore(c, j)) + 1 \in 1..(Len(all) + 1)
  <2>1. j - 1 \in 0..n
    BY <1>1
  <2>2. Len(ListsBefore(c, j)) \in Nat
    BY <1>4, <1>7, <2>1 DEF InARow
  <2>3. Len(ListsBefore(c, j)) <= Len(all)
    <3>1. CASE j = n + 1
      BY <1>9, <3>1 DEF all
    <3>2. CASE j # n + 1
      <4>1. j \in 1..n
        BY <1>1, <3>2
      <4>2. ListBytes(c[j]) \in Nat \ {0}
        BY <1>1, <4>1, ListCellsFacts
      <4>3. 1 \in 1..ListBytes(c[j])
        BY <4>2
      <4>4. Len(ListsBefore(c, j)) + 1 \in 1..Len(all)
        BY <1>13, <4>1, <4>3
      <4> QED
        BY <1>9, <2>2, <4>4
    <3> QED
      BY <3>1, <3>2
  <2> QED
    BY <1>9, <2>2, <2>3
<1>15. \A i \in 1..Len(all) : i \in 1..(Len(all) + 1)
  BY <1>9
<1>16. /\ Len(ChainCells(c)) = ChainBytes(c) /\ ChainBytes(c) \in Nat
  BY <1>6, <1>8, <1>9, <1>11
<1>17. ASSUME NEW j \in 1..n, NEW r \in 1..ListBytes(c[j])
       PROVE  /\ Len(ListsBefore(c, j)) + r \in 1..Len(ChainCells(c))
              /\ ChainCells(c)[Len(ListsBefore(c, j)) + r] = ListCells(c[j])[r]
  <2>1. /\ Len(ListsBefore(c, j)) + r \in 1..Len(all)
        /\ all[Len(ListsBefore(c, j)) + r] = ListCells(c[j])[r]
    BY <1>13
  <2> QED
    BY <1>11, <1>15, <2>1
<1> QED
  BY <1>10, <1>11, <1>12, <1>13, <1>14, <1>16, <1>17 DEF n, all

\* vectorOfBuckets returns every chain that holds a bucket, once.
LEMMA VectorFacts ==
  ASSUME TableInv
  PROVE  /\ VectorOfBuckets \in Seq(Seq(Bucket))
         /\ \A i \in 0..(tableSize - 1) : buckets[i] # << >> =>
              \E n \in 1..Len(VectorOfBuckets) :
                /\ VectorOfBuckets[n] = buckets[i]
                /\ n = CHOOSE m \in DOMAIN VectorOfBuckets :
                         IndexOf(VectorOfBuckets[m][1].key) = i
<1> DEFINE V == VectorOfBuckets
           s == [i \in 1..tableSize |->
                   IF buckets[i - 1] = << >> THEN << >> ELSE <<buckets[i - 1]>>]
<1>1. /\ tableSize \in Nat \ {0} /\ buckets \in [0..(tableSize - 1) -> Seq(Bucket)]
      /\ \A i \in 0..(tableSize - 1) : \A j \in 1..Len(buckets[i]) :
           hash[buckets[i][j].key] % tableSize = i
  BY DEF TableInv, ChainsSound
<1>2. \A i \in 1..tableSize : i - 1 \in 0..(tableSize - 1)
  BY <1>1
<1>3. ASSUME NEW i \in 1..tableSize
      PROVE  /\ s[i] \in Seq(Seq(Bucket))
             /\ buckets[i - 1] = << >> => Len(s[i]) = 0
             /\ buckets[i - 1] # << >> => Len(s[i]) = 1 /\ s[i][1] = buckets[i - 1]
  <2>1. buckets[i - 1] \in Seq(Bucket)
    BY <1>1, <1>2
  <2>2. CASE buckets[i - 1] = << >>
    <3>1. s[i] = << >>
      BY <2>2
    <3> QED
      BY <2>2, <3>1
  <2>3. CASE buckets[i - 1] # << >>
    <3>1. s[i] = <<buckets[i - 1]>>
      BY <2>3
    <3> QED
      BY <2>1, <2>3, <3>1, OneFacts
  <2> QED
    BY <2>2, <2>3
<1>4. s \in [1..tableSize -> Seq(Seq(Bucket))]
  BY <1>3
<1>5. V = FlattenSeq(s)
  BY DEF VectorOfBuckets
<1>6. First(s, tableSize) = s
  BY <1>1, <1>4, FirstOfAll
<1> HIDE DEF V, s
<1>7. V = Flat(s, tableSize)
  BY <1>5, <1>6 DEF Flat
<1>8. InARow(s, tableSize, Seq(Bucket))
  BY <1>1, <1>4, FlatFacts
<1>9. V \in Seq(Seq(Bucket)) /\ Len(V) \in Nat /\ DOMAIN V = 1..Len(V)
  <2>1. tableSize \in 0..tableSize
    BY <1>1
  <2>2. V \in Seq(Seq(Bucket))
    BY <1>7, <1>8, <2>1 DEF InARow
  <2> QED
    BY <2>2
<1> DEFINE at(i) == Len(Flat(s, i - 1)) + 1
<1>10. ASSUME NEW i \in 1..tableSize, buckets[i - 1] # << >>
       PROVE  at(i) \in 1..Len(V) /\ V[at(i)] = buckets[i - 1]
  <2>1. Len(s[i]) = 1 /\ s[i][1] = buckets[i - 1] /\ 1 \in 1..Len(s[i])
    BY <1>3, <1>10
  <2> QED
    BY <1>7, <1>8, <2>1 DEF InARow
<1>11. ASSUME NEW n \in 1..Len(V)
       PROVE  \E i \in 1..tableSize : buckets[i - 1] # << >> /\ n = at(i)
  <2>1. PICK i \in 1..tableSize : \E r \in 1..Len(s[i]) : n = Len(Flat(s, i - 1)) + r
    BY <1>7, <1>8 DEF InARow
  <2>2. PICK r \in 1..Len(s[i]) : n = Len(Flat(s, i - 1)) + r
    BY <2>1
  <2>3. buckets[i - 1] # << >> /\ r = 1
    <3>1. CASE buckets[i - 1] = << >>
      <4>1. Len(s[i]) = 0
        BY <1>3, <3>1
      <4> QED
        BY <2>2, <4>1
    <3>2. CASE buckets[i - 1] # << >>
      <4>1. Len(s[i]) = 1
        BY <1>3, <3>2
      <4> QED
        BY <2>2, <3>2, <4>1
    <3> QED
      BY <3>1, <3>2
  <2> QED
    BY <2>2, <2>3
<1> HIDE DEF at
<1>12. ASSUME NEW i \in 1..tableSize, buckets[i - 1] # << >>
       PROVE  IndexOf(V[at(i)][1].key) = i - 1
  <2>1. V[at(i)] = buckets[i - 1] /\ i - 1 \in 0..(tableSize - 1)
    BY <1>2, <1>10, <1>12
  <2>2. buckets[i - 1] \in Seq(Bucket)
    BY <1>1, <2>1
  <2>3. 1 \in 1..Len(buckets[i - 1])
    BY <1>12, <2>2
  <2> QED
    BY <1>1, <2>1, <2>3 DEF IndexOf
<1>13. ASSUME NEW i \in 0..(tableSize - 1), buckets[i] # << >>
       PROVE  \E n \in 1..Len(V) :
                /\ V[n] = buckets[i]
                /\ n = CHOOSE m \in DOMAIN V : IndexOf(V[m][1].key) = i
  <2>1. i + 1 \in 1..tableSize /\ (i + 1) - 1 = i
    BY <1>1
  <2> DEFINE n == at(i + 1)
  <2>2. n \in 1..Len(V) /\ V[n] = buckets[i] /\ IndexOf(V[n][1].key) = i
    BY <1>10, <1>12, <1>13, <2>1
  <2>3. ASSUME NEW m \in DOMAIN V, IndexOf(V[m][1].key) = i PROVE m = n
    <3>1. PICK q \in 1..tableSize : buckets[q - 1] # << >> /\ m = at(q)
      BY <1>9, <1>11
    <3>2. q - 1 = i
      BY <1>12, <2>3, <3>1
    <3> QED
      BY <2>1, <3>1, <3>2
  <2> HIDE DEF n
  <2>4. n \in DOMAIN V /\ IndexOf(V[n][1].key) = i
    BY <1>9, <2>2
  <2>5. n = CHOOSE m \in DOMAIN V : IndexOf(V[m][1].key) = i
    BY <2>3, <2>4, Zenon
  <2> QED
    BY <2>2, <2>5
<1> QED
  BY <1>9, <1>13 DEF V

\* The file is as long as was measured, and holds the chains from the place
\* behind the bucket array to that of the urls.
LEMMA WrittenFacts ==
  ASSUME TableInv, urls \in Nat
  PROVE  /\ Len(Written.cells) \in Nat /\ Written.bytes = Len(Written.cells)
         /\ Written.bytes - Written.vectorStart = urls
         /\ \A n \in 1..Len(VectorOfBuckets) :
              /\ Len(CellsBefore(n)) \in Nat
              /\ \A r \in 1..Len(ChainCells(VectorOfBuckets[n])) :
                   LET p == HeaderCells + tableSize + Len(CellsBefore(n)) + r
                   IN  /\ p \in 1..Len(Written.cells)
                       /\ Written.cells[p] = ChainCells(VectorOfBuckets[n])[r]
<1> DEFINE V == VectorOfBuckets
           n == Len(V)
           x == [i \in 1..n |-> ChainCells(V[i])]
           w == [i \in 1..n |-> ChainBytes(V[i])]
           front == HeaderCells + tableSize
           head == Repeat(Cell(1, Blank), front)
           tail == Repeat(Cell(1, Blank), urls)
           all == CellsBefore(n + 1)
           cells == (head \o all) \o tail
<1>1. tableSize \in Nat \ {0} /\ front \in Nat
  BY BlobAssumption DEF TableInv, ChainsSound
<1>2. V \in Seq(Seq(Bucket)) /\ n \in Nat /\ \A m \in 1..n : V[m] \in Seq(Bucket)
  BY VectorFacts
<1>3. /\ Written.cells = cells /\ Written.bytes = front + urls + Total(w)
      /\ Written.vectorStart = front + Len(all)
  <2>1. BytesRequired = front + urls + Total(w)
    BY DEF BytesRequired
  <2> QED
    BY <2>1 DEF Written
<1> HIDE DEF n
<1>4. /\ x \in [1..n -> Seq(CellSet)] /\ w \in [1..n -> Nat]
      /\ \A m \in 1..n : x[m] = ChainCells(V[m]) /\ Len(x[m]) = w[m]
  BY <1>2, ChainFacts
<1>5. First(w, n) = w
  BY <1>2, <1>4, FirstOfAll
<1>6. ASSUME NEW m \in 1..(n + 1) PROVE CellsBefore(m) = Flat(x, m - 1)
  <2>1. m - 1 \in Nat /\ \A i \in 1..(m - 1) : i \in 1..n
    BY <1>2
  <2>2. First(x, m - 1) = [i \in 1..(m - 1) |-> ChainCells(VectorOfBuckets[i])]
    BY <1>4, <2>1 DEF First
  <2> QED
    BY <2>2 DEF CellsBefore, Flat
<1>7. head \in Seq(CellSet) /\ Len(head) = front /\ tail \in Seq(CellSet) /\ Len(tail) = urls
  BY <1>1, RepeatFacts, CellFacts, CellTypes
<1> HIDE DEF V, x, w, front, head, tail
<1>8. InARow(x, n, CellSet)
  BY <1>2, <1>4, FlatFacts
<1>9. Len(Flat(x, n)) = Total(w)
  <2>1. n \in 0..n
    BY <1>2
  <2>2. \A m \in 0..n : Len(Flat(x, m)) = Total(First(w, m))
    BY <1>2, <1>4, <1>8, FlatLength, SMTT(30)
  <2> QED
    BY <1>5, <2>1, <2>2
<1>10. all = Flat(x, n) /\ all \in Seq(CellSet) /\ Len(all) \in Nat
  <2>1. n + 1 \in 1..(n + 1) /\ (n + 1) - 1 = n /\ n \in 0..n
    BY <1>2
  <2> QED
    BY <1>6, <1>8, <2>1 DEF InARow
<1> HIDE DEF all
<1>11. /\ head \o all \in Seq(CellSet) /\ Len(head \o all) = front + Len(all)
       /\ \A i \in 1..Len(all) : (head \o all)[front + i] = all[i]
  <2>1. /\ head \o all \in Seq(CellSet) /\ Len(head \o all) = Len(head) + Len(all)
        /\ \A i \in 1..Len(all) : (head \o all)[Len(head) + i] = all[i]
    <3>1. head \in Seq(CellSet) /\ all \in Seq(CellSet)
      BY <1>7, <1>10
    <3> QED
      BY <3>1, ConcatLaws
  <2> QED
    BY <1>7, <2>1, Zenon
<1>12. /\ cells \in Seq(CellSet) /\ Len(cells) = front + Len(all) + urls
       /\ \A i \in 1..Len(head \o all) : cells[i] = (head \o all)[i]
  BY <1>7, <1>11, ConcatLaws
<1> HIDE DEF cells
<1>13. /\ Len(Written.cells) \in Nat /\ Written.bytes = Len(Written.cells)
       /\ Written.bytes - Written.vectorStart = urls
  BY <1>1, <1>3, <1>9, <1>10, <1>12
<1>14. ASSUME NEW i \in 1..Len(all)
       PROVE  front + i \in 1..Len(cells) /\ cells[front + i] = all[i]
  <2>1. front + i \in 1..(front + Len(all)) /\ front + i \in 1..(front + Len(all) + urls)
    BY <1>1, <1>10
  <2> QED
    BY <1>11, <1>12, <2>1
<1>15. ASSUME NEW m \in 1..n PROVE Len(CellsBefore(m)) \in Nat
  <2>1. m \in 1..(n + 1) /\ m - 1 \in 0..n
    BY <1>2
  <2> QED
    BY <1>6, <1>8, <2>1 DEF InARow
<1>16. ASSUME NEW m \in 1..n, NEW r \in 1..Len(ChainCells(V[m]))
       PROVE  /\ front + Len(CellsBefore(m)) + r \in 1..Len(cells)
              /\ cells[front + Len(CellsBefore(m)) + r] = ChainCells(V[m])[r]
  <2> DEFINE i == Len(CellsBefore(m)) + r
  <2>1. m \in 1..(n + 1)
    BY <1>2
  <2>2. CellsBefore(m) = Flat(x, m - 1) /\ x[m] = ChainCells(V[m])
    BY <1>4, <1>6, <2>1
  <2>3. r \in 1..Len(x[m])
    BY <2>2
  <2>4. i \in 1..Len(all) /\ all[i] = ChainCells(V[m])[r]
    BY <1>8, <1>10, <2>2, <2>3 DEF InARow
  <2>5. front + Len(CellsBefore(m)) + r = front + i
    BY <1>1, <1>15
  <2> HIDE DEF i
  <2> QED
    BY <1>14, <2>4, <2>5
<1> QED
  BY <1>3, <1>13, <1>15, <1>16 DEF V, n, front

\* The chain of bucket i as it lies in the file: list after list up to the
\* sentinel, each with its length and its key.
ChainInFile(i) ==
  LET c == buckets[i]
      cells == Written.cells
  IN  /\ PlaceOf(i, 1) = Offset(i)
      /\ \A j \in 1..(Len(c) + 1) : PlaceOf(i, j) \in 1..Len(cells)
      /\ \A j \in 1..Len(c) :
           /\ ListBytes(c[j]) \in Nat \ {0}
           /\ PlaceOf(i, j + 1) = PlaceOf(i, j) + ListBytes(c[j])
           /\ cells[PlaceOf(i, j)].number = ListBytes(c[j])
           /\ PlaceOf(i, j) + KeyPlace(c[j].key) \in 1..Len(cells)
           /\ cells[PlaceOf(i, j) + KeyPlace(c[j].key)].string = c[j].key
      /\ cells[PlaceOf(i, Len(c) + 1)].number = 0

LEMMA ChainIsInFile ==
  ASSUME TableInv, urls \in Nat, NEW i \in 0..(tableSize - 1), buckets[i] # << >>
  PROVE  ChainInFile(i)
<1> DEFINE V == VectorOfBuckets
           c == buckets[i]
           cells == Written.cells
           last == Len(cells)
<1>1. c \in Seq(Bucket) /\ Len(c) \in Nat /\ c # << >> /\ \A j \in 1..Len(c) : c[j] \in Bucket
  <2>1. c \in Seq(Bucket)
    BY DEF TableInv, ChainsSound
  <2> QED
    BY <2>1
<1>2. PICK n \in 1..Len(V) :
        V[n] = c /\ n = CHOOSE m \in DOMAIN V : IndexOf(V[m][1].key) = i
  BY VectorFacts
<1> DEFINE base == HeaderCells + tableSize + Len(CellsBefore(n))
           before(j) == Len(ListsBefore(c, j))
<1>3. Len(CellsBefore(n)) \in Nat /\ base \in Nat
  <2>1. Len(CellsBefore(n)) \in Nat
    BY WrittenFacts
  <2> QED
    BY <2>1, BlobAssumption, SMTT(30) DEF TableInv, ChainsSound
<1>4. \A r \in 1..Len(ChainCells(c)) : base + r \in 1..last /\ cells[base + r] = ChainCells(c)[r]
  BY <1>2, WrittenFacts
<1>5. Offset(i) = base + 1
  BY <1>1, <1>2, Zenon DEF Offset
<1>6. \A j : PlaceOf(i, j) = base + 1 + before(j)
  BY <1>5 DEF PlaceOf
<1> HIDE DEF base, cells, last, c, V
<1>7. /\ before(1) = 0
      /\ \A j \in 1..(Len(c) + 1) : before(j) \in Nat /\ before(j) + 1 \in 1..Len(ChainCells(c))
      /\ \A j \in 1..Len(c) :
           /\ before(j + 1) = before(j) + ListBytes(c[j])
           /\ \A r \in 1..ListBytes(c[j]) :
                /\ before(j) + r \in 1..Len(ChainCells(c))
                /\ ChainCells(c)[before(j) + r] = ListCells(c[j])[r]
      /\ ChainCells(c)[before(Len(c) + 1) + 1].number = 0
  BY <1>1, ChainFacts
<1> HIDE DEF before
<1>8. ASSUME NEW j \in 1..(Len(c) + 1)
      PROVE  /\ PlaceOf(i, j) = base + (before(j) + 1) /\ PlaceOf(i, j) \in 1..last
             /\ cells[PlaceOf(i, j)] = ChainCells(c)[before(j) + 1]
  <2>1. PlaceOf(i, j) = base + (before(j) + 1)
    BY <1>3, <1>6, <1>7
  <2>2. before(j) + 1 \in 1..Len(ChainCells(c))
    BY <1>7
  <2> QED
    BY <1>4, <2>1, <2>2
<1>9. ASSUME NEW j \in 1..Len(c)
      PROVE  /\ ListBytes(c[j]) \in Nat \ {0}
             /\ PlaceOf(i, j + 1) = PlaceOf(i, j) + ListBytes(c[j])
             /\ cells[PlaceOf(i, j)].number = ListBytes(c[j])
             /\ PlaceOf(i, j) + KeyPlace(c[j].key) \in 1..last
             /\ cells[PlaceOf(i, j) + KeyPlace(c[j].key)].string = c[j].key
  <2> DEFINE b == c[j]
             key == KeyPlace(b.key)
  <2>1. /\ ListBytes(b) \in Nat \ {0}
        /\ ListCells(b)[1].number = ListBytes(b)
        /\ key + 1 \in 1..ListBytes(b) /\ ListCells(b)[key + 1].string = b.key
    BY <1>1, ListCellsFacts
  <2>2. key \in Nat
    BY BlobAssumption DEF KeyPlace
  <2>3. j \in 1..(Len(c) + 1) /\ j + 1 \in 1..(Len(c) + 1)
    BY <1>1
  <2>4. PlaceOf(i, j) = base + (before(j) + 1) /\ PlaceOf(i, j + 1) = base + (before(j + 1) + 1)
    BY <1>8, <2>3
  <2>5. /\ before(j) \in Nat /\ before(j + 1) = before(j) + ListBytes(b)
        /\ \A r \in 1..ListBytes(b) :
             /\ before(j) + r \in 1..Len(ChainCells(c))
             /\ ChainCells(c)[before(j) + r] = ListCells(b)[r]
    BY <1>7, <2>3
  <2>6. 1 \in 1..ListBytes(b)
    BY <2>1
  <2> HIDE DEF b, key
  <2>7. PlaceOf(i, j + 1) = PlaceOf(i, j) + ListBytes(b)
    BY <1>3, <2>1, <2>4, <2>5
  <2>8. cells[PlaceOf(i, j)].number = ListBytes(b)
    BY <1>8, <2>1, <2>3, <2>5, <2>6
  <2>9. PlaceOf(i, j) + key = base + (before(j) + (key + 1))
    BY <1>3, <2>2, <2>4, <2>5
  <2>10. /\ PlaceOf(i, j) + key \in 1..last
         /\ cells[PlaceOf(i, j) + key] = ListCells(b)[key + 1]
    BY <1>4, <2>1, <2>5, <2>9
  <2> QED
    BY <2>1, <2>7, <2>8, <2>10 DEF b, key
<1>10. PlaceOf(i, 1) = Offset(i)
  BY <1>3, <1>5, <1>6, <1>7
<1>11. cells[PlaceOf(i, Len(c) + 1)].number = 0
  <2>1. Len(c) + 1 \in 1..(Len(c) + 1)
    BY <1>1
  <2> QED
    BY <1>7, <1>8, <2>1
<1> QED
  BY <1>8, <1>9, <1>10, <1>11 DEF ChainInFile, c, cells, last

-----------------------------------------------------------------------------
(* Reading the file *)

LEMMA LeastNat ==
  ASSUME NEW S, S \subseteq Nat, S # {}
  PROVE  \E n \in S : \A m \in S : n <= m
<1> DEFINE T == {n \in Nat : \A m \in S : n <= m}
<1>1. SUFFICES ASSUME \A n \in S : \E m \in S : ~(n <= m) PROVE FALSE
  OBVIOUS
<1>2. 0 \in T
  OBVIOUS
<1>3. ASSUME NEW n \in T PROVE n + 1 \in T
  <2>1. n \notin S
    BY <1>1
  <2>2. ASSUME NEW m \in S PROVE n + 1 <= m
    BY <2>1
  <2> QED
    BY <2>2
<1>4. \A n \in Nat : n \in T
  <2> HIDE DEF T
  <2> QED
    BY <1>2, <1>3, SetInduction DEF T
<1>5. PICK s \in S : s \in Nat
  OBVIOUS
<1>6. s + 1 \in T
  BY <1>4, <1>5
<1>7. s + 1 <= s
  BY <1>6
<1> QED
  BY <1>5, <1>7

\* h is where the walk is after each turn.
Walks(h, k, keyAt) ==
  /\ h = [n \in 0..Len(blob.cells) |-> h[n]]
  /\ h[0] = blob.buckets[hash[k] % blob.numberOfBuckets]
  /\ \A n \in 1..Len(blob.cells) : h[n] = Turn(k, keyAt, h[n - 1])

LEMMA WalkIs ==
  ASSUME NEW k, NEW keyAt, NEW h, Walks(h, k, keyAt), Len(blob.cells) \in Nat
  PROVE  Walk(k, keyAt) = h[Len(blob.cells)]
<1> DEFINE last == Len(blob.cells)
           start == blob.buckets[hash[k] % blob.numberOfBuckets]
           Is(g) == g = [n \in 0..last |-> IF n = 0 THEN start ELSE Turn(k, keyAt, g[n - 1])]
           g0 == CHOOSE g : Is(g)
           S == {n \in Nat : n <= last => g0[n] = h[n]}
<1>1. Walk(k, keyAt) = g0[last]
  BY Zenon DEF Walk
<1>2. last \in Nat /\ \A n \in 0..last : n = 0 \/ n \in 1..last
  OBVIOUS
<1>0. /\ h = [n \in 0..last |-> h[n]] /\ h[0] = start
      /\ \A n \in 1..last : h[n] = Turn(k, keyAt, h[n - 1])
  BY DEF Walks
<1>3. Is(h)
  <2>1. \A n \in 0..last : h[n] = IF n = 0 THEN start ELSE Turn(k, keyAt, h[n - 1])
    BY <1>0, <1>2
  <2> HIDE DEF start
  <2> QED
    BY <1>0, <2>1
<1>4. Is(g0)
  BY <1>3, Zenon
<1>5. \A n \in 0..last : g0[n] = IF n = 0 THEN start ELSE Turn(k, keyAt, g0[n - 1])
  BY <1>4
<1> HIDE DEF g0
<1>6. 0 \in S
  <2>1. 0 \in 0..last
    BY <1>2
  <2> QED
    BY <1>0, <1>5, <2>1
<1>7. ASSUME NEW n \in S PROVE n + 1 \in S
  <2>1. SUFFICES ASSUME n + 1 <= last PROVE g0[n + 1] = h[n + 1]
    OBVIOUS
  <2>2. /\ n + 1 \in 0..last /\ n + 1 \in 1..last /\ n + 1 # 0 /\ (n + 1) - 1 = n
        /\ g0[n] = h[n]
    BY <1>2, <2>1
  <2>3. g0[n + 1] = Turn(k, keyAt, g0[n])
    BY <1>5, <2>2
  <2>4. h[n + 1] = Turn(k, keyAt, h[n])
    BY <1>0, <2>2
  <2> QED
    BY <2>2, <2>3, <2>4
<1> HIDE DEF S
<1>8. last \in S
  BY <1>2, <1>6, <1>7, SetInduction DEF S
<1> QED
  BY <1>1, <1>2, <1>8 DEF S

\* The walk along a chain ends at the first list in which the key is read, and
\* at nullptr when there is none.
LEMMA WalkEnds ==
  ASSUME TableInv, urls \in Nat, blob = Written, NEW k \in Keys, NEW keyAt
  PROVE  \/ /\ Walk(k, keyAt) = 0
            /\ \A j \in 1..Len(Chain(k)) : ~ReadAt(k, keyAt, PlaceOf(IndexOf(k), j))
         \/ \E j \in 1..Len(Chain(k)) :
              /\ Walk(k, keyAt) = PlaceOf(IndexOf(k), j)
              /\ ReadAt(k, keyAt, PlaceOf(IndexOf(k), j))
<1> DEFINE i == IndexOf(k)
           c == buckets[i]
           last == Len(blob.cells)
           P(j) == PlaceOf(i, j)
           Reads(j) == ReadAt(k, keyAt, P(j))
<1>1. i \in 0..(tableSize - 1) /\ c \in Seq(Bucket) /\ Len(c) \in Nat /\ last \in Nat
  <2>1. tableSize \in Nat \ {0} /\ buckets \in [0..(tableSize - 1) -> Seq(Bucket)]
    BY DEF TableInv, ChainsSound
  <2>2. hash[k] \in Nat
    BY TableAssumption DEF TableInv
  <2>3. i \in 0..(tableSize - 1)
    BY <2>1, <2>2 DEF IndexOf
  <2>4. c \in Seq(Bucket)
    BY <2>1, <2>3
  <2> QED
    BY <2>3, <2>4, WrittenFacts
<1>2. Chain(k) = c
  BY DEF Chain
<1>3. blob.buckets[hash[k] % blob.numberOfBuckets] = Offset(i)
  <2>1. blob.numberOfBuckets = tableSize
        /\ blob.buckets = [m \in 0..(tableSize - 1) |-> Offset(m)]
    BY DEF Written
  <2> QED
    BY <1>1, <2>1 DEF IndexOf
<1>4. CASE c = << >>
  <2> DEFINE h == [n \in 0..last |-> 0]
  <2>1. Offset(i) = 0
    BY <1>4 DEF Offset
  <2>2. \A n \in 1..last : h[n] = Turn(k, keyAt, h[n - 1])
    <3>1. Turn(k, keyAt, 0) = 0
      BY DEF Turn
    <3>2. \A n \in 1..last : n \in 0..last /\ n - 1 \in 0..last
      BY <1>1
    <3> QED
      BY <3>1, <3>2
  <2>3. h[0] = 0 /\ h[last] = 0 /\ h = [n \in 0..last |-> h[n]]
    BY <1>1
  <2> HIDE DEF h
  <2>4. Walk(k, keyAt) = 0
    <3>1. Walks(h, k, keyAt)
      BY <1>3, <2>1, <2>2, <2>3 DEF Walks
    <3> QED
      BY <1>1, <2>3, <3>1, WalkIs
  <2>5. Len(c) = 0
    BY <1>4
  <2> QED
    BY <1>2, <2>4, <2>5
<1>5. CASE c # << >>
  <2> DEFINE n0 == Len(c)
  <2>1. ChainInFile(i)
    BY <1>1, <1>5, ChainIsInFile
  <2>2. /\ P(1) = Offset(i)
        /\ \A j \in 1..(n0 + 1) : P(j) \in 1..last
        /\ \A j \in 1..n0 : /\ ListBytes(c[j]) \in Nat \ {0}
                            /\ P(j + 1) = P(j) + ListBytes(c[j])
                            /\ blob.cells[P(j)].number = ListBytes(c[j])
        /\ blob.cells[P(n0 + 1)].number = 0
    BY <2>1 DEF ChainInFile
  <2> HIDE DEF P, n0, c, i, last
  <2>3. n0 \in Nat /\ last \in Nat
    BY <1>1 DEF n0
  <2> DEFINE Stops == {j \in 1..(n0 + 1) : j = n0 + 1 \/ Reads(j)}
  <2>4. PICK e \in Stops : \A j \in Stops : e <= j
    <3>1. n0 + 1 \in Stops /\ Stops \subseteq Nat
      BY <2>3
    <3> HIDE DEF Stops
    <3>2. Stops # {}
      BY <3>1
    <3> QED
      BY <3>1, <3>2, LeastNat
  <2>5. e \in 1..(n0 + 1) /\ (e = n0 + 1 \/ Reads(e))
    BY <2>4
  <2>6. ASSUME NEW j \in 1..n0, j < e PROVE ~Reads(j)
    <3>1. j \in 1..(n0 + 1) /\ ~(e <= j)
      BY <2>3, <2>5, <2>6
    <3>2. j \notin Stops
      BY <2>4, <3>1
    <3> QED
      BY <3>1, <3>2
  <2> HIDE DEF Stops, Reads
  <2>7. \A j \in Nat : j \in 1..(n0 + 1) => j <= P(j)
    <3> DEFINE S == {j \in Nat : j \in 1..(n0 + 1) => j <= P(j)}
    <3>1. 0 \in S
      OBVIOUS
    <3>2. ASSUME NEW j \in S PROVE j + 1 \in S
      <4>1. SUFFICES ASSUME j + 1 \in 1..(n0 + 1) PROVE j + 1 <= P(j + 1)
        OBVIOUS
      <4>2. P(j + 1) \in Nat /\ P(j + 1) >= 1
        BY <2>2, <2>3, <4>1
      <4>3. CASE j = 0
        BY <4>2, <4>3
      <4>4. CASE j # 0
        <5>1. j \in 1..n0 /\ j \in 1..(n0 + 1) /\ j \in Nat
          BY <2>3, <4>1, <4>4
        <5>2. P(j + 1) = P(j) + ListBytes(c[j]) /\ ListBytes(c[j]) \in Nat \ {0} /\ P(j) \in 1..last
          BY <2>2, <5>1
        <5>3. j <= P(j)
          BY <5>1
        <5> QED
          BY <2>3, <5>1, <5>2, <5>3
      <4> QED
        BY <4>3, <4>4
    <3> HIDE DEF S
    <3>3. \A j \in Nat : j \in S
      BY <3>1, <3>2, SetInduction DEF S
    <3> QED
      BY <3>3 DEF S
  <2>8. e \in Nat /\ e <= last
    <3>1. e <= P(e) /\ P(e) \in 1..last
      BY <2>2, <2>3, <2>5, <2>7
    <3> QED
      BY <2>3, <2>5, <3>1
  <2> DEFINE end == IF e = n0 + 1 THEN 0 ELSE P(e)
             h == [n \in 0..last |-> IF n < e THEN P(n + 1) ELSE end]
  <2>9. ASSUME NEW n \in 1..last PROVE h[n] = Turn(k, keyAt, h[n - 1])
    <3>1. n \in 0..last /\ n - 1 \in 0..last /\ (n - 1) + 1 = n /\ n \in Nat
      BY <2>3
    <3>2. CASE n < e
      <4>1. n \in 1..n0 /\ n - 1 < e
        BY <2>3, <2>5, <3>1, <3>2
      <4>2. h[n - 1] = P(n) /\ h[n] = P(n + 1)
        BY <3>1, <3>2, <4>1
      <4>3. P(n) # 0 /\ ~Reads(n)
        <5>1. P(n) \in 1..last
          BY <2>2, <2>3, <4>1
        <5> QED
          BY <2>3, <2>6, <3>2, <4>1, <5>1
      <4>4. blob.cells[P(n)].number # 0 /\ P(n + 1) = P(n) + blob.cells[P(n)].number
        BY <2>2, <4>1
      <4> QED
        BY <4>2, <4>3, <4>4 DEF Turn, Reads
    <3>3. CASE n >= e
      <4>1. h[n] = end
        BY <2>8, <3>1, <3>3
      <4>2. h[n - 1] = P(e) \/ h[n - 1] = end
        BY <2>8, <3>1, <3>3
      <4>3. Turn(k, keyAt, 0) = 0
        BY DEF Turn
      <4>4. CASE e = n0 + 1
        <5>1. Turn(k, keyAt, P(e)) = 0
          BY <2>2, <4>4 DEF Turn
        <5> QED
          BY <4>1, <4>2, <4>3, <4>4, <5>1
      <4>5. CASE e # n0 + 1
        <5>1. e \in 1..n0 /\ Reads(e)
          BY <2>3, <2>5, <4>5
        <5>2. P(e) # 0 /\ blob.cells[P(e)].number # 0
          BY <2>2, <2>3, <2>5, <5>1
        <5>3. Turn(k, keyAt, P(e)) = P(e)
          BY <5>1, <5>2 DEF Turn, Reads
        <5> QED
          BY <4>1, <4>2, <4>5, <5>3
      <4> QED
        BY <4>4, <4>5
    <3> QED
      BY <2>8, <3>1, <3>2, <3>3
  <2>10. h[0] = Offset(i) /\ h[last] = end /\ h = [n \in 0..last |-> h[n]]
    <3>1. 0 \in 0..last /\ last \in 0..last /\ 0 < e /\ ~(last < e)
      BY <2>3, <2>5, <2>8
    <3> QED
      BY <2>2, <3>1
  <2> HIDE DEF h
  <2>11. Walk(k, keyAt) = end
    <3>1. Walks(h, k, keyAt)
      BY <1>3, <2>9, <2>10 DEF Walks, last
    <3> QED
      BY <2>3, <2>10, <3>1, WalkIs DEF last
  <2>12. CASE e = n0 + 1
    <3>1. \A j \in 1..n0 : ~Reads(j)
      BY <2>3, <2>6, <2>12
    <3> QED
      BY <1>2, <2>11, <2>12, <3>1 DEF Reads, P, n0, i
  <2>13. CASE e # n0 + 1
    <3>1. e \in 1..n0 /\ Reads(e)
      BY <2>3, <2>5, <2>13
    <3> QED
      BY <1>2, <2>11, <2>13, <3>1 DEF Reads, P, n0, i
  <2> QED
    BY <2>12, <2>13
<1> QED
  BY <1>4, <1>5

\* The file answers for a key with its list, or with one of the other kind
\* that is in its chain.
LEMMA WrittenAnswers ==
  ASSUME TableInv, urls \in Nat, blob = Written, NEW k \in Keys
  PROVE  AnswersFor(k, Walk(k, KeyPlace(k)))
<1> DEFINE i == IndexOf(k)
           c == Chain(k)
           keyAt == KeyPlace(k)
           place == Walk(k, keyAt)
<1>1. i \in 0..(tableSize - 1) /\ c = buckets[i] /\ c \in Seq(Bucket)
  <2>1. tableSize \in Nat \ {0} /\ buckets \in [0..(tableSize - 1) -> Seq(Bucket)]
    BY DEF TableInv, ChainsSound
  <2>2. hash[k] \in Nat
    BY TableAssumption DEF TableInv
  <2>3. i \in 0..(tableSize - 1)
    BY <2>1, <2>2 DEF IndexOf
  <2> QED
    BY <2>1, <2>3 DEF Chain
<1>2. /\ HelperFind(k) \in 1..(Len(c) + 1)
      /\ HelperFind(k) <= Len(c) => c[HelperFind(k)].key = k
      /\ \A j \in 1..Len(c) : c[j].key = k => HelperFind(k) <= Len(c)
  <2>1. HelperFind(k) = PlaceIn(c, k)
    BY DEF HelperFind, PlaceIn
  <2> QED
    BY <1>1, <2>1, PlaceInFacts
<1>3. Found(k) <=> HelperFind(k) <= Len(c)
  BY DEF Found
<1>4. \A j \in 1..Len(c) :
        /\ PlaceOf(i, j) + KeyPlace(c[j].key) <= Len(blob.cells)
        /\ blob.cells[PlaceOf(i, j) + KeyPlace(c[j].key)].string = c[j].key
  <2>1. CASE c = << >>
    BY <2>1
  <2>2. CASE c # << >>
    <3>1. ChainInFile(i)
      BY <1>1, <2>2, ChainIsInFile
    <3>2. Len(blob.cells) \in Nat
      BY WrittenFacts
    <3> QED
      BY <1>1, <3>1, <3>2 DEF ChainInFile
  <2> QED
    BY <2>1, <2>2
<1>5. ASSUME NEW j \in 1..Len(c), NEW m \in 1..Len(c), c[j].key = c[m].key PROVE j = m
  <2>1. \A i1, i2 \in 0..(tableSize - 1) :
          \A j1 \in 1..Len(buckets[i1]), j2 \in 1..Len(buckets[i2]) :
            buckets[i1][j1].key = buckets[i2][j2].key => i1 = i2 /\ j1 = j2
    BY DEF TableInv, ChainsSound
  <2> QED
    BY <1>1, <1>5, <2>1
<1>6. CASE place = 0 /\ \A j \in 1..Len(c) : ~ReadAt(k, keyAt, PlaceOf(i, j))
  <2>1. ASSUME Found(k) PROVE FALSE
    <3> DEFINE j == HelperFind(k)
    <3>1. j \in 1..Len(c) /\ c[j].key = k
      BY <1>1, <1>2, <1>3, <2>1
    <3>2. ReadAt(k, keyAt, PlaceOf(i, j))
      BY <1>4, <3>1 DEF ReadAt
    <3> QED
      BY <1>6, <3>1, <3>2
  <2> QED
    BY <1>6, <2>1 DEF AnswersFor
<1>7. ASSUME NEW j \in 1..Len(c), place = PlaceOf(i, j), ReadAt(k, keyAt, PlaceOf(i, j))
      PROVE  AnswersFor(k, place)
  <2>1. CASE IsAnchor(c[j].key) = IsAnchor(k)
    <3>1. KeyPlace(c[j].key) = keyAt
      BY <2>1 DEF KeyPlace
    <3>2. c[j].key = k
      BY <1>4, <1>7, <3>1 DEF ReadAt
    <3>3. HelperFind(k) \in 1..Len(c) /\ c[HelperFind(k)].key = k /\ Found(k)
      BY <1>1, <1>2, <1>3, <3>2
    <3>4. HelperFind(k) = j
      BY <1>5, <3>2, <3>3
    <3> QED
      BY <1>7, <3>3, <3>4 DEF AnswersFor
  <2>2. CASE IsAnchor(c[j].key) # IsAnchor(k)
    BY <1>7, <2>2 DEF AnswersFor
  <2> QED
    BY <2>1, <2>2
<1> QED
  BY <1>6, <1>7, WalkEnds

\* The file is the one that Write leaves, since nothing is added behind it.
FileInv == blob # << >> => blob = Written

LEMMA FileStep ==
  ASSUME FileInv, [Next]_vars
  PROVE  FileInv'
<1>1. ASSUME UNCHANGED <<tableVars, urls>> PROVE Written' = Written
  BY <1>1 DEF tableVars, Written, BytesRequired, CellsBefore, VectorOfBuckets, Offset, IndexOf
<1>2. ASSUME blob' = << >> PROVE FileInv'
  BY <1>2 DEF FileInv
<1>3. ASSUME NEW n, StartDoc(n) PROVE FileInv'
  BY <1>2, <1>3 DEF StartDoc
<1>4. ASSUME NEW w, AddWord(w) PROVE FileInv'
  BY <1>2, <1>4 DEF AddWord
<1>5. ASSUME NEW t, AddAnchor(t) PROVE FileInv'
  BY <1>2, <1>5 DEF AddAnchor
<1>6. CASE OptimizeTable
  BY <1>2, <1>6 DEF OptimizeTable
<1>7. CASE WriteChunk
  BY <1>1, <1>7 DEF WriteChunk, FileInv
<1>8. CASE UNCHANGED vars
  BY <1>1, <1>8 DEF vars, FileInv
<1> QED
  BY <1>3, <1>4, <1>5, <1>6, <1>7, <1>8 DEF Next

LEMMA FileIsSound == BlobInv /\ FileInv => ChunkSound
<1> SUFFICES ASSUME TableInv, urls \in Nat, blob = Written
             PROVE  /\ Len(blob.cells) = blob.bytes
                    /\ GetUrls = urls
                    /\ \A k \in Keys : AnswersFor(k, IF IsAnchor(k) THEN FindAnchorText(k) ELSE Find(k))
  BY DEF BlobInv, EndsInv, FileInv, ChunkSound
<1>1. Len(blob.cells) = blob.bytes /\ GetUrls = urls
  BY WrittenFacts DEF GetUrls
<1>2. ASSUME NEW k \in Keys
      PROVE  AnswersFor(k, IF IsAnchor(k) THEN FindAnchorText(k) ELSE Find(k))
  <2>1. Walk(k, KeyPlace(k)) = IF IsAnchor(k) THEN FindAnchorText(k) ELSE Find(k)
    BY DEF KeyPlace, Find, FindAnchorText
  <2> QED
    BY <2>1, WrittenAnswers
<1> QED
  BY <1>1, <1>2

-----------------------------------------------------------------------------
\* The table of a chunk is sound after any sequence of additions and rebuilds:
\* HashTable's Find, Optimize and flattenHashTable keep every bucket in the
\* chain of its key, keep no key twice, and count right.
THEOREM TableAlwaysSound == Spec => []TableSound
<1>1. Init => BlobInv
  BY BlobInit
<1>2. BlobInv /\ [Next]_vars => BlobInv'
  BY BlobStep
<1>3. BlobInv => TableSound
  BY InvIsSound DEF BlobInv
<1> QED
  BY <1>1, <1>2, <1>3, PTL DEF Spec

\* HashTable is the dictionary that IndexHT takes it for: no post is lost or
\* invented, whatever the hash values are and whenever Optimize is called.
THEOREM TableIsDictionary == Spec => ImplementsDictionary
<1>1. Init => BlobInv /\ Promise!Init
  BY BlobInit
<1>2. BlobInv /\ [Next]_vars => BlobInv'
  BY BlobStep
<1>3. BlobInv /\ [Next]_vars => [Promise!Next]_Content
  BY BlobStep
<1> QED
  BY <1>1, <1>2, <1>3, PTL DEF Spec, ImplementsDictionary, Promise!Spec

\* A written chunk file ends exactly where BytesRequired said, has every url,
\* and finds every list it has: a Find goes wrong only at a list of the other
\* kind in the same chain.
THEOREM ChunkAlwaysSound == Spec => []ChunkSound
<1>1. Init => BlobInv /\ FileInv
  BY BlobInit DEF Init, FileInv
<1>2. BlobInv /\ FileInv /\ [Next]_vars => BlobInv' /\ FileInv'
  BY BlobStep, FileStep
<1>3. BlobInv /\ FileInv => ChunkSound
  BY FileIsSound
<1> QED
  BY <1>1, <1>2, <1>3, PTL DEF Spec
=============================================================================
