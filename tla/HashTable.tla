------------------------------ MODULE HashTable ------------------------------
(***************************************************************************)
(* The chained hash table (src/include/HashTable.h) in the instance that   *)
(* IndexHT uses: keys are words, values are lists of posts.  A table is an *)
(* array of chains, and its size a power of two, so that masking a hash    *)
(* value is the remainder by it.  It never grows by itself: Optimize       *)
(* rebuilds it for the buckets it holds.                                   *)
(***************************************************************************)
EXTENDS Integers, Sequences, FiniteSets, SequencesExt

CONSTANTS
  Keys, Locations,
  InitialSize,        \* DEFAULTSIZE
  HashFunctions       \* the hash values of the keys: any of these functions

ASSUME TableAssumption ==
  /\ InitialSize \in Nat \ {0}
  /\ \A f \in HashFunctions : \A k \in Keys : f[k] \in Nat
  /\ Locations \subseteq Nat

VARIABLES
  hash,               \* hashFunc, fixed
  tableSize, buckets, \* the chains, at 0..tableSize - 1
  numberOfBuckets, collisions

tableVars == <<hash, tableSize, buckets, numberOfBuckets, collisions>>

PowerOfTwo[i \in Nat] == IF i = 0 THEN 1 ELSE 2 * PowerOfTwo[i - 1]

\* computeTwosPowCeiling: the least power of two that is at least num.
TwosPowCeiling(num) ==
  PowerOfTwo[CHOOSE i \in 0..num : /\ num <= PowerOfTwo[i]
                                   /\ \A j \in 0..(i - 1) : PowerOfTwo[j] < num]

IndexOf(k) == hash[k] % tableSize
Chain(k) == buckets[IndexOf(k)]

\* Variant: only the head of a chain is compared.
FindAtHead(k) ==
  IF Chain(k) # << >> /\ Chain(k)[1].key = k THEN 1 ELSE Len(Chain(k)) + 1

\* helperFind: the place of key k in its chain, or the place behind it.
HelperFind(k) ==
  CHOOSE i \in 1..(Len(Chain(k)) + 1) :
    /\ i <= Len(Chain(k)) => Chain(k)[i].key = k
    /\ \A j \in 1..(i - 1) : Chain(k)[j].key # k

\* Find(k): whether there is an entry, and its value.
Found(k) == HelperFind(k) <= Len(Chain(k))
ValueOf(k) == Chain(k)[HelperFind(k)].value

Emptied(size) == [chains |-> [i \in 0..(size - 1) |-> << >>], collisions |-> 0]

\* Variant: the chain is looked at after bucket b came into it.
PutAndTest(table, size, b) ==
  LET i == hash[b.key] % size
      chains == [table.chains EXCEPT ![i] = Append(@, b)]
  IN  [chains |-> chains,
       collisions |-> table.collisions + IF chains[i] = << >> THEN 0 ELSE 1]

\* Bucket b goes to the end of its chain in a table of that size, and collides
\* when the chain holds a bucket already.
PutLast(table, size, b) ==
  LET i == hash[b.key] % size
  IN  [chains |-> [table.chains EXCEPT ![i] = Append(@, b)],
       collisions |-> table.collisions + IF table.chains[i] = << >> THEN 0 ELSE 1]

TableInit ==
  /\ hash \in HashFunctions
  /\ tableSize = TwosPowCeiling(InitialSize)
  /\ buckets = Emptied(tableSize).chains
  /\ numberOfBuckets = 0
  /\ collisions = 0

-----------------------------------------------------------------------------
\* Find(k, new list), when Find(k) was nullptr, and the list's first post.
AddEntry(k, loc) ==
  /\ ~Found(k)
  /\ LET table == [chains |-> buckets, collisions |-> collisions]
         added == PutLast(table, tableSize, [key |-> k, value |-> <<loc>>])
     IN  buckets' = added.chains /\ collisions' = added.collisions
  /\ numberOfBuckets' = numberOfBuckets + 1
  /\ UNCHANGED <<hash, tableSize>>

\* One more post in the list that Find(k) returned.
AddToEntry(k, loc) ==
  /\ Found(k)
  /\ buckets' = [buckets EXCEPT ![IndexOf(k)][HelperFind(k)].value = Append(@, loc)]
  /\ UNCHANGED <<hash, tableSize, numberOfBuckets, collisions>>

Add(k, loc) == AddEntry(k, loc) \/ AddToEntry(k, loc)

\* vectorOfBuckets: the chains that hold a bucket, by their index.
VectorOfBuckets ==
  FlattenSeq([i \in 1..tableSize |->
                IF buckets[i - 1] = << >> THEN << >> ELSE <<buckets[i - 1]>>])

\* flattenHashTable: chain after chain, until numberOfBuckets were met.
Flattened ==
  LET upTo[i \in 0..tableSize] ==
        IF i = 0 THEN << >>
        ELSE upTo[i - 1] \o IF Len(upTo[i - 1]) < numberOfBuckets THEN buckets[i - 1]
                            ELSE << >>
  IN  upTo[tableSize]

\* The buckets of flat, put one by one into an empty table.
Rehashed(flat, size) ==
  LET after[n \in 0..Len(flat)] ==
        IF n = 0 THEN Emptied(size) ELSE PutLast(after[n - 1], size, flat[n])
  IN  after[Len(flat)]

\* Optimize, with its load factor of 0.5.
Optimize ==
  LET size == TwosPowCeiling(2 * numberOfBuckets)
      table == Rehashed(Flattened, size)
  IN  /\ tableSize' = size
      /\ buckets' = table.chains
      /\ collisions' = table.collisions
      /\ UNCHANGED <<hash, numberOfBuckets>>

-----------------------------------------------------------------------------
Places(chains) == UNION {{i} \X (1..Len(chains[i])) : i \in DOMAIN chains}
InUse(chains) == {i \in DOMAIN chains : chains[i] # << >>}
KeyAt(p) == buckets[p[1]][p[2]].key

\* After any calls, every bucket is in the chain its key hashes to and no key
\* has two; the counts are those of the chains, as vectorOfBuckets asserts
\* (HashTable.h:215); and the size is a power of two, without which the mask
\* of helperFind would skip chains.
TableSound ==
  /\ hash \in HashFunctions
  /\ \E i \in 0..tableSize : tableSize = PowerOfTwo[i]
  /\ DOMAIN buckets = 0..(tableSize - 1)
  /\ numberOfBuckets = Cardinality(Places(buckets))
  /\ collisions = numberOfBuckets - Cardinality(InUse(buckets))
  /\ \A p \in Places(buckets) : KeyAt(p) \in Keys /\ IndexOf(KeyAt(p)) = p[1]
  /\ \A p, q \in Places(buckets) : KeyAt(p) = KeyAt(q) => p = q

\* What Find(k) shows of the table.
Content == [k \in {key \in Keys : Found(key)} |-> ValueOf(k)]

Promise == INSTANCE Dictionary WITH content <- Content

\* The table is the dictionary it stands for, whatever the hash values and
\* whenever it is rebuilt: Find returns the one list of a key, with every post
\* that was ever added to it, and Optimize loses and invents nothing.
ImplementsDictionary == Promise!Spec
=============================================================================
