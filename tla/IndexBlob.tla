------------------------------ MODULE IndexBlob ------------------------------
(***************************************************************************)
(* The serialized chunk (IndexBlob in src/include/Index.h, BytesRequired   *)
(* in src/src/IndexHT.cpp): the dictionary that addDoc fills is optimized, *)
(* measured, and written into a file of just that size, in which Find,     *)
(* FindAnchorText and getUrls read.                                        *)
(*                                                                         *)
(* A file is a sequence of cells.  A cell stands for a number or a string, *)
(* whose bytes are not told apart, and what is read in a cell is the       *)
(* string that begins there, if any.  A cell without one is Blank.  The    *)
(* text of an anchor key can be read without its "#".                      *)
(***************************************************************************)
EXTENDS HashTable

CONSTANTS
  Words, AnchorTexts,
  Letters,            \* the strings that the bytes of a location may spell
  SyncCells,          \* SYNCTABLESIZE
  HeaderCells,        \* the fields of IndexBlob in front of Buckets
  MaxLocation,        \* bound: the last location of the chunk
  MaxAnchors,         \* bound: the posts of an anchor text
  MaxTokens           \* bound: the tokens of a document

Body(w)      == <<"", w>>
AnchorKey(t) == <<"#", t>>
End          == <<"%", "">>
IsAnchor(k)  == k[1] = "#"

ASSUME BlobAssumption ==
  /\ Keys = {Body(w) : w \in Words} \cup {AnchorKey(t) : t \in AnchorTexts} \cup {End}
  /\ SyncCells \in Nat \ {0} /\ HeaderCells \in Nat \ {0}
  /\ MaxLocation \in Nat \ {0} /\ Locations = 0..MaxLocation
  /\ \A loc \in DOMAIN Letters : Letters[loc] \in Keys

VARIABLES
  urls,               \* how many documents there are
  pending,            \* tokens of the document that addDoc has still to add
  blob                \* the file, or << >>

vars == <<tableVars, urls, pending, blob>>

-----------------------------------------------------------------------------
(* IndexHT::addDoc *)

LastEnd == ValueOf(End)[urls]
NextEnd(n) == (IF urls = 0 THEN 0 ELSE LastEnd + 1) + n

\* A document of n tokens: its url and its end.
StartDoc(n) ==
  /\ blob = << >> /\ pending = 0
  /\ NextEnd(n) <= MaxLocation
  /\ Add(End, NextEnd(n))
  /\ urls' = urls + 1
  /\ pending' = n
  /\ UNCHANGED blob

AddWord(w) ==
  /\ blob = << >> /\ pending > 0
  /\ Add(Body(w), LastEnd - pending)
  /\ pending' = pending - 1
  /\ UNCHANGED <<urls, blob>>

\* In a post of an anchor text the frequency takes the place of the location.
AddAnchor(t) ==
  /\ blob = << >> /\ urls > 0 /\ pending = 0
  /\ Found(AnchorKey(t)) => Len(ValueOf(AnchorKey(t))) < MaxAnchors
  /\ Add(AnchorKey(t), 1)
  /\ UNCHANGED <<urls, pending, blob>>

OptimizeTable ==
  /\ blob = << >> /\ pending = 0
  /\ Optimize
  /\ UNCHANGED <<urls, pending, blob>>

-----------------------------------------------------------------------------
(* Writing *)

KeyCells(k) == IF IsAnchor(k) THEN 2 ELSE 1

\* bytesRequired of a list: its length field, the sync table of a list that
\* has one, the key, and a delta for each post.
ListBytes(b) ==
  1 + (IF IsAnchor(b.key) THEN 0 ELSE SyncCells) + KeyCells(b.key) + Len(b.value)

Total(numbers) ==
  LET upTo[n \in 0..Len(numbers)] == IF n = 0 THEN 0 ELSE upTo[n - 1] + numbers[n]
  IN  upTo[Len(numbers)]

\* A sentinel ends each chain.
ChainBytes(c) == Total([j \in 1..Len(c) |-> ListBytes(c[j])]) + 1

\* BytesRequired: header and bucket array, the chains, and the urls.
BytesRequired ==
  HeaderCells + tableSize + urls
    + Total([i \in 1..Len(VectorOfBuckets) |-> ChainBytes(VectorOfBuckets[i])])

Cell(number, string) == [number |-> number, string |-> string]
Blank == << >>
Spelled(loc) == IF loc \in DOMAIN Letters THEN Letters[loc] ELSE Blank
Repeat(cell, n) == [i \in 1..n |-> cell]

\* initSerializedPostingList and initSerializedAnchorText.
ListCells(b) ==
  LET k == b.key
      deltas == Repeat(Cell(1, Blank), Len(b.value))
      sync == <<Cell(b.value[1], Spelled(b.value[1]))>>
                \o Repeat(Cell(0, Blank), SyncCells - 1)
  IN  IF IsAnchor(k)
      THEN <<Cell(ListBytes(b), Blank), Cell(1, k), Cell(1, Body(k[2]))>> \o deltas
      ELSE <<Cell(ListBytes(b), Blank)>> \o sync \o <<Cell(1, k)>> \o deltas

Sentinel == Cell(0, Blank)
\* The lists of chain c in front of the j-th one.
ListsBefore(c, j) == FlattenSeq([i \in 1..(j - 1) |-> ListCells(c[i])])
ChainCells(c) == ListsBefore(c, Len(c) + 1) \o <<Sentinel>>

\* The chains in front of the n-th one.
CellsBefore(n) ==
  FlattenSeq([i \in 1..(n - 1) |-> ChainCells(VectorOfBuckets[i])])

\* Variant: the offsets go to the buckets one after the other.
OffsetInOrder(i) ==
  IF i >= Len(VectorOfBuckets) THEN 0
  ELSE HeaderCells + tableSize + Len(CellsBefore(i + 1)) + 1

\* Buckets[i]: where the chain of bucket i begins, 0 for an empty one.
Offset(i) ==
  IF buckets[i] = << >> THEN 0
  ELSE LET n == CHOOSE n \in DOMAIN VectorOfBuckets : IndexOf(VectorOfBuckets[n][1].key) = i
       IN  HeaderCells + tableSize + Len(CellsBefore(n)) + 1

\* IndexBlob::Write, from the front: the header and the offsets, whose values
\* buckets holds too, the chains, and the urls.
Written ==
  LET chains == CellsBefore(Len(VectorOfBuckets) + 1)
      front == HeaderCells + tableSize
  IN  [bytes |-> BytesRequired,
       numberOfBuckets |-> tableSize,
       buckets |-> [i \in 0..(tableSize - 1) |-> Offset(i)],
       vectorStart |-> front + Len(chains),
       cells |-> (Repeat(Cell(1, Blank), front) \o chains) \o Repeat(Cell(1, Blank), urls)]

\* IndexFile's constructor: the file gets the size that was measured, and then
\* Write fills it.
WriteChunk ==
  /\ blob = << >> /\ urls > 0 /\ pending = 0
  /\ blob' = Written
  /\ UNCHANGED <<tableVars, urls, pending>>

-----------------------------------------------------------------------------
(* Reading *)

\* Whether key k is read in the list at place p, keyAt cells behind its beginning.
ReadAt(k, keyAt, p) ==
  p + keyAt <= Len(blob.cells) /\ blob.cells[p + keyAt].string = k

\* A turn of the walk along a chain, at the list at place p: to the place
\* behind it, unless the key is read in it or it is the sentinel.  0 is nullptr.
Turn(k, keyAt, p) ==
  IF p = 0 \/ blob.cells[p].number = 0 THEN 0
  ELSE IF ReadAt(k, keyAt, p) THEN p
  ELSE p + blob.cells[p].number

\* Where the walk ends; it has no more turns than the file has cells.
Walk(k, keyAt) ==
  LET at[n \in 0..Len(blob.cells)] ==
        IF n = 0 THEN blob.buckets[hash[k] % blob.numberOfBuckets]
        ELSE Turn(k, keyAt, at[n - 1])
  IN  at[Len(blob.cells)]

\* IndexBlob::Find and FindAnchorText: each takes every list of the chain for
\* one of its own kind.
Find(k) == Walk(k, SyncCells + 1)
FindAnchorText(k) == Walk(k, 1)

\* getUrls: how many strings there are behind VectorStart.
GetUrls == blob.bytes - blob.vectorStart

-----------------------------------------------------------------------------
Init ==
  /\ TableInit
  /\ urls = 0
  /\ pending = 0
  /\ blob = << >>

Next ==
  \/ \E n \in 0..MaxTokens : StartDoc(n)
  \/ \E w \in Words : AddWord(w)
  \/ \E t \in AnchorTexts : AddAnchor(t)
  \/ OptimizeTable
  \/ WriteChunk

Spec == Init /\ [][Next]_vars

-----------------------------------------------------------------------------
\* Where the j-th list of bucket i begins.
PlaceOf(i, j) == Offset(i) + Len(ListsBefore(buckets[i], j))

\* What the file answers for key k: the list it has, and nothing when it has
\* none, except that a list of the other kind in the same chain may be taken
\* for it; a list that is there is never missed.
AnswersFor(k, place) ==
  \/ place = IF Found(k) THEN PlaceOf(IndexOf(k), HelperFind(k)) ELSE 0
  \/ \E j \in 1..Len(Chain(k)) :
       IsAnchor(Chain(k)[j].key) # IsAnchor(k) /\ place = PlaceOf(IndexOf(k), j)

\* A written chunk ends where BytesRequired said (the assertions of
\* Index.h:141, 178 and 492), has a url for every document, and answers for
\* every word and anchor text as AnswersFor says.
ChunkSound ==
  blob # << >> =>
    /\ Len(blob.cells) = blob.bytes
    /\ GetUrls = urls
    /\ \A k \in Keys : AnswersFor(k, IF IsAnchor(k) THEN FindAnchorText(k) ELSE Find(k))
=============================================================================
