---------------------------- MODULE PostingList ----------------------------
(***************************************************************************)
(* A posting list in an index chunk and the iterators over it              *)
(* (src/include/Index.h: SerializedPostingList, ListIterator,              *)
(* WordListIterator, EndDocListIterator).                                  *)
(*                                                                         *)
(* initSerializedPostingList walks over the posts once and fills the sync  *)
(* table: entry h points at the first post whose location has level h or   *)
(* more.  Seek jumps to the entry of the level of its target and scans     *)
(* from there.  A byte offset into the deltas is modelled by the number of *)
(* posts before it, and the delta of post j by posts[j] - posts[j - 1].    *)
(* One list is built, for a word or for the document ends ("%"), and then  *)
(* a client calls Seek and Next in any order.                              *)
(***************************************************************************)
EXTENDS ListSeek

CONSTANTS
  Locations,        \* the locations posts and Seek targets are taken from
  MaxPosts,         \* bound: posts in the list
  Null              \* nullptr

\* The lists appendToList can have built: locations strictly increase.
PostLists == {s \in UNION {[1..n -> Locations] : n \in 1..MaxPosts} :
                \A j, k \in DOMAIN s : j < k => s[j] < s[k]}

ASSUME LocationsAssumption == Locations \subseteq Nat /\ MaxPosts \in Nat \ {0}

ASSUME NullAssumption == Null \notin Nat /\ Null \notin [loc : Nat, tData : Nat]

VARIABLES
  kind,         \* "word" or "end": which iterator reads the list
  posts,        \* the locations of the posts
  currentPost,  \* the next post initSerializedPostingList looks at
  nextHighBit,
  syncTable,
  op,           \* "build", "ready", "scan" (inside Seek) or "crashed"
  plPtr,        \* the next post to decode
  curPost,
  prevLoc,
  target,       \* the argument of the last Seek
  result        \* what the last Seek or Next returned

listVars == <<kind, posts>>
buildVars == <<currentPost, nextHighBit, syncTable>>
iteratorVars == <<plPtr, curPost, prevLoc>>
vars == <<listVars, buildVars, iteratorVars, op, target, result>>

NoEntry == [absoluteLoc |-> 0, seekOffset |-> 0]

Delta(j) == IF j = 1 THEN posts[1] ELSE posts[j] - posts[j - 1]

\* The attribute stored with a post: for a document end its url index.
Attribute(j) == IF kind = "end" THEN j - 1 ELSE 0

-----------------------------------------------------------------------------
(* Building the sync table: initSerializedPostingList *)

Init ==
  /\ kind \in {"word", "end"}
  /\ posts \in PostLists
  /\ currentPost = 1
  /\ nextHighBit = 1
  /\ syncTable = [h \in Levels |->
                    IF h = 0 THEN [absoluteLoc |-> posts[1], seekOffset |-> 0]
                             ELSE NoEntry]
  /\ op = "build"
  /\ plPtr = 1
  /\ curPost = [loc |-> 0, tData |-> 0]
  /\ prevLoc = 0
  /\ target = 0
  /\ result = Null

\* Variant: an entry also when the level was reached before.
RecordEachPost ==
  /\ op = "build"
  /\ currentPost <= Len(posts)
  /\ LET loc == posts[currentPost]
     IN  syncTable' = [h \in Levels |->
           IF 1 <= h /\ h <= HighBit(loc)
           THEN [absoluteLoc |-> loc, seekOffset |-> currentPost - 1]
           ELSE syncTable[h]]
  /\ currentPost' = currentPost + 1
  /\ UNCHANGED <<listVars, nextHighBit, iteratorVars, op, target, result>>

\* Variant: highBit > nextHighBit in the loop over the levels.
RecordPostStrict ==
  /\ op = "build"
  /\ currentPost <= Len(posts)
  /\ LET loc == posts[currentPost]
     IN  /\ syncTable' = [h \in Levels |->
              IF nextHighBit <= h /\ h < HighBit(loc)
              THEN [absoluteLoc |-> loc, seekOffset |-> currentPost - 1]
              ELSE syncTable[h]]
         /\ nextHighBit' = IF HighBit(loc) > nextHighBit THEN HighBit(loc)
                                                         ELSE nextHighBit
  /\ currentPost' = currentPost + 1
  /\ UNCHANGED <<listVars, iteratorVars, op, target, result>>

\* One post: every level up to its own that has no entry yet points at it.
RecordPost ==
  /\ op = "build"
  /\ currentPost <= Len(posts)
  /\ LET loc == posts[currentPost]
     IN  /\ syncTable' = [h \in Levels |->
              IF nextHighBit <= h /\ h <= HighBit(loc)
              THEN [absoluteLoc |-> loc, seekOffset |-> currentPost - 1]
              ELSE syncTable[h]]
         /\ nextHighBit' = IF HighBit(loc) >= nextHighBit THEN HighBit(loc) + 1
                                                          ELSE nextHighBit
  /\ currentPost' = currentPost + 1
  /\ UNCHANGED <<listVars, iteratorVars, op, target, result>>

\* The list is written; an iterator is constructed over it.
Open ==
  /\ op = "build"
  /\ currentPost > Len(posts)
  /\ op' = "ready"
  /\ UNCHANGED <<listVars, buildVars, iteratorVars, target, result>>

-----------------------------------------------------------------------------
(* The iterators *)

\* WordListIterator::Next; at the end it returns nullptr and keeps curPost.
WordNext ==
  /\ prevLoc' = curPost.loc
  /\ IF plPtr > Len(posts)
     THEN UNCHANGED <<plPtr, curPost>>
     ELSE /\ curPost' = [loc |-> curPost.loc + Delta(plPtr), tData |-> 0]
          /\ plPtr' = plPtr + 1

\* Variant: prevLoc is set by Seek only.
EndDocNextKeepsPrev ==
  /\ UNCHANGED prevLoc
  /\ IF plPtr > Len(posts)
     THEN curPost' = Null /\ UNCHANGED plPtr
     ELSE /\ curPost' = [loc |-> curPost.loc + Delta(plPtr), tData |-> Attribute(plPtr)]
          /\ plPtr' = plPtr + 1

\* EndDocListIterator::Next; at the end curPost itself becomes nullptr.
EndDocNext ==
  /\ prevLoc' = IF curPost = Null THEN 0 ELSE curPost.loc
  /\ IF plPtr > Len(posts)
     THEN curPost' = Null /\ UNCHANGED plPtr
     ELSE /\ curPost' = [loc |-> prevLoc' + Delta(plPtr), tData |-> Attribute(plPtr)]
          /\ plPtr' = plPtr + 1

\* The entry Seek starts from: that of the target's level or, where that is
\* empty, the highest one below it that is not.
StartLevel(l) == CHOOSE h \in 0..HighBit(l) :
  /\ h = 0 \/ syncTable[h].absoluteLoc # 0
  /\ \A g \in (h + 1)..HighBit(l) : syncTable[g].absoluteLoc = 0

\* Variant: the offset of an entry counts the post itself.
SeekPast(l) ==
  /\ op = "ready"
  /\ curPost # Null
  /\ LET entry == syncTable[StartLevel(l)]
         j == entry.seekOffset + 1
     IN  /\ plPtr' = j + 2
         /\ curPost' = [loc |-> entry.absoluteLoc, tData |-> Attribute(j)]
         /\ prevLoc' = entry.absoluteLoc - Delta(j)
  /\ op' = "scan"
  /\ target' = l
  /\ UNCHANGED <<listVars, buildVars, result>>

\* The start of Seek, up to its loop.
Seek(l) ==
  /\ op = "ready"
  /\ curPost # Null
  /\ LET entry == syncTable[StartLevel(l)]
         j == entry.seekOffset + 1
     IN  /\ plPtr' = j + 1
         /\ curPost' = [loc |-> entry.absoluteLoc, tData |-> Attribute(j)]
         /\ prevLoc' = entry.absoluteLoc - Delta(j)
  /\ op' = "scan"
  /\ target' = l
  /\ UNCHANGED <<listVars, buildVars, result>>

\* EndDocListIterator::Seek after the iterator ran off the end assigns through
\* the null curPost.
SeekAfterEnd(l) ==
  /\ op = "ready"
  /\ curPost = Null
  /\ op' = "crashed"
  /\ target' = l
  /\ UNCHANGED <<listVars, buildVars, iteratorVars, result>>

\* Variant: while (Next() && curPost->loc <= l).
WordScanPast ==
  /\ op = "scan"
  /\ kind = "word"
  /\ WordNext
  /\ IF plPtr <= Len(posts) /\ curPost'.loc <= target
     THEN UNCHANGED <<op, result>>
     ELSE /\ op' = "ready"
          /\ result' = IF curPost'.loc < target THEN Null ELSE curPost'
  /\ UNCHANGED <<listVars, buildVars, target>>

\* while (Next() && curPost->loc < l);  then the test that ends Seek.
WordScan ==
  /\ op = "scan"
  /\ kind = "word"
  /\ WordNext
  /\ IF plPtr <= Len(posts) /\ curPost'.loc < target
     THEN UNCHANGED <<op, result>>
     ELSE /\ op' = "ready"
          /\ result' = IF curPost'.loc < target THEN Null ELSE curPost'
  /\ UNCHANGED <<listVars, buildVars, target>>

\* while (curPost && curPost->loc < l) Next();
EndDocScan ==
  /\ op = "scan"
  /\ kind = "end"
  /\ IF curPost # Null /\ curPost.loc < target
     THEN EndDocNext /\ UNCHANGED <<op, result>>
     ELSE /\ op' = "ready"
          /\ result' = curPost
          /\ UNCHANGED iteratorVars
  /\ UNCHANGED <<listVars, buildVars, target>>

\* A client's call of Next.
CallWordNext ==
  /\ op = "ready"
  /\ kind = "word"
  /\ WordNext
  /\ result' = IF plPtr > Len(posts) THEN Null ELSE curPost'
  /\ UNCHANGED <<listVars, buildVars, op, target>>

CallEndDocNext ==
  /\ op = "ready"
  /\ kind = "end"
  /\ EndDocNext
  /\ result' = curPost'
  /\ UNCHANGED <<listVars, buildVars, op, target>>

-----------------------------------------------------------------------------
Next ==
  \/ RecordPost \/ Open
  \/ \E l \in Locations : Seek(l) \/ SeekAfterEnd(l)
  \/ WordScan \/ EndDocScan
  \/ CallWordNext \/ CallEndDocNext

Spec == Init /\ [][Next]_vars

-----------------------------------------------------------------------------
(* What the sync table and the iterators promise *)

SyncEntry == [absoluteLoc : Nat, seekOffset : Nat]
Post == [loc : Nat, tData : Nat]

\* Every variable holds a value of its type.
TypeOK ==
  /\ kind \in {"word", "end"}
  /\ posts \in PostLists
  /\ currentPost \in 1..(Len(posts) + 1)
  /\ nextHighBit \in 1..SYNCTABLESIZE
  /\ syncTable \in [Levels -> SyncEntry]
  /\ op \in {"build", "ready", "scan", "crashed"}
  /\ plPtr \in 1..(Len(posts) + 1)
  /\ curPost \in Post \cup {Null}
  /\ prevLoc \in Nat
  /\ target \in Nat
  /\ result \in Post \cup {Null}

\* Entry h of the sync table points at post j.
PointsAt(h, j) ==
  syncTable[h] = [absoluteLoc |-> posts[j], seekOffset |-> j - 1]

\* Entry h of the sync table is the first post walked over so far whose level
\* is h or more, and empty where there is none: a Seek that starts there
\* passes over no post at or after its target.
SyncTableComplete ==
  \A h \in Levels \ {0} :
    \/ /\ syncTable[h] = NoEntry
       /\ \A j \in 1..(currentPost - 1) : HighBit(posts[j]) < h
    \/ \E j \in 1..(currentPost - 1) :
         /\ PointsAt(h, j)
         /\ HighBit(posts[j]) >= h
         /\ \A k \in 1..(j - 1) : HighBit(posts[k]) < h

\* While a document-end iterator stands on a document, curPost is its end and
\* its url index, and prevLoc the end of the document before it (0 for the
\* first): the two locations ISREndDoc takes as the bounds of the document.
DocumentBounds ==
  kind = "end" /\ curPost # Null /\ plPtr > 1 =>
    LET j == plPtr - 1
    IN  /\ curPost = [loc |-> posts[j], tData |-> j - 1]
        /\ prevLoc = IF j = 1 THEN 0 ELSE posts[j - 1]

\* r is the first post at or after l, or Null when there is none.
IsFirst(r, l) ==
  \/ r = Null /\ \A j \in 1..Len(posts) : posts[j] < l
  \/ \E j \in 1..Len(posts) :
       /\ r = [loc |-> posts[j], tData |-> Attribute(j)]
       /\ posts[j] >= l
       /\ \A k \in 1..(j - 1) : posts[k] < l

\* EndDocListIterator::Seek returns the first document end at or after its
\* target, whatever was called before: the document that holds the target.
EndDocSeekFirst ==
  [][kind = "end" /\ op = "scan" /\ op' = "ready" => IsFirst(result', target)]_vars

\* WordListIterator::Seek returns the first post at or after its target or,
\* when the sync entry it starts from is that post and not the last, the one
\* after it.
WordSeekSkipsAtMostOne ==
  [][kind = "word" /\ op = "scan" /\ op' = "ready" =>
       \/ IsFirst(result', target)
       \/ \E j \in 1..(Len(posts) - 1) :
            /\ IsFirst([loc |-> posts[j], tData |-> 0], target)
            /\ PointsAt(StartLevel(target), j)
            /\ result' = [loc |-> posts[j + 1], tData |-> 0]]_vars

\* Refuted: "give the iterator an absolute location ..., and get back the
\* first Post after that location" (Readme.md), for a word, whether or not a post
\* at the location itself counts.
WordSeekFirst ==
  [][kind = "word" /\ op = "scan" /\ op' = "ready" =>
       IsFirst(result', target) \/ IsFirst(result', target + 1)]_vars
=============================================================================
