------------------------- MODULE PostingListProofs -------------------------
(***************************************************************************)
(* Proofs about PostingList, for any posting list, any number of levels    *)
(* and any sequence of calls.                                              *)
(***************************************************************************)
EXTENDS PostingList, SequenceTheorems, WellFoundedInduction, TLAPS

-----------------------------------------------------------------------------
(* Lists, levels *)

\* Every set of natural numbers below a bound that is not empty has a greatest
\* element.
LEMMA GreatestBelow ==
  ASSUME NEW N \in Nat, NEW S, S \subseteq 0..N, S # {}
  PROVE  \E n \in S : \A m \in S : m <= n
<1> DEFINE R == {p \in Nat \X Nat : p[1] < p[2]}
           T == {N - m : m \in S}
<1>1. IsWellFoundedOn(R, Nat)
  BY NatLessThanWellFounded, Zenon DEF OpToRel
<1>2. T \subseteq Nat /\ T # {}
  <2>1. \A m \in S : m \in Nat /\ N - m \in Nat
    OBVIOUS
  <2> QED
    BY <2>1
<1> HIDE DEF R, T
<1>3. PICK x \in T : \A y \in T : <<y, x>> \notin R
  BY <1>1, <1>2, WFMin, Zenon
<1>4. \A y \in T : ~(y < x)
  BY <1>2, <1>3 DEF R
<1>5. PICK n \in S : x = N - n
  BY DEF T
<1>6. ASSUME NEW m \in S PROVE m <= n
  <2>1. N - m \in T
    BY DEF T
  <2> QED
    BY <1>4, <1>5, <2>1
<1> QED
  BY <1>6

LEMMA PostListFacts ==
  ASSUME NEW s \in PostLists
  PROVE  /\ Len(s) \in Nat \ {0} /\ DOMAIN s = 1..Len(s)
         /\ \A j \in 1..Len(s) : s[j] \in Nat
         /\ \A j, k \in 1..Len(s) : j < k => s[j] < s[k]
<1>1. PICK n \in 1..MaxPosts : s \in [1..n -> Locations]
  BY DEF PostLists
<1>2. n \in Nat \ {0} /\ Len(s) = n /\ DOMAIN s = 1..n
  BY <1>1, LocationsAssumption
<1> QED
  BY <1>1, <1>2, LocationsAssumption DEF PostLists

\* A location has a level, and a location beyond it has the same or a higher
\* one.
LEMMA HighBitFacts ==
  /\ \A l \in Nat : /\ HighBit(l) \in Levels
                    /\ Floor[HighBit(l)] <= l
                    /\ \A g \in Levels : g > HighBit(l) => l < Floor[g]
  /\ \A l, m \in Nat : l <= m => HighBit(l) <= HighBit(m)
<1>1. ASSUME NEW l \in Nat
      PROVE  /\ HighBit(l) \in Levels
             /\ Floor[HighBit(l)] <= l
             /\ \A g \in Levels : g > HighBit(l) => l < Floor[g]
  <2> DEFINE S == {h \in Levels : Floor[h] <= l}
  <2>1. S \subseteq 0..(SYNCTABLESIZE - 1) /\ 0 \in S /\ SYNCTABLESIZE - 1 \in Nat
    BY LevelsAssumption DEF Levels
  <2> HIDE DEF S
  <2>2. PICK h \in S : \A g \in S : g <= h
    BY <2>1, GreatestBelow
  <2>3. h \in Levels /\ Floor[h] <= l /\ \A g \in Levels : g > h => l < Floor[g]
    BY <2>2, LevelsAssumption DEF S, Levels
  <2> QED
    BY <2>3 DEF HighBit
<1>2. ASSUME NEW l \in Nat, NEW m \in Nat, l <= m PROVE HighBit(l) <= HighBit(m)
  <2>1. SUFFICES ASSUME HighBit(l) > HighBit(m) PROVE FALSE
    BY <1>1, LevelsAssumption DEF Levels
  <2>2. m < Floor[HighBit(l)] /\ Floor[HighBit(l)] <= l
    BY <1>1, <2>1
  <2>3. Floor[HighBit(l)] \in Nat
    BY <1>1, LevelsAssumption
  <2> QED
    BY <1>2, <2>2, <2>3
<1> QED
  BY <1>1, <1>2

\* Seek finds an entry to start from.
LEMMA StartLevelFacts ==
  ASSUME NEW l \in Nat
  PROVE  /\ StartLevel(l) \in Levels /\ StartLevel(l) <= HighBit(l)
         /\ StartLevel(l) = 0 \/ syncTable[StartLevel(l)].absoluteLoc # 0
<1> DEFINE S == {h \in 0..HighBit(l) : h = 0 \/ syncTable[h].absoluteLoc # 0}
<1>0. HighBit(l) \in Levels /\ HighBit(l) \in Nat
  <2>1. HighBit(l) \in Levels
    BY HighBitFacts
  <2>2. Levels \subseteq Nat
    BY LevelsAssumption DEF Levels
  <2> QED
    BY <2>1, <2>2
<1>1. HighBit(l) \in Nat /\ 0 \in S /\ S \subseteq 0..HighBit(l) /\ S # {}
  BY <1>0
<1>5. 0..HighBit(l) \subseteq Levels
  BY <1>0, LevelsAssumption DEF Levels
<1> HIDE DEF S
<1>2. PICK h \in S : \A g \in S : g <= h
  BY <1>1, GreatestBelow
<1>3. /\ h \in 0..HighBit(l)
      /\ h = 0 \/ syncTable[h].absoluteLoc # 0
      /\ \A g \in (h + 1)..HighBit(l) : syncTable[g].absoluteLoc = 0
  BY <1>1, <1>2 DEF S
<1>4. /\ StartLevel(l) \in 0..HighBit(l)
      /\ StartLevel(l) = 0 \/ syncTable[StartLevel(l)].absoluteLoc # 0
  BY <1>3 DEF StartLevel
<1> QED
  BY <1>1, <1>4, <1>5

-----------------------------------------------------------------------------
(* The inductive invariant *)

\* Post j is the one entry h points at, and the first of its level.
FirstOfLevel(h, j) ==
  /\ PointsAt(h, j)
  /\ HighBit(posts[j]) >= h
  /\ \A k \in 1..(j - 1) : HighBit(posts[k]) < h

\* The sync table while it is built and after.
BuildInv ==
  /\ \A j \in 1..(currentPost - 1) : HighBit(posts[j]) < nextHighBit
  /\ \A h \in Levels \ {0} : h >= nextHighBit => syncTable[h] = NoEntry
  /\ \A h \in Levels \ {0} : h < nextHighBit =>
       \E j \in 1..(currentPost - 1) : FirstOfLevel(h, j)
  /\ PointsAt(0, 1)
  /\ op # "build" => currentPost = Len(posts) + 1

\* Where the iterator stands: on post plPtr - 1, or past the end with no post.
Positioned ==
  /\ curPost # Null =>
       curPost = IF plPtr = 1 THEN [loc |-> 0, tData |-> 0]
                 ELSE [loc |-> posts[plPtr - 1], tData |-> Attribute(plPtr - 1)]
  /\ kind = "word" => curPost # Null
  /\ curPost = Null => plPtr = Len(posts) + 1
  /\ kind = "end" /\ curPost # Null /\ plPtr > 1 =>
       prevLoc = IF plPtr = 2 THEN 0 ELSE posts[plPtr - 2]
  /\ op = "build" => plPtr = 1

\* What a Seek has passed over.
Scanned ==
  op = "scan" =>
    /\ plPtr > 1
    /\ \A k \in 1..(plPtr - 2) : posts[k] < target
    /\ curPost = Null => \A k \in 1..Len(posts) : posts[k] < target
    /\ kind = "word" => \/ posts[plPtr - 1] < target
                        \/ PointsAt(StartLevel(target), plPtr - 1)

Inv == TypeOK /\ BuildInv /\ Positioned /\ Scanned

-----------------------------------------------------------------------------
(* Building the sync table *)

\* Before the first post is looked at only entry 0 is filled.
LEMMA BuildInit == Init => BuildInv
<1> SUFFICES ASSUME Init PROVE BuildInv
  OBVIOUS
<1>1. \A h \in Levels \ {0} : syncTable[h] = NoEntry /\ h \in Nat /\ ~(h < 1)
  BY LevelsAssumption DEF Init
<1>2. PointsAt(0, 1)
  BY LevelsAssumption DEF Init, PointsAt
<1>3. 1..(1 - 1) = {}
  OBVIOUS
<1> QED
  BY <1>1, <1>2, <1>3 DEF Init, BuildInv

\* RecordPost adds the entries of the levels its post is the first to reach.
LEMMA BuildStep ==
  ASSUME TypeOK, BuildInv, RecordPost
  PROVE  BuildInv'
<1> DEFINE c == currentPost
           b == HighBit(posts[currentPost])
<1>1. /\ posts' = posts /\ kind' = kind /\ op = "build" /\ op' = "build"
      /\ c \in 1..Len(posts) /\ currentPost' = c + 1
      /\ nextHighBit' = IF b >= nextHighBit THEN b + 1 ELSE nextHighBit
      /\ nextHighBit \in Nat \ {0} /\ posts \in PostLists
  BY LevelsAssumption DEF RecordPost, TypeOK, listVars
<1>2. /\ Len(posts) \in Nat
      /\ \A j \in 1..Len(posts) : posts[j] \in Nat /\ HighBit(posts[j]) \in Levels
  BY <1>1, PostListFacts, HighBitFacts
<1>3. Levels \subseteq Nat /\ 0 \in Levels
  BY LevelsAssumption DEF Levels
<1>4. b \in Nat /\ b \in Levels /\ (\A j \in 1..Len(posts) : HighBit(posts[j]) \in Nat)
  BY <1>1, <1>2, <1>3
<1>5. \A h \in Levels : syncTable'[h] =
        IF nextHighBit <= h /\ h <= b
        THEN [absoluteLoc |-> posts[c], seekOffset |-> c - 1]
        ELSE syncTable[h]
  BY <1>1 DEF RecordPost
<1> HIDE DEF c, b
<1>6. \A j \in 1..(currentPost' - 1) : HighBit(posts[j])' < nextHighBit'
  <2> SUFFICES ASSUME NEW j \in 1..c PROVE HighBit(posts[j]) < nextHighBit'
    BY <1>1 DEF HighBit
  <2>1. CASE j = c
    BY <2>1, <1>1, <1>4 DEF b, c
  <2>2. CASE j \in 1..(c - 1)
    <3>1. HighBit(posts[j]) < nextHighBit /\ HighBit(posts[j]) \in Nat
      BY <2>2, <1>1, <1>2, <1>4 DEF BuildInv, c
    <3> QED
      BY <3>1, <1>1, <1>4
  <2> QED
    BY <1>1, <2>1, <2>2
<1>7. \A h \in Levels \ {0} : h >= nextHighBit' => syncTable'[h] = NoEntry
  <2> SUFFICES ASSUME NEW h \in Levels \ {0}, h >= nextHighBit'
               PROVE  syncTable'[h] = NoEntry
    OBVIOUS
  <2>1. h >= nextHighBit /\ ~(h <= b)
    BY <1>1, <1>3, <1>4
  <2> QED
    BY <2>1, <1>5 DEF BuildInv
<1>8. ASSUME NEW h \in Levels \ {0}, h < nextHighBit'
      PROVE  \E j \in 1..(currentPost' - 1) : FirstOfLevel(h, j)'
  <2>0. h \in Nat /\ h \in Levels /\ nextHighBit \in Nat /\ c \in Nat
        /\ currentPost' - 1 = c
    BY <1>1, <1>3
  <2>1. CASE h < nextHighBit
    <3>1. syncTable'[h] = syncTable[h]
      BY <2>0, <2>1, <1>5
    <3>2. PICK j \in 1..(c - 1) : FirstOfLevel(h, j)
      BY <2>1 DEF BuildInv, c
    <3>3. FirstOfLevel(h, j)'
      BY <3>1, <3>2, <1>1 DEF FirstOfLevel, PointsAt
    <3> QED
      BY <3>3, <2>0
  <2>2. CASE h >= nextHighBit
    <3>1. h <= b
      BY <2>0, <2>2, <1>1, <1>4, <1>8
    <3>0. PICK d \in 1..c : d = c
      BY <1>1, <2>0
    <3>2. PointsAt(h, d)'
      BY <2>0, <2>2, <3>0, <3>1, <1>1, <1>5 DEF PointsAt
    <3>3. \A k \in 1..(c - 1) : HighBit(posts[k]) < h
      BY <2>0, <2>2, <1>1, <1>2, <1>4 DEF BuildInv, c
    <3>4. HighBit(posts[c]) >= h
      BY <2>0, <3>1, <1>4 DEF b, c
    <3>5. FirstOfLevel(h, d)'
      BY <3>0, <3>2, <3>3, <3>4, <1>1 DEF FirstOfLevel
    <3> QED
      BY <3>0, <3>5, <2>0
  <2> QED
    BY <2>0, <2>1, <2>2
<1>9. PointsAt(0, 1)'
  BY <1>1, <1>3, <1>5 DEF BuildInv, PointsAt
<1> QED
  BY <1>1, <1>6, <1>7, <1>8, <1>9 DEF BuildInv

\* BuildInv says what SyncTableComplete promises.
LEMMA BuildGives ==
  ASSUME TypeOK, BuildInv
  PROVE  SyncTableComplete
<1> SUFFICES ASSUME NEW h \in Levels \ {0}
             PROVE  \/ /\ syncTable[h] = NoEntry
                       /\ \A j \in 1..(currentPost - 1) : HighBit(posts[j]) < h
                    \/ \E j \in 1..(currentPost - 1) :
                         /\ PointsAt(h, j)
                         /\ HighBit(posts[j]) >= h
                         /\ \A k \in 1..(j - 1) : HighBit(posts[k]) < h
  BY DEF SyncTableComplete
<1>1. h \in Nat /\ nextHighBit \in Nat
  BY LevelsAssumption DEF Levels, TypeOK
<1>2. CASE h < nextHighBit
  BY <1>2 DEF BuildInv, FirstOfLevel
<1>3. CASE h >= nextHighBit
  <2>1. \A j \in 1..(currentPost - 1) : HighBit(posts[j]) \in Nat
    <3>1. \A j \in 1..(currentPost - 1) : posts[j] \in Nat
      BY PostListFacts DEF TypeOK
    <3>2. \A j \in 1..(currentPost - 1) : HighBit(posts[j]) \in Levels
      BY <3>1, HighBitFacts
    <3> QED
      BY <3>2, LevelsAssumption DEF Levels
  <2> QED
    BY <1>1, <1>3, <2>1 DEF BuildInv
<1> QED
  BY <1>1, <1>2, <1>3

-----------------------------------------------------------------------------
(* The entry Seek starts from *)

\* It is a post, with none at or after the target before it.
LEMMA StartFacts ==
  ASSUME TypeOK, BuildInv, op = "ready", NEW l \in Nat
  PROVE  \E j \in 1..Len(posts) :
           /\ PointsAt(StartLevel(l), j)
           /\ \A k \in 1..(j - 1) : posts[k] < l
<1> DEFINE h == StartLevel(l)
<1>1. Len(posts) \in Nat \ {0} /\ \A j \in 1..Len(posts) : posts[j] \in Nat
  BY PostListFacts DEF TypeOK
<1>2. h \in Levels /\ h <= HighBit(l) /\ (h = 0 \/ syncTable[h].absoluteLoc # 0)
  BY StartLevelFacts
<1>3. HighBit(l) \in Levels /\ \A j \in 1..Len(posts) : HighBit(posts[j]) \in Levels
  BY <1>1, HighBitFacts
<1>4. /\ h \in Nat /\ HighBit(l) \in Nat
      /\ \A j \in 1..Len(posts) : HighBit(posts[j]) \in Nat
  <2>1. Levels \subseteq Nat
    BY LevelsAssumption DEF Levels
  <2> QED
    BY <1>2, <1>3, <2>1
<1> HIDE DEF h
<1>5. CASE h = 0
  BY <1>1, <1>5 DEF BuildInv, h
<1>6. CASE h # 0
  <2>1. h < nextHighBit
    <3>1. syncTable[h] # NoEntry
      BY <1>2, <1>6 DEF NoEntry
    <3> QED
      BY <3>1, <1>2, <1>4, <1>6, LevelsAssumption DEF BuildInv, TypeOK
  <2>2. PICK j \in 1..Len(posts) :
          /\ PointsAt(h, j)
          /\ \A k \in 1..(j - 1) : HighBit(posts[k]) < h
    BY <2>1, <1>1, <1>2, <1>6 DEF BuildInv, FirstOfLevel
  <2>3. ASSUME NEW k \in 1..(j - 1) PROVE posts[k] < l
    <3>1. k \in 1..Len(posts) /\ posts[k] \in Nat /\ HighBit(posts[k]) < h
      BY <1>1, <2>2
    <3>2. HighBit(posts[k]) < HighBit(l)
      BY <3>1, <1>2, <1>4
    <3>3. l <= posts[k] => HighBit(l) <= HighBit(posts[k])
      BY <3>1, HighBitFacts
    <3> QED
      BY <3>1, <3>2, <3>3, <1>4
  <2> QED
    BY <2>2, <2>3 DEF h
<1> QED
  BY <1>5, <1>6

-----------------------------------------------------------------------------
(* The iterators *)

\* What the list and the invariant say in every step of an iterator.
LEMMA ListFacts ==
  ASSUME TypeOK
  PROVE  /\ Len(posts) \in Nat \ {0} /\ plPtr \in 1..(Len(posts) + 1)
         /\ \A j \in 1..Len(posts) : posts[j] \in Nat
         /\ \A j, k \in 1..Len(posts) : j < k => posts[j] < posts[k]
         /\ \A j \in 1..Len(posts) : Attribute(j) \in Nat
         /\ \A j \in 1..Len(posts) : Delta(j) = posts[j] - (IF j = 1 THEN 0 ELSE posts[j - 1])
         /\ target \in Nat /\ kind \in {"word", "end"}
<1>1. /\ Len(posts) \in Nat \ {0}
      /\ \A j \in 1..Len(posts) : posts[j] \in Nat
      /\ \A j, k \in 1..Len(posts) : j < k => posts[j] < posts[k]
  BY PostListFacts DEF TypeOK
<1>2. \A j \in 1..Len(posts) : Delta(j) = posts[j] - (IF j = 1 THEN 0 ELSE posts[j - 1])
  BY <1>1 DEF Delta
<1> QED
  BY <1>1, <1>2 DEF TypeOK, Attribute

\* A step of either iterator's Next from where it stands.
LEMMA WordNextFacts ==
  ASSUME TypeOK, Positioned, kind = "word", op # "build", WordNext
  PROVE  /\ plPtr' \in 1..(Len(posts) + 1) /\ prevLoc' \in Nat
         /\ curPost' \in Post /\ curPost' # Null
         /\ curPost' = IF plPtr' = 1 THEN [loc |-> 0, tData |-> 0]
                       ELSE [loc |-> posts[plPtr' - 1], tData |-> 0]
         /\ plPtr' = IF plPtr > Len(posts) THEN plPtr ELSE plPtr + 1
<1>1. curPost \in Post /\ curPost.loc \in Nat
  BY DEF TypeOK, Positioned, Post
<1>2. curPost = IF plPtr = 1 THEN [loc |-> 0, tData |-> 0]
                ELSE [loc |-> posts[plPtr - 1], tData |-> 0]
  BY DEF Positioned, Attribute
<1>3. curPost.loc = IF plPtr = 1 THEN 0 ELSE posts[plPtr - 1]
  BY <1>2
<1>4. CASE plPtr > Len(posts)
  BY <1>1, <1>2, <1>4, ListFacts DEF WordNext, Positioned
<1>5. CASE plPtr <= Len(posts)
  <2>1. plPtr \in 1..Len(posts) /\ plPtr' = plPtr + 1
    BY <1>5, ListFacts DEF WordNext
  <2>2. curPost.loc + Delta(plPtr) = posts[plPtr]
    BY <1>3, <2>1, ListFacts, SMTT(30)
  <2>3. curPost' = [loc |-> posts[plPtr], tData |-> 0]
    BY <1>5, <2>1, <2>2, ListFacts DEF WordNext
  <2>4. curPost' \in Post
    BY <2>1, <2>3, ListFacts DEF Post
  <2>5. prevLoc' \in Nat
    BY <1>1 DEF WordNext
  <2> QED
    BY <2>1, <2>3, <2>4, <2>5, ListFacts, NullAssumption, SMTT(30) DEF Post
<1> QED
  BY <1>4, <1>5, ListFacts

LEMMA EndDocNextFacts ==
  ASSUME TypeOK, Positioned, kind = "end", op # "build", EndDocNext
  PROVE  /\ plPtr' \in 1..(Len(posts) + 1) /\ prevLoc' \in Nat
         /\ curPost' \in Post \cup {Null}
         /\ plPtr > Len(posts) => curPost' = Null /\ plPtr' = plPtr
         /\ plPtr <= Len(posts) =>
              /\ plPtr' = plPtr + 1
              /\ curPost' = [loc |-> posts[plPtr], tData |-> Attribute(plPtr)]
              /\ curPost' # Null
              /\ prevLoc' = IF plPtr = 1 THEN 0 ELSE posts[plPtr - 1]
<1>1. prevLoc' \in Nat
  BY DEF EndDocNext, TypeOK, Post
<1>2. CASE plPtr > Len(posts)
  BY <1>1, <1>2, ListFacts DEF EndDocNext
<1>3. CASE plPtr <= Len(posts)
  <2>1. plPtr \in 1..Len(posts) /\ plPtr' = plPtr + 1
    BY <1>3, ListFacts DEF EndDocNext
  <2>2. curPost # Null
    BY <2>1, ListFacts DEF Positioned
  <2>3. prevLoc' = IF plPtr = 1 THEN 0 ELSE posts[plPtr - 1]
    BY <2>1, <2>2 DEF Positioned, EndDocNext
  <2>4. prevLoc' + Delta(plPtr) = posts[plPtr]
    BY <2>1, <2>3, ListFacts
  <2>5. curPost' = [loc |-> posts[plPtr], tData |-> Attribute(plPtr)]
    BY <1>3, <2>4, ListFacts DEF EndDocNext
  <2>6. curPost' \in Post
    BY <2>1, <2>5, ListFacts DEF Post
  <2> QED
    BY <1>1, <2>1, <2>3, <2>5, <2>6, ListFacts, NullAssumption DEF Post
<1> QED
  BY <1>2, <1>3, ListFacts

-----------------------------------------------------------------------------
(* The invariant is inductive *)

LEMMA InvInit == Init => Inv
<1> SUFFICES ASSUME Init PROVE Inv
  OBVIOUS
<1>1. Len(posts) \in Nat \ {0} /\ posts[1] \in Nat
  BY PostListFacts DEF Init
<1>2. TypeOK
  <2>1. syncTable \in [Levels -> SyncEntry]
    BY <1>1 DEF Init, SyncEntry, NoEntry
  <2>2. 1 \in 1..SYNCTABLESIZE
    BY LevelsAssumption
  <2> QED
    BY <1>1, <2>1, <2>2 DEF Init, TypeOK, Post
<1>3. Positioned /\ Scanned
  BY NullAssumption, <1>1 DEF Init, Positioned, Scanned
<1> QED
  BY <1>2, <1>3, BuildInit DEF Inv

\* Seek starts on the post its entry names.
LEMMA SeekStep ==
  ASSUME Inv, NEW l \in Locations, Seek(l)
  PROVE  TypeOK' /\ Positioned' /\ Scanned'
<1>1. /\ op = "ready" /\ op' = "scan" /\ curPost # Null /\ target' = l
      /\ posts' = posts /\ kind' = kind /\ syncTable' = syncTable
      /\ currentPost' = currentPost /\ nextHighBit' = nextHighBit /\ result' = result
  BY DEF Seek, listVars, buildVars
<1>2. TypeOK /\ BuildInv /\ l \in Nat
  BY LocationsAssumption DEF Inv
<1>3. PICK j \in 1..Len(posts) :
        PointsAt(StartLevel(l), j) /\ \A k \in 1..(j - 1) : posts[k] < l
  BY <1>1, <1>2, StartFacts
<1>4. /\ Len(posts) \in Nat /\ j \in Nat /\ posts[j] \in Nat /\ Attribute(j) \in Nat
      /\ j > 1 => posts[j - 1] \in Nat
      /\ Delta(j) = posts[j] - (IF j = 1 THEN 0 ELSE posts[j - 1])
  BY <1>2, ListFacts
<1>5. /\ plPtr' = j + 1
      /\ curPost' = [loc |-> posts[j], tData |-> Attribute(j)]
      /\ prevLoc' = IF j = 1 THEN 0 ELSE posts[j - 1]
  <2>1. syncTable[StartLevel(l)] = [absoluteLoc |-> posts[j], seekOffset |-> j - 1]
    BY <1>3 DEF PointsAt
  <2>2. plPtr' = j + 1 /\ prevLoc' = posts[j] - Delta(j)
        /\ curPost' = [loc |-> posts[j], tData |-> Attribute(j)]
    BY <1>4, <2>1 DEF Seek
  <2> QED
    BY <1>4, <2>2
<1>6. curPost' \in Post /\ curPost' # Null
  BY <1>4, <1>5, NullAssumption DEF Post
<1>7. TypeOK'
  BY <1>1, <1>2, <1>4, <1>5, <1>6 DEF TypeOK
<1>8. Positioned'
  <2>1. plPtr' - 1 = j /\ plPtr' - 2 = j - 1 /\ plPtr' # 1 /\ (plPtr' = 2 <=> j = 1)
    BY <1>4, <1>5
  <2> QED
    BY <1>1, <1>5, <1>6, <2>1 DEF Positioned, Attribute
<1>9. Scanned'
  <2>1. PointsAt(StartLevel(target), plPtr - 1)'
    BY <1>1, <1>3, <1>4, <1>5 DEF PointsAt, StartLevel
  <2> QED
    BY <1>1, <1>3, <1>4, <1>5, <1>6, <2>1 DEF Scanned
<1> QED
  BY <1>7, <1>8, <1>9

\* A scan passes over posts before the target only, but for the first step of
\* a word's.
LEMMA WordScanStep ==
  ASSUME Inv, WordScan
  PROVE  TypeOK' /\ Positioned' /\ Scanned'
<1>1. /\ op = "scan" /\ kind = "word" /\ WordNext
      /\ target' = target /\ posts' = posts /\ kind' = kind /\ syncTable' = syncTable
      /\ currentPost' = currentPost /\ nextHighBit' = nextHighBit
      /\ op' \in {"scan", "ready"}
  BY DEF WordScan, listVars, buildVars
<1>2. TypeOK /\ Positioned /\ Scanned
  BY DEF Inv
<1>3. /\ plPtr' \in 1..(Len(posts) + 1) /\ prevLoc' \in Nat
      /\ curPost' \in Post /\ curPost' # Null
      /\ curPost' = IF plPtr' = 1 THEN [loc |-> 0, tData |-> 0]
                    ELSE [loc |-> posts[plPtr' - 1], tData |-> 0]
      /\ plPtr' = IF plPtr > Len(posts) THEN plPtr ELSE plPtr + 1
  BY <1>1, <1>2, WordNextFacts
<1>4. result' \in Post \cup {Null}
  BY <1>2, <1>3 DEF WordScan, TypeOK
<1>5. TypeOK'
  BY <1>1, <1>2, <1>3, <1>4 DEF TypeOK
<1>6. Positioned'
  BY <1>1, <1>3 DEF Positioned, Attribute
<1>7. Scanned'
  <2>1. SUFFICES ASSUME op' = "scan" PROVE Scanned'
    BY DEF Scanned
  <2>2. plPtr <= Len(posts) /\ curPost'.loc < target
    BY <2>1, <1>1 DEF WordScan
  <2>3. plPtr \in 2..Len(posts) /\ plPtr' = plPtr + 1 /\ curPost'.loc = posts[plPtr]
    BY <1>1, <1>2, <1>3, <2>2, ListFacts DEF Scanned
  <2>4. posts[plPtr] < target /\ posts[plPtr - 1] < target
    BY <1>2, <2>2, <2>3, ListFacts
  <2>5. \A k \in 1..(plPtr - 1) : posts[k] < target
    BY <1>1, <1>2, <2>3, <2>4, ListFacts DEF Scanned
  <2>6. plPtr' - 2 = plPtr - 1 /\ plPtr' - 1 = plPtr /\ plPtr' > 1
    BY <2>3
  <2> QED
    BY <1>1, <1>3, <2>4, <2>5, <2>6 DEF Scanned
<1> QED
  BY <1>5, <1>6, <1>7

LEMMA EndDocScanStep ==
  ASSUME Inv, EndDocScan
  PROVE  TypeOK' /\ Positioned' /\ Scanned'
<1>1. /\ op = "scan" /\ kind = "end" /\ op' \in {"scan", "ready"}
      /\ target' = target /\ posts' = posts /\ kind' = kind /\ syncTable' = syncTable
      /\ currentPost' = currentPost /\ nextHighBit' = nextHighBit
  BY DEF EndDocScan, listVars, buildVars
<1>2. TypeOK /\ Positioned /\ Scanned
  BY DEF Inv
<1>3. CASE curPost # Null /\ curPost.loc < target
  <2>1. EndDocNext /\ op' = "scan" /\ result' = result
    BY <1>1, <1>3 DEF EndDocScan
  <2>2. /\ plPtr' \in 1..(Len(posts) + 1) /\ prevLoc' \in Nat
        /\ curPost' \in Post \cup {Null}
        /\ plPtr > Len(posts) => curPost' = Null /\ plPtr' = plPtr
        /\ plPtr <= Len(posts) =>
             /\ plPtr' = plPtr + 1
             /\ curPost' = [loc |-> posts[plPtr], tData |-> Attribute(plPtr)]
             /\ curPost' # Null
             /\ prevLoc' = IF plPtr = 1 THEN 0 ELSE posts[plPtr - 1]
    BY <1>1, <1>2, <2>1, EndDocNextFacts
  <2>3. TypeOK'
    BY <1>1, <1>2, <2>1, <2>2 DEF TypeOK
  <2>4. plPtr > 1 /\ plPtr \in 1..(Len(posts) + 1) /\ Len(posts) \in Nat
    BY <1>1, <1>2, ListFacts DEF Scanned
  <2>5. \A k \in 1..(plPtr - 1) : posts[k] < target
    <3>1. posts[plPtr - 1] < target
      BY <1>2, <1>3, <2>4 DEF Positioned
    <3> QED
      BY <1>1, <1>2, <2>4, <3>1 DEF Scanned
  <2>6. CASE plPtr > Len(posts)
    <3>1. curPost' = Null /\ plPtr' = plPtr /\ plPtr = Len(posts) + 1
      BY <2>2, <2>4, <2>6
    <3>2. \A k \in 1..Len(posts) : posts[k] < target
      BY <2>4, <2>5, <3>1
    <3>3. Positioned'
      BY <1>1, <2>1, <3>1 DEF Positioned
    <3>4. Scanned'
      BY <1>1, <2>1, <2>4, <2>5, <3>1, <3>2 DEF Scanned
    <3> QED
      BY <2>3, <3>3, <3>4
  <2>7. CASE plPtr <= Len(posts)
    <3>1. /\ plPtr' = plPtr + 1 /\ plPtr' - 1 = plPtr /\ plPtr' - 2 = plPtr - 1
          /\ plPtr' # 1 /\ plPtr' # 2 /\ plPtr # 1 /\ plPtr' > 1
          /\ curPost' = [loc |-> posts[plPtr], tData |-> Attribute(plPtr)]
          /\ curPost' # Null /\ prevLoc' = posts[plPtr - 1]
      BY <2>2, <2>4, <2>7
    <3>2. Positioned'
      BY <1>1, <2>1, <3>1 DEF Positioned, Attribute
    <3>3. Scanned'
      BY <1>1, <2>5, <3>1 DEF Scanned
    <3> QED
      BY <2>3, <3>2, <3>3
  <2> QED
    BY <2>4, <2>6, <2>7
<1>4. CASE ~(curPost # Null /\ curPost.loc < target)
  <2>1. op' = "ready" /\ result' = curPost /\ UNCHANGED iteratorVars
    BY <1>1, <1>4 DEF EndDocScan
  <2>2. plPtr' = plPtr /\ curPost' = curPost /\ prevLoc' = prevLoc
    BY <2>1 DEF iteratorVars
  <2>3. TypeOK'
    BY <1>1, <1>2, <2>1, <2>2 DEF TypeOK
  <2> QED
    BY <1>1, <1>2, <2>1, <2>2, <2>3 DEF Positioned, Scanned, Attribute
<1> QED
  BY <1>3, <1>4

LEMMA CallNextStep ==
  ASSUME Inv, CallWordNext \/ CallEndDocNext
  PROVE  TypeOK' /\ Positioned' /\ Scanned'
<1>1. /\ op = "ready" /\ op' = "ready"
      /\ target' = target /\ posts' = posts /\ kind' = kind /\ syncTable' = syncTable
      /\ currentPost' = currentPost /\ nextHighBit' = nextHighBit
  BY DEF CallWordNext, CallEndDocNext, listVars, buildVars
<1>2. TypeOK /\ Positioned
  BY DEF Inv
<1>3. Scanned'
  BY <1>1 DEF Scanned
<1>4. CASE CallWordNext
  <2>1. kind = "word" /\ WordNext
    BY <1>4 DEF CallWordNext
  <2>2. /\ plPtr' \in 1..(Len(posts) + 1) /\ prevLoc' \in Nat
        /\ curPost' \in Post /\ curPost' # Null
        /\ curPost' = IF plPtr' = 1 THEN [loc |-> 0, tData |-> 0]
                      ELSE [loc |-> posts[plPtr' - 1], tData |-> 0]
    BY <1>1, <1>2, <2>1, WordNextFacts
  <2>3. result' \in Post \cup {Null}
    BY <1>4, <2>2 DEF CallWordNext
  <2>4. TypeOK'
    BY <1>1, <1>2, <2>2, <2>3 DEF TypeOK
  <2>5. Positioned'
    BY <1>1, <2>1, <2>2 DEF Positioned, Attribute
  <2> QED
    BY <1>3, <2>4, <2>5
<1>5. CASE CallEndDocNext
  <2>1. kind = "end" /\ EndDocNext /\ result' = curPost'
    BY <1>5 DEF CallEndDocNext
  <2>2. /\ plPtr' \in 1..(Len(posts) + 1) /\ prevLoc' \in Nat
        /\ curPost' \in Post \cup {Null}
        /\ plPtr > Len(posts) => curPost' = Null /\ plPtr' = plPtr
        /\ plPtr <= Len(posts) =>
             /\ plPtr' = plPtr + 1
             /\ curPost' = [loc |-> posts[plPtr], tData |-> Attribute(plPtr)]
             /\ curPost' # Null
             /\ prevLoc' = IF plPtr = 1 THEN 0 ELSE posts[plPtr - 1]
    BY <1>1, <1>2, <2>1, EndDocNextFacts
  <2>3. TypeOK'
    BY <1>1, <1>2, <2>1, <2>2 DEF TypeOK
  <2>4. plPtr \in 1..(Len(posts) + 1) /\ Len(posts) \in Nat
    BY <1>2, ListFacts
  <2>5. Positioned'
    <3>1. CASE plPtr > Len(posts)
      BY <1>1, <2>1, <2>2, <2>4, <3>1 DEF Positioned
    <3>2. CASE plPtr <= Len(posts)
      <4>1. plPtr' = plPtr + 1 /\ plPtr' - 1 = plPtr /\ plPtr' # 1
            /\ (plPtr' = 2 <=> plPtr = 1) /\ plPtr' - 2 = plPtr - 1
        BY <2>2, <2>4, <3>2
      <4> QED
        BY <1>1, <2>1, <2>2, <3>2, <4>1 DEF Positioned, Attribute
    <3> QED
      BY <2>4, <3>1, <3>2
  <2> QED
    BY <1>3, <2>3, <2>5
<1> QED
  BY <1>4, <1>5

LEMMA InvStep == Inv /\ [Next]_vars => Inv'
<1> SUFFICES ASSUME Inv, [Next]_vars PROVE Inv'
  OBVIOUS
<1>1. CASE RecordPost
  <2>1. BuildInv'
    BY <1>1, BuildStep DEF Inv
  <2>2. /\ posts' = posts /\ kind' = kind /\ op' = op /\ op = "build"
        /\ plPtr' = plPtr /\ curPost' = curPost /\ prevLoc' = prevLoc
        /\ target' = target /\ result' = result
        /\ currentPost \in 1..Len(posts) /\ currentPost' = currentPost + 1
    BY <1>1 DEF RecordPost, listVars, iteratorVars, Inv, TypeOK
  <2>3. posts[currentPost] \in Nat /\ Len(posts) \in Nat
    BY <2>2, PostListFacts DEF Inv, TypeOK
  <2>4. nextHighBit' \in 1..SYNCTABLESIZE
    <3>1. HighBit(posts[currentPost]) \in Levels
      BY <2>3, HighBitFacts
    <3>2. HighBit(posts[currentPost]) + 1 \in 1..SYNCTABLESIZE
      BY <3>1, LevelsAssumption DEF Levels
    <3> QED
      BY <1>1, <3>2 DEF RecordPost, Inv, TypeOK
  <2>5. syncTable' \in [Levels -> SyncEntry]
    BY <1>1, <2>2, <2>3 DEF RecordPost, Inv, TypeOK, SyncEntry
  <2>6. TypeOK'
    BY <2>2, <2>3, <2>4, <2>5 DEF Inv, TypeOK
  <2>7. Positioned' /\ Scanned'
    BY <2>2 DEF Inv, Positioned, Scanned, Attribute
  <2> QED
    BY <2>1, <2>6, <2>7 DEF Inv
<1>2. ASSUME posts' = posts, kind' = kind, UNCHANGED buildVars,
             op' # "build" => currentPost = Len(posts) + 1
      PROVE  BuildInv'
  BY <1>2 DEF buildVars, Inv, BuildInv, FirstOfLevel, PointsAt
<1>3. ASSUME op # "build" PROVE currentPost = Len(posts) + 1
  BY <1>3 DEF Inv, BuildInv
<1>4. CASE Open
  <2>1. /\ posts' = posts /\ kind' = kind /\ op = "build" /\ op' = "ready"
        /\ UNCHANGED buildVars
        /\ plPtr' = plPtr /\ curPost' = curPost /\ prevLoc' = prevLoc
        /\ target' = target /\ result' = result /\ currentPost = Len(posts) + 1
    BY <1>4, PostListFacts DEF Open, listVars, iteratorVars, Inv, TypeOK
  <2>2. BuildInv'
    BY <1>2, <2>1
  <2>3. TypeOK'
    BY <2>1 DEF Inv, TypeOK, buildVars
  <2>4. Positioned' /\ Scanned'
    BY <2>1 DEF Inv, Positioned, Scanned, Attribute
  <2> QED
    BY <2>2, <2>3, <2>4 DEF Inv
<1>5. ASSUME NEW l \in Locations, Seek(l) PROVE Inv'
  <2>1. posts' = posts /\ kind' = kind /\ UNCHANGED buildVars /\ op # "build"
    BY <1>5 DEF Seek, listVars
  <2> QED
    BY <1>2, <1>3, <1>5, <2>1, SeekStep DEF Inv
<1>6. ASSUME NEW l \in Locations, SeekAfterEnd(l) PROVE Inv'
  <2>1. /\ posts' = posts /\ kind' = kind /\ op = "ready" /\ op' = "crashed"
        /\ UNCHANGED buildVars /\ target' = l /\ l \in Nat
        /\ plPtr' = plPtr /\ curPost' = curPost /\ prevLoc' = prevLoc
        /\ result' = result
    BY <1>6, LocationsAssumption DEF SeekAfterEnd, listVars, iteratorVars
  <2>2. BuildInv'
    BY <1>2, <1>3, <2>1
  <2>3. TypeOK'
    BY <2>1 DEF Inv, TypeOK, buildVars
  <2>4. Positioned' /\ Scanned'
    BY <2>1 DEF Inv, Positioned, Scanned, Attribute
  <2> QED
    BY <2>2, <2>3, <2>4 DEF Inv
<1>7. CASE WordScan
  <2>1. posts' = posts /\ kind' = kind /\ UNCHANGED buildVars /\ op # "build"
    BY <1>7 DEF WordScan, listVars
  <2> QED
    BY <1>2, <1>3, <1>7, <2>1, WordScanStep DEF Inv
<1>8. CASE EndDocScan
  <2>1. posts' = posts /\ kind' = kind /\ UNCHANGED buildVars /\ op # "build"
    BY <1>8 DEF EndDocScan, listVars
  <2> QED
    BY <1>2, <1>3, <1>8, <2>1, EndDocScanStep DEF Inv
<1>9. CASE CallWordNext \/ CallEndDocNext
  <2>1. posts' = posts /\ kind' = kind /\ UNCHANGED buildVars /\ op # "build"
    BY <1>9 DEF CallWordNext, CallEndDocNext, listVars
  <2> QED
    BY <1>2, <1>3, <1>9, <2>1, CallNextStep DEF Inv
<1>10. CASE UNCHANGED vars
  BY <1>10 DEF vars, listVars, buildVars, iteratorVars, Inv, TypeOK, BuildInv,
     FirstOfLevel, PointsAt, Positioned, Scanned, Attribute, StartLevel
<1> QED
  BY <1>1, <1>4, <1>5, <1>6, <1>7, <1>8, <1>9, <1>10 DEF Next

LEMMA Invariance == Spec => []Inv
BY InvInit, InvStep, PTL DEF Spec

-----------------------------------------------------------------------------
(* The theorems *)

\* Building a list and reading it keep every variable in its type.
THEOREM TypeCorrect == Spec => []TypeOK
BY Invariance, PTL DEF Inv

\* While the sync table is built each entry is the first post of its level
\* walked over so far.
THEOREM SyncTableBuilt == Spec => []SyncTableComplete
<1>1. Inv => SyncTableComplete
  BY BuildGives DEF Inv
<1> QED
  BY <1>1, Invariance, PTL

\* The bounds ISREndDoc reads off the iterator are those of the document it
\* stands on.
THEOREM DocumentBoundsRight == Spec => []DocumentBounds
<1>1. Inv => DocumentBounds
  <2> SUFFICES ASSUME Inv, kind = "end", curPost # Null, plPtr > 1
               PROVE  DocumentBounds
    BY DEF DocumentBounds
  <2>1. plPtr \in Nat /\ plPtr # 1 /\ plPtr - 1 - 1 = plPtr - 2
        /\ (plPtr = 2 <=> plPtr - 1 = 1)
    BY DEF Inv, TypeOK
  <2> QED
    BY <2>1 DEF DocumentBounds, Inv, Positioned, Attribute
<1> QED
  BY <1>1, Invariance, PTL

\* Whatever was called before, Seek of the document ends finds the document
\* that holds its target.
THEOREM DocumentFound == Spec => EndDocSeekFirst
<1>1. Inv /\ [Next]_vars =>
        (kind = "end" /\ op = "scan" /\ op' = "ready" => IsFirst(result', target))
  <2> SUFFICES ASSUME Inv, [Next]_vars, kind = "end", op = "scan", op' = "ready"
               PROVE  IsFirst(result', target)
    OBVIOUS
  <2>1. EndDocScan
    BY DEF Next, vars, RecordPost, Open, Seek, SeekAfterEnd, WordScan, CallWordNext,
       CallEndDocNext
  <2>2. result' = curPost /\ ~(curPost # Null /\ curPost.loc < target)
    BY <2>1 DEF EndDocScan
  <2>3. TypeOK /\ Positioned /\ Scanned
    BY DEF Inv
  <2>4. CASE curPost = Null
    BY <2>2, <2>3, <2>4 DEF Scanned, IsFirst
  <2>5. CASE curPost # Null
    <3>1. /\ plPtr - 1 \in 1..Len(posts) /\ plPtr # 1
          /\ \A k \in 1..(plPtr - 2) : posts[k] < target
      BY <2>3, ListFacts DEF Scanned
    <3>2. curPost = [loc |-> posts[plPtr - 1], tData |-> Attribute(plPtr - 1)]
      BY <2>3, <2>5, <3>1 DEF Positioned
    <3>3. posts[plPtr - 1] >= target
      BY <2>2, <2>3, <2>5, <3>1, <3>2, ListFacts
    <3>4. (plPtr - 1) - 1 = plPtr - 2
      BY <2>3 DEF TypeOK
    <3> QED
      BY <2>2, <3>1, <3>2, <3>3, <3>4 DEF IsFirst
  <2> QED
    BY <2>4, <2>5
<1> QED
  BY <1>1, Invariance, PTL DEF Spec, EndDocSeekFirst

\* Seek of a word passes over one post of its answer at the most: the one its
\* sync entry names.
THEOREM WordFoundOrNext == Spec => WordSeekSkipsAtMostOne
<1> DEFINE Skipped ==
      \E j \in 1..(Len(posts) - 1) :
        /\ IsFirst([loc |-> posts[j], tData |-> 0], target)
        /\ PointsAt(StartLevel(target), j)
        /\ result' = [loc |-> posts[j + 1], tData |-> 0]
<1>1. Inv /\ [Next]_vars =>
        (kind = "word" /\ op = "scan" /\ op' = "ready" =>
           IsFirst(result', target) \/ Skipped)
  <2> SUFFICES ASSUME Inv, [Next]_vars, kind = "word", op = "scan", op' = "ready"
               PROVE  IsFirst(result', target) \/ Skipped
    OBVIOUS
  <2>1. WordScan
    BY DEF Next, vars, RecordPost, Open, Seek, SeekAfterEnd, EndDocScan, CallWordNext,
       CallEndDocNext
  <2>2. TypeOK /\ Positioned /\ Scanned
    BY DEF Inv
  <2>3. /\ ~(plPtr <= Len(posts) /\ curPost'.loc < target)
        /\ result' = IF curPost'.loc < target THEN Null ELSE curPost'
        /\ WordNext
    BY <2>1 DEF WordScan
  <2>4. /\ plPtr' = IF plPtr > Len(posts) THEN plPtr ELSE plPtr + 1
        /\ plPtr' # 1 => curPost' = [loc |-> posts[plPtr' - 1], tData |-> 0]
    BY <2>2, <2>3, WordNextFacts
  <2>5. /\ plPtr - 1 \in 1..Len(posts) /\ Len(posts) \in Nat /\ plPtr \in Nat
        /\ \A k \in 1..(plPtr - 2) : posts[k] < target
        /\ posts[plPtr - 1] \in Nat /\ target \in Nat
        /\ posts[plPtr - 1] < target \/ PointsAt(StartLevel(target), plPtr - 1)
        /\ (plPtr - 1) - 1 = plPtr - 2
    BY <2>2, ListFacts DEF Scanned
  <2>6. \A j \in 1..Len(posts) : Attribute(j) = 0
    BY DEF Attribute
  <2>7. CASE posts[plPtr - 1] < target
    <3>1. \A k \in 1..(plPtr - 1) : posts[k] < target
      BY <2>5, <2>7
    <3>2. CASE plPtr > Len(posts)
      <4>1. plPtr = Len(posts) + 1 /\ curPost'.loc = posts[plPtr - 1]
        BY <2>4, <2>5, <3>2
      <4>2. result' = Null
        BY <2>3, <2>7, <4>1
      <4> QED
        BY <2>5, <3>1, <4>1, <4>2 DEF IsFirst
    <3>3. CASE plPtr <= Len(posts)
      <4>1. plPtr \in 1..Len(posts) /\ plPtr' # 1 /\ plPtr' - 1 = plPtr
        BY <2>4, <2>5, <3>3
      <4>2. curPost' = [loc |-> posts[plPtr], tData |-> 0]
        BY <2>4, <4>1
      <4>3. posts[plPtr] >= target /\ result' = curPost'
        BY <2>2, <2>3, <2>5, <3>3, <4>1, <4>2, ListFacts
      <4> QED
        BY <2>6, <3>1, <4>1, <4>2, <4>3 DEF IsFirst
    <3> QED
      BY <2>5, <3>2, <3>3
  <2>8. CASE posts[plPtr - 1] >= target
    <3>1. IsFirst([loc |-> posts[plPtr - 1], tData |-> 0], target)
      BY <2>5, <2>6, <2>8 DEF IsFirst
    <3>2. CASE plPtr > Len(posts)
      <4>1. curPost' = [loc |-> posts[plPtr - 1], tData |-> 0]
        BY <2>4, <2>5, <3>2
      <4>2. result' = curPost'
        BY <2>3, <2>5, <2>8, <4>1
      <4> QED
        BY <3>1, <4>1, <4>2
    <3>3. CASE plPtr <= Len(posts)
      <4>1. plPtr - 1 \in 1..(Len(posts) - 1) /\ (plPtr - 1) + 1 = plPtr
            /\ plPtr' - 1 = plPtr /\ plPtr' # 1 /\ plPtr \in 1..Len(posts)
        BY <2>4, <2>5, <3>3
      <4>2. curPost' = [loc |-> posts[plPtr], tData |-> 0]
        BY <2>4, <4>1
      <4>3. result' = curPost'
        BY <2>2, <2>3, <2>5, <3>3, <4>1, <4>2, ListFacts
      <4>4. PointsAt(StartLevel(target), plPtr - 1)
        BY <2>5, <2>8
      <4> QED
        BY <3>1, <4>1, <4>2, <4>3, <4>4
    <3> QED
      BY <2>5, <3>2, <3>3
  <2> QED
    BY <2>5, <2>7, <2>8
<1> QED
  BY <1>1, Invariance, PTL DEF Spec, WordSeekSkipsAtMostOne

-----------------------------------------------------------------------------
(* Where a Seek ends *)

\* A word's Seek leaves the iterator on WordPost, and returns it if it is not
\* before the target.
WordSeekEnds ==
  [][kind = "word" /\ op = "scan" /\ op' = "ready" =>
       LET k == WordPost(posts, target)
       IN  /\ curPost' = [loc |-> posts[k], tData |-> 0]
           /\ result' = IF posts[k] < target THEN Null ELSE curPost']_vars

\* A document end's leaves it on EndPost, between the bounds of the document, or
\* behind the list.
EndDocSeekEnds ==
  [][kind = "end" /\ op = "scan" /\ op' = "ready" =>
       LET j == EndPost(posts, target)
       IN  /\ result' = curPost'
           /\ IF j = 0 THEN curPost' = Null /\ prevLoc' = posts[Len(posts)]
              ELSE /\ curPost' = [loc |-> posts[j], tData |-> j - 1]
                   /\ prevLoc' = IF j = 1 THEN 0 ELSE posts[j - 1]]_vars

\* The least of a set of places.
LEMMA EarliestIs ==
  ASSUME NEW S, S \subseteq Nat, NEW j \in S, \A k \in S : j <= k
  PROVE  Earliest(S) = j
<1>1. Earliest(S) \in S /\ \A k \in S : Earliest(S) <= k
  BY DEF Earliest
<1>2. Earliest(S) <= j /\ j <= Earliest(S) /\ Earliest(S) \in Nat /\ j \in Nat
  BY <1>1
<1> QED
  BY <1>2

\* The entry Seek starts from names the post SyncPost does.
LEMMA StartIsSyncPost ==
  ASSUME TypeOK, BuildInv, op # "build", NEW l \in Nat
  PROVE  SyncPost(posts, l) \in 1..Len(posts) /\ PointsAt(StartLevel(l), SyncPost(posts, l))
<1> DEFINE h == StartLevel(l)
           last == Len(posts)
           top == HighBit(posts[Len(posts)])
           level == IF HighBit(l) <= top THEN HighBit(l) ELSE top
<1>1. /\ last \in Nat \ {0} /\ DOMAIN posts = 1..last
      /\ \A j \in 1..last : posts[j] \in Nat
      /\ \A j, k \in 1..last : j < k => posts[j] < posts[k]
  BY PostListFacts DEF TypeOK
<1>2. Levels \subseteq Nat /\ 0 \in Levels
  BY LevelsAssumption
<1>3. HighBit(l) \in Levels /\ \A j \in 1..last : HighBit(posts[j]) \in Levels
  BY <1>1, HighBitFacts
<1>4. HighBit(l) \in Nat /\ top \in Nat /\ top \in Levels /\ \A j \in 1..last : HighBit(posts[j]) \in Nat
  <2>1. Len(posts) \in 1..last
    BY <1>1
  <2>2. top \in Levels
    BY <1>3, <2>1
  <2> HIDE DEF top, last
  <2> QED
    BY <1>2, <1>3, <2>2
<1>5. \A j \in 1..last : HighBit(posts[j]) <= top
  <2>1. ASSUME NEW j \in 1..last PROVE posts[j] <= posts[last]
    BY <1>1
  <2>2. last \in 1..last
    BY <1>1
  <2> QED
    BY <1>1, <2>1, <2>2, HighBitFacts
<1>6. currentPost - 1 = last /\ nextHighBit \in Nat \ {0}
  BY <1>1, LevelsAssumption DEF BuildInv, TypeOK
<1> HIDE DEF top, last
<1>7. \A g \in Levels \ {0} : g <= top =>
        \E j \in 1..last : FirstOfLevel(g, j)
  <2>1. top < nextHighBit
    <3>1. last \in 1..last
      BY <1>1
    <3> QED
      BY <1>6, <3>1 DEF BuildInv, top, last
  <2> QED
    BY <1>2, <1>4, <1>6, <2>1 DEF BuildInv
<1>8. \A g \in Levels \ {0} : g > top => syncTable[g] = NoEntry
  <2>1. SUFFICES ASSUME NEW g \in Levels \ {0}, g > top, g < nextHighBit PROVE FALSE
    BY <1>2, <1>6 DEF BuildInv
  <2>2. PICK j \in 1..last : FirstOfLevel(g, j)
    BY <1>6, <2>1 DEF BuildInv
  <2>3. HighBit(posts[j]) >= g /\ HighBit(posts[j]) <= top
    BY <1>5, <2>2 DEF FirstOfLevel
  <2> QED
    BY <1>2, <1>4, <2>1, <2>3
<1>9. ASSUME NEW g \in Levels \ {0}, g <= top PROVE syncTable[g].absoluteLoc # 0
  <2>1. PICK j \in 1..last : FirstOfLevel(g, j)
    BY <1>7, <1>9
  <2>2. syncTable[g].absoluteLoc = posts[j] /\ HighBit(posts[j]) >= g
    BY <2>1 DEF FirstOfLevel, PointsAt
  <2>3. posts[j] # 0
    <3>1. SUFFICES ASSUME posts[j] = 0 PROVE FALSE
      OBVIOUS
    <3>2. HighBit(0) \in Levels /\ HighBit(0) >= g
      BY <1>3, <2>2, <3>1
    <3>3. HighBit(0) # 0 /\ 0 < HighBit(0)
      <4>1. HighBit(0) \in Nat /\ g \in Nat \ {0}
        BY <1>2, <3>2
      <4> QED
        BY <3>2, <4>1
    <3>4. Floor[HighBit(0)] <= 0
      BY HighBitFacts
    <3>5. Floor[0] < Floor[HighBit(0)] /\ Floor[0] = 0 /\ Floor[HighBit(0)] \in Nat
      BY <1>2, <3>2, <3>3, LevelsAssumption
    <3> QED
      BY <3>4, <3>5
  <2> QED
    BY <2>2, <2>3
<1>10. h = level
  <2>1. level \in 0..HighBit(l) /\ (level = 0 \/ syncTable[level].absoluteLoc # 0)
    BY <1>3, <1>4, <1>9
  <2>2. \A g \in (level + 1)..HighBit(l) : syncTable[g].absoluteLoc = 0
    <3>1. SUFFICES ASSUME NEW g \in (level + 1)..HighBit(l) PROVE syncTable[g] = NoEntry
      BY DEF NoEntry
    <3>2. g \in Levels \ {0} /\ g > top
      BY <1>3, <1>4, LevelsAssumption
    <3> QED
      BY <1>8, <3>2
  <2>3. \A k \in 0..HighBit(l) :
          /\ k = 0 \/ syncTable[k].absoluteLoc # 0
          /\ \A g \in (k + 1)..HighBit(l) : syncTable[g].absoluteLoc = 0
          => k = level
    <3>1. SUFFICES ASSUME NEW k \in 0..HighBit(l),
                          k = 0 \/ syncTable[k].absoluteLoc # 0,
                          \A g \in (k + 1)..HighBit(l) : syncTable[g].absoluteLoc = 0,
                          k # level
                   PROVE  FALSE
      OBVIOUS
    <3>2. k < level \/ level < k
      BY <1>4, <2>1, <3>1
    <3>3. k < level => level \in (k + 1)..HighBit(l) /\ level # 0
      BY <1>4, <2>1
    <3>4. level < k => k \in (level + 1)..HighBit(l) /\ k # 0
      BY <1>4, <2>1
    <3> HIDE DEF level
    <3> QED
      BY <2>1, <2>2, <3>1, <3>2, <3>3, <3>4
  <2> HIDE DEF level
  <2> QED
    BY <2>1, <2>2, <2>3 DEF StartLevel
<1> HIDE DEF h
<1>11. SyncPost(posts, l) = IF level = 0 THEN 1
         ELSE CHOOSE j \in DOMAIN posts : /\ HighBit(posts[j]) >= level
                                          /\ \A k \in 1..(j - 1) : HighBit(posts[k]) < level
  BY Zenon DEF SyncPost, top
<1>12. CASE level = 0
  BY <1>1, <1>10, <1>11, <1>12 DEF BuildInv, h, last
<1>13. CASE level # 0
  <2>1. level \in Levels \ {0} /\ level <= top /\ level \in Nat
    BY <1>2, <1>3, <1>4, <1>13
  <2> HIDE DEF level
  <2>2. PICK j \in 1..last : FirstOfLevel(level, j)
    BY <1>7, <2>1
  <2>3. \A i \in 1..last : /\ HighBit(posts[i]) >= level
                           /\ \A k \in 1..(i - 1) : HighBit(posts[k]) < level
                           => i = j
    <3>1. SUFFICES ASSUME NEW i \in 1..last, HighBit(posts[i]) >= level,
                          \A k \in 1..(i - 1) : HighBit(posts[k]) < level, i # j
                   PROVE  FALSE
      OBVIOUS
    <3>2. i \in 1..(j - 1) \/ j \in 1..(i - 1)
      BY <1>1, <3>1
    <3>3. HighBit(posts[i]) \in Nat /\ HighBit(posts[j]) \in Nat
      BY <1>4
    <3> QED
      BY <2>1, <2>2, <3>1, <3>2, <3>3 DEF FirstOfLevel
  <2>4. SyncPost(posts, l) = j
    BY <1>1, <1>11, <1>13, <2>2, <2>3 DEF FirstOfLevel
  <2> QED
    BY <1>10, <2>2, <2>4 DEF FirstOfLevel, h, last
<1> QED
  BY <1>12, <1>13

\* A scan is behind the post it began on; one that has run off the list of the
\* document ends has left the last of them.
Begun ==
  op = "scan" =>
    /\ plPtr > syncTable[StartLevel(target)].seekOffset + 1
    /\ curPost = Null => prevLoc = posts[Len(posts)]

LEMMA BegunStep ==
  ASSUME Inv, Begun, [Next]_vars
  PROVE  Begun'
<1>1. TypeOK /\ Positioned /\ Scanned
  BY DEF Inv
<1>2. SUFFICES ASSUME op' = "scan" PROVE Begun'
  BY DEF Begun
<1>3. ASSUME NEW l \in Locations, Seek(l) PROVE Begun'
  <2>1. syncTable[StartLevel(l)].seekOffset \in Nat /\ syncTable[StartLevel(l)].absoluteLoc \in Nat
    <3>1. StartLevel(l) \in Levels
      BY <1>3, LocationsAssumption, StartLevelFacts
    <3> QED
      BY <1>1, <3>1 DEF TypeOK, SyncEntry
  <2>2. /\ syncTable' = syncTable /\ target' = l
        /\ plPtr' = syncTable[StartLevel(l)].seekOffset + 2
    BY <1>3, <2>1 DEF Seek, buildVars
  <2>3. curPost' # Null
    <3>1. Attribute(syncTable[StartLevel(l)].seekOffset + 1) \in Nat
      BY <2>1 DEF Attribute
    <3>2. curPost' \in [loc : Nat, tData : Nat]
      BY <1>3, <2>1, <3>1 DEF Seek
    <3> QED
      BY <3>2, NullAssumption
  <2>4. StartLevel(target)' = StartLevel(l)
    BY <2>2 DEF StartLevel
  <2> QED
    BY <2>1, <2>2, <2>3, <2>4 DEF Begun
<1>4. ASSUME op = "scan", posts' = posts, syncTable' = syncTable, target' = target,
             plPtr' = plPtr \/ plPtr' = plPtr + 1,
             curPost' = Null => prevLoc' = posts[Len(posts)]
      PROVE  Begun'
  <2>1. StartLevel(target)' = StartLevel(target)
    BY <1>4 DEF StartLevel
  <2>2. syncTable[StartLevel(target)].seekOffset \in Nat /\ plPtr \in Nat
    <3>1. StartLevel(target) \in Levels
      BY <1>1, StartLevelFacts DEF TypeOK
    <3> QED
      BY <1>1, <3>1 DEF TypeOK, SyncEntry
  <2> QED
    BY <1>4, <2>1, <2>2 DEF Begun
<1>5. CASE WordScan
  <2>1. /\ op = "scan" /\ kind = "word" /\ WordNext
        /\ target' = target /\ posts' = posts /\ syncTable' = syncTable
    BY <1>5 DEF WordScan, listVars, buildVars
  <2>2. curPost' # Null /\ plPtr' = IF plPtr > Len(posts) THEN plPtr ELSE plPtr + 1
    BY <1>1, <2>1, WordNextFacts
  <2> QED
    BY <1>4, <2>1, <2>2
<1>6. CASE EndDocScan
  <2>1. /\ op = "scan" /\ kind = "end" /\ EndDocNext /\ curPost # Null
        /\ target' = target /\ posts' = posts /\ syncTable' = syncTable
    BY <1>2, <1>6 DEF EndDocScan, listVars, buildVars
  <2>2. /\ plPtr > Len(posts) => plPtr' = plPtr
        /\ plPtr <= Len(posts) => plPtr' = plPtr + 1 /\ curPost' # Null
    BY <1>1, <2>1, EndDocNextFacts
  <2>3. plPtr \in 2..(Len(posts) + 1) /\ Len(posts) \in Nat
    BY <1>1, <2>1, ListFacts DEF Scanned
  <2>4. CASE plPtr > Len(posts)
    <3>1. plPtr - 1 = Len(posts) /\ plPtr # 1
      BY <2>3, <2>4
    <3>2. prevLoc' = posts[Len(posts)]
      BY <1>1, <2>1, <3>1 DEF EndDocNext, Positioned
    <3> QED
      BY <1>4, <2>1, <2>2, <2>4, <3>2
  <2>5. CASE plPtr <= Len(posts)
    BY <1>4, <2>1, <2>2, <2>5
  <2> QED
    BY <2>3, <2>4, <2>5
<1>7. CASE UNCHANGED vars
  BY <1>2, <1>7 DEF vars, listVars, buildVars, iteratorVars, Begun, StartLevel
<1> QED
  BY <1>2, <1>3, <1>5, <1>6, <1>7 DEF Next, RecordPost, Open, SeekAfterEnd, CallWordNext,
     CallEndDocNext

LEMMA BegunInvariance == Spec => [](Inv /\ Begun)
<1>1. Init => Begun
  BY DEF Init, Begun
<1> QED
  BY <1>1, InvInit, InvStep, BegunStep, PTL DEF Spec

\* What a Seek of a word ends with is a function of the list and the target,
\* whatever was called before: what StreamReaders takes for its result.
THEOREM WordSeekIsWordPost == Spec => WordSeekEnds
<1>1. ASSUME Inv, Begun, [Next]_vars, kind = "word", op = "scan", op' = "ready"
      PROVE  LET k == WordPost(posts, target)
             IN  /\ curPost' = [loc |-> posts[k], tData |-> 0]
                 /\ result' = IF posts[k] < target THEN Null ELSE curPost'
  <2> DEFINE k == plPtr' - 1
             s == SyncPost(posts, target)
             later == {i \in DOMAIN posts : i > s /\ posts[i] >= target}
  <2>1. WordScan
    BY <1>1 DEF Next, vars, RecordPost, Open, Seek, SeekAfterEnd, EndDocScan, CallWordNext,
       CallEndDocNext
  <2>2. TypeOK /\ BuildInv /\ Positioned /\ Scanned
    BY <1>1 DEF Inv
  <2>3. /\ ~(plPtr <= Len(posts) /\ curPost'.loc < target)
        /\ result' = IF curPost'.loc < target THEN Null ELSE curPost'
        /\ WordNext
    BY <1>1, <2>1 DEF WordScan
  <2>4. /\ plPtr' = IF plPtr > Len(posts) THEN plPtr ELSE plPtr + 1
        /\ plPtr' # 1 => curPost' = [loc |-> posts[plPtr' - 1], tData |-> 0]
    BY <1>1, <2>2, <2>3, WordNextFacts
  <2>5. /\ plPtr \in 2..(Len(posts) + 1) /\ Len(posts) \in Nat \ {0}
        /\ DOMAIN posts = 1..Len(posts) /\ target \in Nat
        /\ \A i \in 1..Len(posts) : posts[i] \in Nat
        /\ \A i, j \in 1..Len(posts) : i < j => posts[i] < posts[j]
        /\ \A i \in 1..(plPtr - 2) : posts[i] < target
        /\ posts[plPtr - 1] < target \/ PointsAt(StartLevel(target), plPtr - 1)
    BY <1>1, <2>2, ListFacts DEF Scanned, TypeOK
  <2>6. /\ s \in 1..Len(posts)
        /\ syncTable[StartLevel(target)].seekOffset = s - 1
        /\ s <= plPtr - 1
        /\ PointsAt(StartLevel(target), plPtr - 1) => s = plPtr - 1
    <3>1. s \in 1..Len(posts) /\ PointsAt(StartLevel(target), s)
      BY <1>1, <2>2, <2>5, StartIsSyncPost
    <3> HIDE DEF s
    <3>2. syncTable[StartLevel(target)].seekOffset = s - 1
      BY <3>1 DEF PointsAt
    <3>3. PointsAt(StartLevel(target), plPtr - 1) => s - 1 = (plPtr - 1) - 1
      BY <3>2 DEF PointsAt
    <3> QED
      BY <1>1, <2>5, <3>1, <3>2, <3>3 DEF Begun
  <2> HIDE DEF s
  <2>7. \A i \in 1..(plPtr - 1) : i > s => posts[i] < target
    BY <2>5, <2>6, SMTT(30)
  <2>8. curPost' = [loc |-> posts[k], tData |-> 0]
    BY <2>4, <2>5
  <2>9. WordPost(posts, target) = k
    <3>1. CASE plPtr <= Len(posts)
      <4>1. k = plPtr /\ k \in 1..Len(posts) /\ posts[k] >= target
        BY <2>3, <2>4, <2>5, <2>8, <3>1
      <4>2. k \in later
        BY <2>5, <2>6, <4>1
      <4>3. \A i \in later : k <= i
        BY <2>5, <2>7, <4>1
      <4>4. later \subseteq Nat
        BY <2>5
      <4>5. WordPost(posts, target) = Earliest(later)
        BY <4>2, Zenon DEF WordPost, s
      <4> HIDE DEF k, later
      <4> QED
        BY <4>2, <4>3, <4>4, <4>5, EarliestIs
    <3>2. CASE plPtr > Len(posts)
      <4>1. k = Len(posts) /\ plPtr - 1 = Len(posts)
        BY <2>4, <2>5, <3>2
      <4>2. later = {}
        BY <2>5, <2>7, <4>1
      <4>3. WordPost(posts, target) = Len(posts)
        BY <4>2, Zenon DEF WordPost, s
      <4> QED
        BY <4>1, <4>3
    <3> QED
      BY <2>5, <3>1, <3>2
  <2> HIDE DEF k
  <2> QED
    BY <2>3, <2>8, <2>9
<1>2. Inv /\ Begun /\ [Next]_vars =>
        (kind = "word" /\ op = "scan" /\ op' = "ready" =>
           LET k == WordPost(posts, target)
           IN  /\ curPost' = [loc |-> posts[k], tData |-> 0]
               /\ result' = IF posts[k] < target THEN Null ELSE curPost')
  BY <1>1
<1> QED
  BY <1>2, BegunInvariance, PTL DEF Spec, WordSeekEnds

\* So is what a Seek of the document ends ends with, and the bounds ISREndDoc
\* reads off the iterator then.
THEOREM EndDocSeekIsEndPost == Spec => EndDocSeekEnds
<1>1. ASSUME Inv, Begun, [Next]_vars, kind = "end", op = "scan", op' = "ready"
      PROVE  LET j == EndPost(posts, target)
             IN  /\ result' = curPost'
                 /\ IF j = 0 THEN curPost' = Null /\ prevLoc' = posts[Len(posts)]
                    ELSE /\ curPost' = [loc |-> posts[j], tData |-> j - 1]
                         /\ prevLoc' = IF j = 1 THEN 0 ELSE posts[j - 1]
  <2> DEFINE k == plPtr - 1
             later == {i \in DOMAIN posts : posts[i] >= target}
  <2>1. EndDocScan
    BY <1>1 DEF Next, vars, RecordPost, Open, Seek, SeekAfterEnd, WordScan, CallWordNext,
       CallEndDocNext
  <2>2. /\ result' = curPost /\ curPost' = curPost /\ prevLoc' = prevLoc
        /\ ~(curPost # Null /\ curPost.loc < target)
    BY <1>1, <2>1 DEF EndDocScan, iteratorVars
  <2>3. TypeOK /\ Positioned /\ Scanned
    BY <1>1 DEF Inv
  <2>4. /\ Len(posts) \in Nat \ {0} /\ DOMAIN posts = 1..Len(posts) /\ target \in Nat
        /\ \A i \in 1..Len(posts) : posts[i] \in Nat
        /\ plPtr \in 2..(Len(posts) + 1)
    BY <1>1, <2>3, ListFacts DEF Scanned, TypeOK
  <2>5. EndPost(posts, target) = IF later = {} THEN 0 ELSE Earliest(later)
    BY Zenon DEF EndPost
  <2>6. CASE curPost = Null
    <3>1. later = {}
      BY <1>1, <2>3, <2>4, <2>6 DEF Scanned
    <3>2. prevLoc = posts[Len(posts)]
      BY <1>1, <2>6 DEF Begun
    <3>3. EndPost(posts, target) = 0
      BY <2>5, <3>1, Zenon
    <3> QED
      BY <2>2, <2>6, <3>2, <3>3
  <2>7. CASE curPost # Null
    <3>1. /\ k \in 1..Len(posts) /\ plPtr # 1 /\ (plPtr = 2 <=> k = 1)
          /\ plPtr - 2 = k - 1 /\ k # 0
      BY <2>4
    <3>2. /\ curPost = [loc |-> posts[k], tData |-> k - 1]
          /\ prevLoc = IF k = 1 THEN 0 ELSE posts[k - 1]
      BY <1>1, <2>3, <2>4, <2>7, <3>1 DEF Positioned, Attribute
    <3>3. posts[k] >= target
      BY <2>2, <2>4, <2>7, <3>1, <3>2
    <3>4. \A i \in 1..(k - 1) : posts[i] < target
      BY <1>1, <2>3, <3>1 DEF Scanned
    <3> HIDE DEF k
    <3>5. k \in later /\ later \subseteq Nat
      BY <2>4, <3>1, <3>3
    <3>6. \A i \in later : k <= i
      BY <2>4, <3>1, <3>4
    <3>7. EndPost(posts, target) = k
      <4> HIDE DEF later
      <4>1. Earliest(later) = k
        BY <3>5, <3>6, EarliestIs
      <4> QED
        BY <2>5, <3>5, <4>1
    <3> QED
      BY <2>2, <3>1, <3>2, <3>7
  <2> QED
    BY <2>6, <2>7
<1>2. Inv /\ Begun /\ [Next]_vars =>
        (kind = "end" /\ op = "scan" /\ op' = "ready" =>
           LET j == EndPost(posts, target)
           IN  /\ result' = curPost'
               /\ IF j = 0 THEN curPost' = Null /\ prevLoc' = posts[Len(posts)]
                  ELSE /\ curPost' = [loc |-> posts[j], tData |-> j - 1]
                       /\ prevLoc' = IF j = 1 THEN 0 ELSE posts[j - 1])
  BY <1>1
<1> QED
  BY <1>2, BegunInvariance, PTL DEF Spec, EndDocSeekEnds
=============================================================================
