-------------------------- MODULE IndexBuildProofs --------------------------
(***************************************************************************)
(* Proofs about IndexBuild, for any files the crawler may have left and    *)
(* for any limits of a chunk.                                              *)
(***************************************************************************)
EXTENDS IndexBuild, FiniteSetTheorems, SequenceTheorems, WellFoundedInduction, TLAPS

Writing == pc \in {"stretch", "header", "body"}

\* What type correctness needs besides TypeOK to be inductive.
TypeInv ==
  /\ TypeOK
  /\ Len(urls) = Len(docs)
  /\ Writing => currentChunk > 0

-----------------------------------------------------------------------------
(* Parts of the inductive invariants *)

\* The ends tile the locations of the index: every document has its end
\* behind its tokens, and the next one starts behind that end.
EndsTile(ds, ends) ==
  /\ Len(ends) = Len(ds)
  /\ \A d \in 1..Len(ds) : /\ ends[d].tData = d - 1
                           /\ ends[d].loc = StartOf(ends, d) + Len(ds[d].words)
  /\ Increasing(ends)

EndsInv ==
  /\ EndsTile(docs, lists[End])
  /\ numDocs = Len(docs)
  /\ urls = UrlsOf(docs)
  /\ MaximumLocation = IF docs = << >> THEN 0 ELSE LastOf(lists[End]).loc
  /\ pc = "words" => lastDocIndex = StartOf(lists[End], Len(docs))

\* The document addDoc works on, and 0 between two documents.
Open == IF pc = "words" THEN Len(docs) ELSE 0

\* list holds the posts of the tokens with key k of the documents ds, and in
\* document open of the tokens up to number at only.
PostsIn(ds, ends, list, k, open, at) ==
  /\ \A j \in 1..Len(list) :
       \E d \in 1..Len(ds) : \E i \in 1..Len(ds[d].words) :
         /\ d = open => i <= at
         /\ KeyOf(ds[d].words[i]) = k
         /\ list[j].loc = StartOf(ends, d) + i - 1
  /\ \A d \in 1..Len(ds) : \A i \in 1..Len(ds[d].words) :
       (d = open => i <= at) /\ KeyOf(ds[d].words[i]) = k =>
         \E j \in 1..Len(list) : list[j].loc = StartOf(ends, d) + i - 1

WordsInv ==
  \A k \in WordKeys :
    PostsIn(docs, lists[End], lists[k], k, Open, indexLoc) /\ Increasing(lists[k])

\* The same for the posts of the anchors with text t.
AnchorsIn(ds, list, t, open, at) ==
  /\ \A j \in 1..Len(list) :
       \E d \in 1..Len(ds) : \E i \in 1..Len(ds[d].anchors) :
         /\ d = open => i <= at
         /\ ds[d].anchors[i] = [text |-> t, freq |-> list[j].loc]
         /\ d = list[j].tData + 1
  /\ \A d \in 1..Len(ds) : \A i \in 1..Len(ds[d].anchors) :
       (d = open => i <= at) /\ ds[d].anchors[i].text = t =>
         \E j \in 1..Len(list) :
           list[j] = [loc |-> ds[d].anchors[i].freq, tData |-> d - 1]

AnchorsInv ==
  \A t \in AnchorTexts : AnchorsIn(docs, lists[AnchorKey(t)], t, Open, anchor)

\* An index that is being added to is within its limits.
LimitsInv ==
  /\ lastDocIndex <= MAX_LOCATION + 1
  /\ pc = "parse" => MaximumLocation <= MAX_LOCATION /\ uniqueWords <= MAX_UNIQUE_WORDS

\* The file being written has got as far as pc says, and every other one of
\* this run is finished.
FilesInv ==
  /\ failed \subseteq 0..(currentChunk - 1)
  /\ Writing => /\ currentChunk - 1 \notin failed
                /\ disk[currentChunk - 1].state =
                     CASE pc = "stretch" -> "empty" [] pc = "header" -> "zeros"
                       [] OTHER -> "header"
  /\ \A c \in 0..(currentChunk - 1) : ~(Writing /\ c = currentChunk - 1) =>
       disk[c].state = IF c \in failed THEN "empty" ELSE "complete"

CompleteInv ==
  \A c \in ChunkNos : disk[c].state = "complete" =>
    Agree(disk[c].docs, disk[c].lists) /\ disk[c].urls = UrlsOf(disk[c].docs)

\* The documents of the first m files, and of the next file those before n.
ParsedTo(files, m, n) ==
  Flatten(SubSeq(files, 1, m)) \o
    (IF m < Len(files) THEN SubSeq(files[m + 1], 1, n) ELSE << >>)

\* The documents of the first n chunk files.
Written(chunks, n) == [c \in 1..n |-> chunks[c - 1].docs]

\* How many chunks are finished.
Finished == IF Writing THEN currentChunk - 1 ELSE currentChunk

ParsedInv ==
  /\ fileNo <= Len(corpus) => docNo <= Len(corpus[fileNo]) + 1
  /\ pc = "done" => docs = << >> /\ fileNo > Len(corpus)
  /\ failed = {} =>
       Flatten(Written(disk, Finished)) \o docs = ParsedTo(corpus, fileNo - 1, docNo - 1)

-----------------------------------------------------------------------------
(* The keys, the documents and the lists *)

\* The keys of words, anchors and document ends are told apart.
LEMMA KeysApart ==
  /\ End \in Keys /\ End \notin WordKeys
  /\ WordKeys \subseteq Keys
  /\ \A t \in AnchorTexts :
       /\ AnchorKey(t) \in Keys /\ AnchorKey(t) \notin WordKeys /\ AnchorKey(t) # End
       /\ \A t2 \in AnchorTexts : AnchorKey(t) = AnchorKey(t2) => t = t2
<1>1. \A w : <<"", w>> # End /\ <<"$", w>> # End /\ <<"#", w>> # End
  BY DEF End
<1>2. \A v, w : <<"#", v>> # <<"", w>> /\ <<"#", v>> # <<"$", w>>
  OBVIOUS
<1>3. \A v, w : <<"#", v>> = <<"#", w>> => v = w
  OBVIOUS
<1> QED
  BY <1>1, <1>2, <1>3 DEF Keys, WordKeys, Body, Title, AnchorKey

\* What the crawler left is a sequence of sequences of documents, and the
\* token and the anchors of a document have keys.
LEMMA DocumentFacts ==
  ASSUME NEW doc \in Documents
  PROVE  /\ doc.url \in Urls
         /\ Len(doc.words) \in Nat /\ Len(doc.anchors) \in Nat
         /\ \A i \in 1..Len(doc.words) : KeyOf(doc.words[i]) \in WordKeys
         /\ \A i \in 1..Len(doc.anchors) :
              /\ doc.anchors[i].text \in AnchorTexts /\ doc.anchors[i].freq \in Nat
              /\ doc.anchors[i] = [text |-> doc.anchors[i].text,
                                   freq |-> doc.anchors[i].freq]
<1>1. /\ doc.url \in Urls /\ doc.words \in Seq([word : Words, title : BOOLEAN])
      /\ doc.anchors \in Seq(Anchor)
  BY DEF Documents
<1>2. ASSUME NEW i \in 1..Len(doc.words) PROVE KeyOf(doc.words[i]) \in WordKeys
  <2>1. doc.words[i] \in [word : Words, title : BOOLEAN]
    BY <1>1, ElementOfSeq, Zenon
  <2> QED
    BY <2>1 DEF KeyOf, WordKeys
<1>3. \A i \in 1..Len(doc.anchors) : doc.anchors[i] \in Anchor
  BY <1>1, ElementOfSeq, Zenon
<1> QED
  BY <1>1, <1>2, <1>3 DEF Anchor

LEMMA CorpusFacts ==
  ASSUME corpus \in Corpora
  PROVE  /\ corpus \in Seq(Seq(Documents))
         /\ Len(corpus) \in Nat
         /\ \A f \in 1..Len(corpus) :
              /\ corpus[f] \in Seq(Documents) /\ Len(corpus[f]) \in Nat
              /\ \A d \in 1..Len(corpus[f]) : corpus[f][d] \in Documents
<1>1. corpus \in Seq(Seq(Documents))
  BY CorporaAssumption
<1>2. \A f \in 1..Len(corpus) : corpus[f] \in Seq(Documents)
  BY <1>1
<1> QED
  BY <1>1, <1>2

\* appendToList adds one post, behind those of its key.
LEMMA AppendPostFacts ==
  ASSUME lists \in [Keys -> Seq(Post)],
         NEW k \in Keys, NEW loc \in Nat, NEW tData \in Nat,
         NEW new, new = AppendPost(k, loc, tData)
  PROVE  /\ new \in [Keys -> Seq(Post)]
         /\ Len(lists[k]) \in Nat
         /\ Len(new[k]) = Len(lists[k]) + 1
         /\ \A j \in 1..Len(lists[k]) : new[k][j] = lists[k][j]
         /\ new[k][Len(lists[k]) + 1] = [loc |-> loc, tData |-> tData]
         /\ \A o \in Keys : o # k => new[o] = lists[o]
<1>1. lists[k] \in Seq(Post) /\ [loc |-> loc, tData |-> tData] \in Post
  BY DEF Post
<1>2. new[k] = Append(lists[k], [loc |-> loc, tData |-> tData])
  BY DEF AppendPost
<1> HIDE DEF Post
<1>3. new[k] \in Seq(Post)
  BY <1>1, <1>2
<1>4. \A o \in Keys : o # k => new[o] = lists[o]
  BY DEF AppendPost
<1>5. new \in [Keys -> Seq(Post)]
  BY <1>3, <1>4 DEF AppendPost
<1> QED
  BY <1>1, <1>2, <1>4, <1>5

\* The last entry of a sequence that is not empty.
LEMMA LastFacts ==
  ASSUME NEW S, NEW s \in Seq(S), s # << >>
  PROVE  Len(s) \in Nat \ {0} /\ LastOf(s) = s[Len(s)] /\ LastOf(s) \in S
<1>1. Len(s) \in Nat \ {0}
  OBVIOUS
<1> QED
  BY <1>1 DEF LastOf

\* Where the next document starts: a location, and 0 in an empty index.
LEMMA NextFreeType ==
  ASSUME TypeOK
  PROVE  NextFree \in Nat
<1>1. lists[End] \in Seq(Post)
  BY KeysApart DEF TypeOK
<1>2. CASE lists[End] = << >>
  BY <1>2 DEF NextFree
<1>3. CASE lists[End] # << >>
  <2>1. LastOf(lists[End]) \in Post
    BY <1>1, <1>3, LastFacts
  <2> QED
    BY <1>3, <2>1 DEF NextFree, Post
<1> QED
  BY <1>2, <1>3

-----------------------------------------------------------------------------
(* Type correctness *)

\* The document addDoc works on is one of the crawler's.
LEMMA DocType ==
  ASSUME TypeOK, pc = "words"
  PROVE  Doc \in Documents /\ Len(docs) \in Nat \ {0} /\ Doc = docs[Len(docs)]
BY LastFacts DEF TypeOK, Doc

LEMMA TypeInit == Init => TypeInv
<1> SUFFICES ASSUME Init PROVE TypeInv
  OBVIOUS
<1>1. corpus \in Corpora /\ Len(corpus) \in Nat
  BY CorpusFacts DEF Init
<1>2. lists \in [Keys -> Seq(Post)]
  BY DEF Init
<1>3. \A c \in ChunkNos : File("absent") \in
        [state : FileStates, docs : Seq(Documents), urls : Seq(Urls),
         lists : [Keys -> Seq(Post)]]
  BY DEF File, FileStates
<1>4. currentChunk \in 0..MaxChunks
  BY LimitsAssumption DEF Init
<1>5. TypeOK
  BY <1>1, <1>2, <1>3, <1>4 DEF Init, TypeOK
<1> QED
  BY <1>5 DEF TypeInv, Init, Writing

\* A new IndexHT has the types of an index.
LEMMA NewIndexType ==
  ASSUME NewIndex
  PROVE  /\ docs' \in Seq(Documents) /\ urls' \in Seq(Urls) /\ Len(urls') = Len(docs')
         /\ lists' \in [Keys -> Seq(Post)]
         /\ MaximumLocation' \in Nat /\ numDocs' \in Nat /\ uniqueWords' \in Nat
BY DEF NewIndex

\* A file keeps its type whatever state it is written in.
LEMMA FileType ==
  ASSUME TypeOK
  PROVE  /\ \A state \in FileStates, c \in ChunkNos :
              [disk EXCEPT ![c] = File(state)] \in
                [ChunkNos -> [state : FileStates, docs : Seq(Documents), urls : Seq(Urls),
                              lists : [Keys -> Seq(Post)]]]
         /\ \A c \in ChunkNos :
              [disk EXCEPT ![c] = Complete] \in
                [ChunkNos -> [state : FileStates, docs : Seq(Documents), urls : Seq(Urls),
                              lists : [Keys -> Seq(Post)]]]
<1> DEFINE Files == [state : FileStates, docs : Seq(Documents), urls : Seq(Urls),
                     lists : [Keys -> Seq(Post)]]
<1>1. \A state \in FileStates : File(state) \in Files
  BY DEF File
<1>2. Complete \in Files
  BY DEF Complete, TypeOK, FileStates
<1>3. disk \in [ChunkNos -> Files]
  BY DEF TypeOK
<1> HIDE DEF Files
<1>4. /\ \A state \in FileStates, c \in ChunkNos :
           [disk EXCEPT ![c] = File(state)] \in [ChunkNos -> Files]
      /\ \A c \in ChunkNos : [disk EXCEPT ![c] = Complete] \in [ChunkNos -> Files]
  BY <1>1, <1>2, <1>3
<1> QED
  BY <1>4 DEF Files

\* Every step keeps the types.
LEMMA TypeStep ==
  ASSUME TypeInv, [Next]_vars
  PROVE  TypeInv'
<1> USE DEF TypeInv
<1>1. CASE NextFile
  <2>1. Len(corpus) \in Nat
    BY CorpusFacts DEF TypeOK
  <2>2. fileNo' \in 1..(Len(corpus) + 1)
    BY <1>1, <2>1 DEF NextFile, TypeOK
  <2> QED
    BY <1>1, <2>2 DEF NextFile, TypeOK, Writing, Doc, indexVars, docVars
<1>2. CASE StartDoc
  <2> DEFINE doc == corpus[fileNo][docNo]
             end == NextFree + Len(doc.words)
  <2>1. doc \in Documents
    BY <1>2, CorpusFacts, SMTT(30) DEF StartDoc, TypeOK
  <2>2. NextFree \in Nat /\ end \in Nat
    <3>1. Len(doc.words) \in Nat
      BY <2>1, DocumentFacts, Zenon
    <3>2. NextFree \in Nat
      BY NextFreeType
    <3> HIDE DEF doc
    <3> QED
      BY <3>1, <3>2
  <2>3. lists' \in [Keys -> Seq(Post)]
    <3>1. lists' = AppendPost(End, end, Len(urls)) /\ Len(urls) \in Nat
      BY <1>2 DEF StartDoc, TypeOK
    <3>2. lists \in [Keys -> Seq(Post)] /\ End \in Keys /\ end \in Nat
      BY <2>2, KeysApart DEF TypeOK
    <3> HIDE DEF end
    <3> QED
      BY <3>1, <3>2, AppendPostFacts
  <2>4. /\ docs' = Append(docs, doc) /\ docs' \in Seq(Documents) /\ docs' # << >>
        /\ Doc' = doc
        /\ urls' \in Seq(Urls) /\ Len(urls') = Len(docs')
    <3>1. docs' = Append(docs, doc) /\ urls' = Append(urls, doc.url)
      BY <1>2 DEF StartDoc
    <3>2. docs \in Seq(Documents) /\ urls \in Seq(Urls) /\ doc.url \in Urls
      BY <2>1, DocumentFacts DEF TypeOK
    <3> HIDE DEF doc
    <3> QED
      BY <3>1, <3>2, <2>1 DEF Doc, LastOf
  <2>5. indexLoc' <= Len(Doc'.words) /\ anchor' <= Len(Doc'.anchors)
    BY <1>2, <2>1, <2>4, DocumentFacts DEF StartDoc
  <2>6. lastDocIndex' = NextFree /\ MaximumLocation' = end
    BY <1>2 DEF StartDoc
  <2> HIDE DEF doc, end
  <2> QED
    BY <1>2, <2>2, <2>3, <2>4, <2>5, <2>6, SMTT(30) DEF StartDoc, TypeOK, Writing
<1>3. CASE AddWord
  <2>1. Doc \in Documents
    BY <1>3, DocType DEF AddWord
  <2>2. KeyOf(Doc.words[indexLoc + 1]) \in Keys
    <3>1. indexLoc + 1 \in 1..Len(Doc.words)
      BY <1>3, <2>1, DocumentFacts DEF AddWord, TypeOK
    <3> QED
      BY <2>1, <3>1, DocumentFacts, KeysApart
  <2>3. lists' \in [Keys -> Seq(Post)]
    <3>1. lists' = AppendPost(KeyOf(Doc.words[indexLoc + 1]), Shifted, 0) /\ Shifted \in Nat
      BY <1>3 DEF AddWord, Shifted, TypeOK
    <3> QED
      BY <3>1, <2>2, AppendPostFacts DEF TypeOK
  <2>4. uniqueWords' \in Nat
    BY <1>3 DEF AddWord, TypeOK
  <2>5. indexLoc' \in Nat /\ indexLoc' <= Len(Doc.words) /\ Doc' = Doc
    BY <1>3, <2>1, DocumentFacts DEF AddWord, TypeOK, Doc
  <2> QED
    BY <1>3, <2>3, <2>4, <2>5 DEF AddWord, TypeOK, Writing, readVars
<1>4. CASE AddAnchor
  <2>1. Doc \in Documents /\ Len(docs) \in Nat \ {0}
    BY <1>4, DocType DEF AddAnchor, AddAnchorOf
  <2>2. /\ Doc.anchors[anchor + 1].text \in AnchorTexts
        /\ Doc.anchors[anchor + 1].freq \in Nat
    <3>1. anchor + 1 \in 1..Len(Doc.anchors)
      BY <1>4, <2>1, DocumentFacts, SMTT(30) DEF AddAnchor, AddAnchorOf, TypeOK
    <3> QED
      BY <2>1, <3>1, DocumentFacts
  <2>3. lists' \in [Keys -> Seq(Post)]
    <3> DEFINE k == AnchorKey(Doc.anchors[anchor + 1].text)
               freq == Doc.anchors[anchor + 1].freq
               urlIndex == Len(urls) - 1
    <3>1. lists' = AppendPost(k, freq, urlIndex)
      BY <1>4 DEF AddAnchor, AddAnchorOf
    <3>2. k \in Keys /\ freq \in Nat /\ urlIndex \in Nat
      BY <2>1, <2>2, KeysApart
    <3>3. lists \in [Keys -> Seq(Post)]
      BY DEF TypeOK
    <3> HIDE DEF k, freq, urlIndex
    <3> QED
      BY <3>1, <3>2, <3>3, AppendPostFacts
  <2>4. anchor' \in Nat /\ anchor' <= Len(Doc.anchors) /\ Doc' = Doc
    BY <1>4, <2>1, DocumentFacts DEF AddAnchor, AddAnchorOf, TypeOK, Doc
  <2> QED
    BY <1>4, <2>3, <2>4 DEF AddAnchor, AddAnchorOf, TypeOK, Writing, readVars
<1>5. CASE FinishDoc \/ FinishFiles
  BY <1>5 DEF FinishDoc, FinishDocIf, FinishFiles, TypeOK, Writing, Doc, readVars,
              indexVars, docVars
<1>6. CASE SkipChunk
  BY <1>6, NewIndexType DEF SkipChunk, Return, TypeOK, Writing, readVars, docVars
<1>7. CASE OpenChunk
  <2>1. currentChunk \in ChunkNos /\ currentChunk' \in 0..MaxChunks /\ currentChunk' > 0
    BY <1>7, LimitsAssumption DEF OpenChunk, TypeOK, ChunkNos
  <2>2. disk' = [disk EXCEPT ![currentChunk] = File("empty")] /\ "empty" \in FileStates
    BY <1>7 DEF OpenChunk, FileStates
  <2>3. disk' \in [ChunkNos ->
          [state : FileStates, docs : Seq(Documents), urls : Seq(Urls),
           lists : [Keys -> Seq(Post)]]]
    BY <2>1, <2>2, FileType DEF TypeOK
  <2>4. UNCHANGED <<corpus, fileNo, docNo, docs, urls, lists, MaximumLocation, numDocs,
                    uniqueWords, lastDocIndex, indexLoc, anchor, runs>>
    BY <1>7 DEF OpenChunk, readVars, indexVars, docVars
  <2>5. pc' \in {"parse", "stretch", "done"} /\ failed' \subseteq ChunkNos
    BY <1>7, <2>1 DEF OpenChunk, TypeOK
  <2> QED
    BY <2>1, <2>3, <2>4, <2>5 DEF TypeOK, Writing
<1>8. CASE Stretch \/ WriteHeader \/ WriteBody
  <2>1. currentChunk - 1 \in ChunkNos
    BY <1>8, LimitsAssumption
       DEF Stretch, WriteHeader, WriteBody, TypeOK, ChunkNos, Writing
  <2>2. "zeros" \in FileStates /\ "header" \in FileStates
    BY DEF FileStates
  <2>3. CASE Stretch
    BY <2>1, <2>2, <2>3, FileType
       DEF Stretch, TypeOK, Writing, readVars, indexVars, docVars
  <2>4. CASE WriteHeader
    BY <2>1, <2>2, <2>4, FileType
       DEF WriteHeader, TypeOK, Writing, readVars, indexVars, docVars
  <2>5. CASE WriteBody
    BY <2>1, <2>5, FileType, NewIndexType
       DEF WriteBody, Return, TypeOK, Writing, readVars, docVars
  <2> QED
    BY <1>8, <2>3, <2>4, <2>5
<1>9. CASE StretchFails
  <2>1. failed' \subseteq ChunkNos
    BY <1>9, LimitsAssumption DEF StretchFails, TypeOK, ChunkNos, Writing
  <2> QED
    BY <1>9, <2>1, NewIndexType DEF StretchFails, Return, TypeOK, Writing, readVars, docVars
<1>10. CASE Restart
  <2>1. Len(corpus) \in Nat
    BY CorpusFacts DEF TypeOK
  <2> QED
    BY <1>10, <2>1, NewIndexType, LimitsAssumption, SMTT(30)
       DEF Restart, FirstChunk, TypeOK, Writing, docVars
<1>11. CASE UNCHANGED vars
  BY <1>11 DEF vars, TypeOK, Writing, Doc, readVars, indexVars, docVars
<1> QED
  BY <1>1, <1>2, <1>3, <1>4, <1>5, <1>6, <1>7, <1>8, <1>9, <1>10, <1>11 DEF Next

\* The builder and the files keep their types, whatever the crawler left.
THEOREM TypeCorrect == Spec => []TypeOK
<1>1. Spec => []TypeInv
  BY TypeInit, TypeStep, PTL DEF Spec
<1>2. TypeInv => TypeOK
  BY DEF TypeInv
<1> QED
  BY <1>1, <1>2, PTL

-----------------------------------------------------------------------------
(* The limits of a chunk, and how far its file has got *)

\* Every other location of a chunk than those of its last document is within
\* the limit, whatever the documents are.
LEMMA LimitsStep ==
  ASSUME TypeInv, LimitsInv, EndsInv, [Next]_vars
  PROVE  LimitsInv'
<1> USE LimitsAssumption DEF LimitsInv
<1>1. CASE StartDoc
  <2>1. NextFree <= MAX_LOCATION + 1
    <3>1. CASE lists[End] = << >>
      BY <3>1 DEF NextFree
    <3>2. CASE lists[End] # << >>
      <4>1. docs # << >>
        BY <3>2, KeysApart DEF TypeInv, TypeOK, EndsInv, EndsTile
      <4>2. NextFree = MaximumLocation + 1
        BY <3>2, <4>1 DEF NextFree, EndsInv
      <4> QED
        BY <1>1, <4>2 DEF StartDoc, TypeInv, TypeOK
    <3> QED
      BY <3>1, <3>2
  <2> QED
    BY <1>1, <2>1 DEF StartDoc
<1>2. CASE FinishDoc
  BY <1>2 DEF FinishDoc, FinishDocIf, TypeInv, TypeOK, indexVars, docVars
<1>3. CASE NextFile \/ AddWord \/ AddAnchor \/ FinishFiles
  BY <1>3 DEF NextFile, AddWord, AddAnchor, AddAnchorOf, FinishFiles, indexVars, docVars
<1>4. CASE SkipChunk \/ StretchFails \/ WriteBody \/ Restart
  BY <1>4 DEF SkipChunk, StretchFails, WriteBody, Restart, NewIndex, docVars
<1>5. CASE OpenChunk \/ Stretch \/ WriteHeader
  BY <1>5 DEF OpenChunk, Stretch, WriteHeader, indexVars, docVars
<1>6. CASE UNCHANGED vars
  BY <1>6 DEF vars, indexVars, docVars
<1> QED
  BY <1>1, <1>2, <1>3, <1>4, <1>5, <1>6 DEF Next

\* A chunk of this run is finished before the next one is opened, also when
\* a run before it had got further.
LEMMA FilesStep ==
  ASSUME TypeInv, FilesInv, [Next]_vars
  PROVE  FilesInv'
<1> USE LimitsAssumption DEF FilesInv
<1>0. currentChunk \in 0..MaxChunks /\ DOMAIN disk = ChunkNos /\ failed \subseteq ChunkNos
      /\ (Writing => currentChunk > 0)
  BY DEF TypeInv, TypeOK
<1>1. CASE NextFile \/ StartDoc \/ AddWord \/ AddAnchor \/ FinishDoc \/ FinishFiles \/ SkipChunk
  <2>1. UNCHANGED <<currentChunk, disk, failed>>
    BY <1>1 DEF NextFile, StartDoc, AddWord, AddAnchor, AddAnchorOf, FinishDoc, FinishDocIf,
                FinishFiles, SkipChunk
  <2>2. ~Writing /\ ~Writing'
    BY <1>1 DEF NextFile, StartDoc, AddWord, AddAnchor, AddAnchorOf, FinishDoc, FinishDocIf,
                FinishFiles, SkipChunk, Return, Writing
  <2> QED
    BY <2>1, <2>2
<1>2. CASE OpenChunk
  <2>1. /\ currentChunk \in ChunkNos /\ currentChunk' = currentChunk + 1
        /\ disk' = [disk EXCEPT ![currentChunk] = File("empty")]
        /\ failed' = failed /\ pc' = "stretch" /\ ~Writing
    BY <1>2, <1>0 DEF OpenChunk, ChunkNos, Writing
  <2>2. disk'[currentChunk].state = "empty"
    BY <2>1, <1>0 DEF File
  <2>3. \A c \in 0..(currentChunk - 1) : disk'[c] = disk[c]
    BY <2>1, <1>0 DEF ChunkNos
  <2> QED
    BY <1>0, <2>1, <2>2, <2>3 DEF Writing
<1>3. CASE Stretch \/ WriteHeader
  <2>1. /\ currentChunk - 1 \in ChunkNos /\ UNCHANGED <<currentChunk, failed>>
        /\ Writing /\ Writing'
    BY <1>3, <1>0 DEF Stretch, WriteHeader, ChunkNos, Writing
  <2>2. disk'[currentChunk - 1].state = IF pc' = "header" THEN "zeros" ELSE "header"
    BY <1>3, <1>0, <2>1 DEF Stretch, WriteHeader, File
  <2>3. pc' = "header" \/ pc' = "body"
    BY <1>3 DEF Stretch, WriteHeader
  <2>4. \A c \in 0..(currentChunk - 1) : c # currentChunk - 1 => disk'[c] = disk[c]
    BY <1>3, <1>0 DEF Stretch, WriteHeader, ChunkNos
  <2> QED
    BY <2>1, <2>2, <2>3, <2>4
<1>4. CASE StretchFails
  <2>1. /\ UNCHANGED <<currentChunk, disk>> /\ failed' = failed \cup {currentChunk - 1}
        /\ Writing /\ pc = "stretch" /\ ~Writing'
    BY <1>4 DEF StretchFails, Return, Writing
  <2> QED
    BY <1>0, <2>1
<1>5. CASE WriteBody
  <2>1. /\ UNCHANGED <<currentChunk, failed>> /\ Writing /\ ~Writing'
        /\ disk' = [disk EXCEPT ![currentChunk - 1] = Complete]
    BY <1>5 DEF WriteBody, Return, Writing
  <2>2. disk'[currentChunk - 1].state = "complete"
    BY <1>0, <2>1 DEF Complete, ChunkNos
  <2>3. \A c \in 0..(currentChunk - 1) : c # currentChunk - 1 => disk'[c] = disk[c]
    BY <1>0, <2>1 DEF ChunkNos
  <2> QED
    BY <2>1, <2>2, <2>3
<1>6. CASE Restart
  BY <1>6 DEF Restart, FirstChunk, Writing
<1>7. CASE UNCHANGED vars
  BY <1>7 DEF vars, Writing
<1> QED
  BY <1>1, <1>2, <1>3, <1>4, <1>5, <1>6, <1>7 DEF Next

Partials == {c \in ChunkNos : disk[c].state = "header"}

\* A file gets its header only from WriteHeader, and its lists before the next
\* one does, or the run has ended in between.
LEMMA PartialsStep ==
  ASSUME TypeInv, FilesInv, AcceptedPartials, [Next]_vars
  PROVE  AcceptedPartials'
<1> DEFINE allowed == (runs - 1) + (IF pc = "body" THEN 1 ELSE 0)
<1>0. /\ IsFiniteSet(ChunkNos) /\ currentChunk \in 0..MaxChunks /\ DOMAIN disk = ChunkNos
      /\ runs \in Nat /\ (Writing => currentChunk - 1 \in ChunkNos)
  BY LimitsAssumption, FS_Interval DEF TypeInv, TypeOK, ChunkNos
<1>01. runs' \in Nat
  BY TypeStep DEF TypeInv, TypeOK
<1>1. /\ IsFiniteSet(Partials) /\ Cardinality(Partials) \in Nat
      /\ IsFiniteSet(Partials') /\ Cardinality(Partials') \in Nat
  BY <1>0, FS_Subset, FS_CardinalityType DEF Partials
<1>2. Cardinality(Partials) <= allowed
  BY DEF AcceptedPartials, Partials
<1>3. SUFFICES Cardinality(Partials') <= allowed'
  BY DEF AcceptedPartials, Partials
<1>4. ASSUME Partials' \subseteq Partials, allowed <= allowed'
      PROVE  Cardinality(Partials') <= allowed'
  <2>1. Cardinality(Partials') <= Cardinality(Partials)
    BY <1>1, <1>4, FS_Subset
  <2> QED
    <3>1. allowed \in Int /\ allowed' \in Int
      BY <1>0, <1>01
    <3> HIDE DEF allowed
    <3> QED
      BY <1>1, <1>2, <1>4, <2>1, <3>1
<1>5. CASE WriteHeader
  <2>1. /\ disk' = [disk EXCEPT ![currentChunk - 1] = File("header")]
        /\ pc = "header" /\ pc' = "body" /\ runs' = runs
    BY <1>5 DEF WriteHeader
  <2>2. Partials' \subseteq Partials \cup {currentChunk - 1}
    BY <1>0, <2>1 DEF Partials
  <2>3. Cardinality(Partials') <= Cardinality(Partials) + 1
    <3> DEFINE more == Partials \cup {currentChunk - 1}
    <3>1. /\ IsFiniteSet(more) /\ Cardinality(more) \in Nat
          /\ Cardinality(more) <= Cardinality(Partials) + 1
      <4>1. /\ IsFiniteSet(more)
            /\ Cardinality(more) =
                 IF currentChunk - 1 \in Partials THEN Cardinality(Partials)
                 ELSE Cardinality(Partials) + 1
        BY <1>1, FS_AddElement, Zenon
      <4> QED
        BY <1>1, <4>1
    <3>2. Cardinality(Partials') <= Cardinality(more)
      BY <2>2, <3>1, FS_Subset
    <3> QED
      BY <1>1, <3>1, <3>2
  <2> QED
    BY <1>0, <1>1, <1>2, <2>1, <2>3
<1>6. CASE WriteBody
  <2>1. /\ disk' = [disk EXCEPT ![currentChunk - 1] = Complete]
        /\ pc = "body" /\ pc' # "body" /\ runs' = runs
    BY <1>6 DEF WriteBody, Return
  <2>2. currentChunk - 1 \in Partials
    BY <1>0, <2>1 DEF FilesInv, Writing, Partials
  <2>3. Partials' \subseteq Partials \ {currentChunk - 1}
    BY <1>0, <2>1 DEF Partials, Complete, Writing
  <2>4. Cardinality(Partials') <= Cardinality(Partials) - 1
    <3>1. /\ IsFiniteSet(Partials \ {currentChunk - 1})
          /\ Cardinality(Partials \ {currentChunk - 1}) = Cardinality(Partials) - 1
      BY <1>1, <2>2, FS_RemoveElement
    <3> QED
      BY <2>3, <3>1, FS_Subset
  <2> QED
    BY <1>0, <1>1, <1>2, <2>1, <2>4
<1>7. CASE OpenChunk \/ Stretch
  <2>1. /\ \E c \in ChunkNos : \E state \in {"empty", "zeros"} :
             disk' = [disk EXCEPT ![c] = File(state)]
        /\ pc # "body" /\ pc' # "body" /\ runs' = runs
    <3>1. currentChunk < MaxChunks => currentChunk \in ChunkNos
      BY <1>0, LimitsAssumption DEF ChunkNos
    <3> QED
      BY <1>0, <1>7, <3>1 DEF OpenChunk, Stretch, Writing
  <2>2. Partials' \subseteq Partials
    BY <1>0, <2>1 DEF Partials, File
  <2> QED
    BY <1>0, <1>4, <2>1, <2>2
<1>8. CASE Restart
  <2>1. disk' = disk /\ runs' = runs + 1 /\ pc' # "body"
    BY <1>8 DEF Restart
  <2> QED
    BY <1>0, <1>4, <2>1 DEF Partials
<1>9. CASE NextFile \/ StartDoc \/ AddWord \/ AddAnchor \/ FinishDoc \/ FinishFiles \/ SkipChunk
           \/ StretchFails
  <2>1. disk' = disk /\ runs' = runs /\ pc # "body" /\ pc' # "body"
    BY <1>9 DEF NextFile, StartDoc, AddWord, AddAnchor, AddAnchorOf, FinishDoc, FinishDocIf,
                FinishFiles, SkipChunk, StretchFails, Return
  <2> QED
    BY <1>0, <1>4, <2>1 DEF Partials
<1>10. CASE UNCHANGED vars
  BY <1>0, <1>4, <1>10 DEF vars, Partials
<1> QED
  BY <1>5, <1>6, <1>7, <1>8, <1>9, <1>10 DEF Next

-----------------------------------------------------------------------------
(* How a step changes the index *)

\* A step is one of the three that add to the index, or it makes a new one, or
\* it leaves the index alone; addDoc returns only when it has added everything.
LEMMA StepKinds ==
  ASSUME TypeInv, [Next]_vars
  PROVE  \/ StartDoc \/ AddWord \/ AddAnchor
         \/ NewIndex /\ pc' # "words" /\ UNCHANGED docVars
         \/ /\ UNCHANGED <<indexVars, docVars>>
            /\ pc' = "words" => pc = "words"
            /\ pc = "words" /\ pc' # "words" =>
                 indexLoc = Len(Doc.words) /\ anchor = Len(Doc.anchors)
<1>1. CASE NextFile \/ FinishDoc \/ FinishFiles
  BY <1>1 DEF NextFile, FinishDoc, FinishDocIf, FinishFiles, indexVars, docVars
<1>2. CASE SkipChunk \/ StretchFails \/ WriteBody \/ Restart
  BY <1>2 DEF SkipChunk, StretchFails, WriteBody, Restart, Return, docVars
<1>3. CASE OpenChunk \/ Stretch \/ WriteHeader
  BY <1>3 DEF OpenChunk, Stretch, WriteHeader, indexVars, docVars
<1>4. CASE UNCHANGED vars
  BY <1>4 DEF vars
<1> QED
  BY <1>1, <1>2, <1>3, <1>4 DEF Next

\* In an index whose ends tile it, every document starts at a location behind
\* the ends before it, and its own end is no earlier than its start.
LEMMA TileFacts ==
  ASSUME NEW ds \in Seq(Documents), NEW ends \in Seq(Post), EndsTile(ds, ends)
  PROVE  /\ Len(ds) \in Nat /\ Len(ends) = Len(ds)
         /\ \A d \in 1..Len(ds) :
              /\ ds[d] \in Documents /\ ends[d] \in Post
              /\ Len(ds[d].words) \in Nat /\ Len(ds[d].anchors) \in Nat
              /\ ends[d].loc \in Nat /\ StartOf(ends, d) \in Nat
              /\ ends[d].loc = StartOf(ends, d) + Len(ds[d].words)
              /\ \A c \in 1..Len(ds) : c < d =>
                   ends[c].loc < StartOf(ends, d) /\ ends[c].loc < ends[d].loc
<1>1. Len(ds) \in Nat /\ Len(ends) = Len(ds)
  BY DEF EndsTile
<1>2. \A d \in 1..Len(ds) : /\ ds[d] \in Documents /\ ends[d] \in Post
                            /\ Len(ds[d].words) \in Nat /\ Len(ds[d].anchors) \in Nat
  BY <1>1, ElementOfSeq, DocumentFacts
<1>3. \A d \in 1..Len(ds) : ends[d].loc \in Nat
  BY <1>2 DEF Post
<1>4. ASSUME NEW d \in 1..Len(ds) PROVE StartOf(ends, d) \in Nat
  <2>1. CASE d = 1
    BY <2>1 DEF StartOf
  <2>2. CASE d # 1
    <3>1. d - 1 \in 1..Len(ds)
      BY <1>1, <2>2
    <3> QED
      BY <2>2, <3>1, <1>3 DEF StartOf
  <2> QED
    BY <2>1, <2>2
<1>5. \A c, d \in 1..Len(ds) : c < d => ends[c].loc < ends[d].loc
  <2>1. DOMAIN ends = 1..Len(ds)
    BY <1>1, LenProperties
  <2> QED
    BY <2>1 DEF EndsTile, Increasing
<1>6. ASSUME NEW d \in 1..Len(ds), NEW c \in 1..Len(ds), c < d
      PROVE  ends[c].loc < StartOf(ends, d)
  <2>1. d # 1 /\ d - 1 \in 1..Len(ds) /\ c <= d - 1
    BY <1>1, <1>6
  <2>2. ends[c].loc <= ends[d - 1].loc
    <3>1. CASE c = d - 1
      BY <3>1, <2>1, <1>3
    <3>2. CASE c < d - 1
      BY <3>2, <2>1, <1>1, <1>3, <1>5
    <3> QED
      BY <2>1, <3>1, <3>2
  <2> QED
    BY <2>1, <2>2, <1>3, SMTT(30) DEF StartOf
<1> QED
  BY <1>1, <1>2, <1>3, <1>4, <1>5, <1>6 DEF EndsTile

\* What StartDoc does to the documents and to the lists.
LEMMA StartDocFacts ==
  ASSUME TypeInv, EndsInv, StartDoc
  PROVE  LET doc == corpus[fileNo][docNo]
             n == Len(docs)
         IN  /\ doc \in Documents /\ n \in Nat
             /\ docs' = Append(docs, doc) /\ Len(docs') = n + 1
             /\ \A d \in 1..n : docs'[d] = docs[d]
             /\ docs'[n + 1] = doc
             /\ Len(lists[End]) = n /\ Len(lists'[End]) = n + 1
             /\ \A d \in 1..n : lists'[End][d] = lists[End][d]
             /\ lists'[End][n + 1] = [loc |-> NextFree + Len(doc.words), tData |-> n]
             /\ \A k \in Keys : k # End => lists'[k] = lists[k]
             /\ \A d \in 1..n : StartOf(lists'[End], d) = StartOf(lists[End], d)
             /\ StartOf(lists'[End], n + 1) = NextFree
             /\ NextFree \in Nat
<1> DEFINE doc == corpus[fileNo][docNo]
           n == Len(docs)
           end == NextFree + Len(doc.words)
<1>1. doc \in Documents
  BY CorpusFacts DEF StartDoc, TypeInv, TypeOK
<1>2. docs' = Append(docs, doc) /\ lists' = AppendPost(End, end, Len(urls))
  BY DEF StartDoc
<1>3. NextFree \in Nat /\ Len(doc.words) \in Nat
  BY <1>1, NextFreeType, DocumentFacts, Zenon DEF TypeInv
<1>4. end \in Nat
  <2> HIDE DEF doc
  <2> QED
    BY <1>3
<1> HIDE DEF doc, end
<1>5. /\ n \in Nat /\ Len(docs') = n + 1 /\ \A d \in 1..n : docs'[d] = docs[d]
      /\ docs'[n + 1] = doc
  BY <1>1, <1>2 DEF TypeInv, TypeOK
<1>6. Len(lists[End]) = n /\ Len(urls) = n
  BY DEF EndsInv, EndsTile, TypeInv
<1>7. /\ Len(lists'[End]) = n + 1
      /\ \A d \in 1..n : lists'[End][d] = lists[End][d]
      /\ lists'[End][n + 1] = [loc |-> end, tData |-> n]
      /\ \A k \in Keys : k # End => lists'[k] = lists[k]
  BY <1>2, <1>4, <1>5, <1>6, KeysApart, AppendPostFacts DEF TypeInv, TypeOK
<1>8. \A d \in 1..n : StartOf(lists'[End], d) = StartOf(lists[End], d)
  BY <1>5, <1>7 DEF StartOf
<1>9. StartOf(lists'[End], n + 1) = NextFree
  <2>1. CASE n = 0
    BY <2>1, <1>6, KeysApart DEF NextFree, StartOf, TypeInv, TypeOK
  <2>2. CASE n # 0
    <3>1. lists[End] # << >> /\ LastOf(lists[End]) = lists[End][n]
      BY <2>2, <1>5, <1>6, KeysApart DEF LastOf, TypeInv, TypeOK
    <3>2. n + 1 # 1 /\ (n + 1) - 1 = n /\ n \in 1..n
      BY <2>2, <1>5
    <3> HIDE DEF n
    <3> QED
      BY <3>1, <3>2, <1>7 DEF NextFree, StartOf
  <2> QED
    BY <2>1, <2>2
<1> QED
  BY <1>1, <1>2, <1>3, <1>5, <1>6, <1>7, <1>8, <1>9 DEF doc, end

\* What AddWord does to the lists.
LEMMA AddWordFacts ==
  ASSUME TypeInv, AddWord
  PROVE  LET n == Len(docs)
             k == KeyOf(docs[n].words[indexLoc + 1])
             m == Len(lists[k])
         IN  /\ n \in Nat \ {0} /\ docs[n] \in Documents /\ Doc = docs[n]
             /\ indexLoc \in Nat /\ indexLoc + 1 \in 1..Len(docs[n].words)
             /\ k \in WordKeys /\ m \in Nat
             /\ Len(lists'[k]) = m + 1
             /\ \A j \in 1..m : lists'[k][j] = lists[k][j]
             /\ lists'[k][m + 1] = [loc |-> Shifted, tData |-> 0]
             /\ \A o \in Keys : o # k => lists'[o] = lists[o]
             /\ lists'[End] = lists[End]
<1> DEFINE n == Len(docs)
           k == KeyOf(docs[n].words[indexLoc + 1])
           m == Len(lists[k])
<1>1. n \in Nat \ {0} /\ docs[n] \in Documents /\ Doc = docs[n]
  BY DocType DEF AddWord, TypeInv
<1>2. Len(docs[n].words) \in Nat
  BY <1>1, DocumentFacts, Zenon
<1>3. indexLoc \in Nat /\ indexLoc < Len(Doc.words)
  BY DEF AddWord, TypeInv, TypeOK
<1>4. indexLoc + 1 \in 1..Len(docs[n].words)
  BY <1>1, <1>2, <1>3
<1>5. k \in WordKeys
  BY <1>1, <1>4, DocumentFacts, Zenon
<1>6. k \in Keys /\ k # End /\ End \in Keys
  BY <1>5, KeysApart
<1>7. lists' = AppendPost(k, Shifted, 0)
  BY <1>1 DEF AddWord
<1>8. Shifted \in Nat /\ lists \in [Keys -> Seq(Post)]
  BY DEF Shifted, TypeInv, TypeOK
<1> HIDE DEF k
<1>9. /\ m \in Nat
      /\ Len(lists'[k]) = m + 1
      /\ \A j \in 1..m : lists'[k][j] = lists[k][j]
      /\ lists'[k][m + 1] = [loc |-> Shifted, tData |-> 0]
      /\ \A o \in Keys : o # k => lists'[o] = lists[o]
  BY <1>6, <1>7, <1>8, AppendPostFacts
<1> QED
  BY <1>1, <1>3, <1>4, <1>5, <1>6, <1>9, Zenon DEF k

\* What AddAnchor does to the lists.
LEMMA AddAnchorFacts ==
  ASSUME TypeInv, AddAnchor
  PROVE  LET n == Len(docs)
             a == docs[n].anchors[anchor + 1]
             k == AnchorKey(a.text)
             m == Len(lists[k])
         IN  /\ n \in Nat \ {0} /\ docs[n] \in Documents /\ Doc = docs[n]
             /\ anchor \in Nat /\ anchor + 1 \in 1..Len(docs[n].anchors)
             /\ a.text \in AnchorTexts /\ a.freq \in Nat
             /\ a = [text |-> a.text, freq |-> a.freq]
             /\ m \in Nat
             /\ Len(lists'[k]) = m + 1
             /\ \A j \in 1..m : lists'[k][j] = lists[k][j]
             /\ lists'[k][m + 1] = [loc |-> a.freq, tData |-> n - 1]
             /\ \A o \in Keys : o # k => lists'[o] = lists[o]
             /\ lists'[End] = lists[End]
             /\ \A o \in WordKeys : lists'[o] = lists[o]
<1> DEFINE n == Len(docs)
           a == docs[n].anchors[anchor + 1]
           k == AnchorKey(a.text)
           m == Len(lists[k])
<1>1. n \in Nat \ {0} /\ docs[n] \in Documents /\ Doc = docs[n]
  BY DocType DEF AddAnchor, AddAnchorOf, TypeInv
<1>2. Len(docs[n].anchors) \in Nat
  BY <1>1, DocumentFacts, Zenon
<1>3. anchor \in Nat /\ anchor < Len(Doc.anchors)
  BY DEF AddAnchor, AddAnchorOf, TypeInv, TypeOK
<1>4. anchor + 1 \in 1..Len(docs[n].anchors)
  BY <1>1, <1>2, <1>3
<1>5. a.text \in AnchorTexts /\ a.freq \in Nat /\ a = [text |-> a.text, freq |-> a.freq]
  BY <1>1, <1>4, DocumentFacts, Zenon
<1>6. k \in Keys /\ k # End /\ End \in Keys /\ k \notin WordKeys /\ WordKeys \subseteq Keys
  BY <1>5, KeysApart
<1>7. lists' = AppendPost(k, a.freq, n - 1)
  BY <1>1 DEF AddAnchor, AddAnchorOf, TypeInv
<1>8. n - 1 \in Nat /\ lists \in [Keys -> Seq(Post)]
  BY <1>1 DEF TypeInv, TypeOK
<1> HIDE DEF k, a
<1>9. /\ m \in Nat
      /\ Len(lists'[k]) = m + 1
      /\ \A j \in 1..m : lists'[k][j] = lists[k][j]
      /\ lists'[k][m + 1] = [loc |-> a.freq, tData |-> n - 1]
      /\ \A o \in Keys : o # k => lists'[o] = lists[o]
  <2> DEFINE urlIndex == n - 1
             freq == a.freq
  <2>1. lists' = AppendPost(k, freq, urlIndex) /\ freq \in Nat /\ urlIndex \in Nat
    BY <1>5, <1>7, <1>8
  <2>2. freq = a.freq /\ urlIndex = n - 1
    OBVIOUS
  <2> HIDE DEF freq, urlIndex
  <2>3. /\ m \in Nat
        /\ Len(lists'[k]) = m + 1
        /\ \A j \in 1..m : lists'[k][j] = lists[k][j]
        /\ lists'[k][m + 1] = [loc |-> freq, tData |-> urlIndex]
        /\ \A o \in Keys : o # k => lists'[o] = lists[o]
    BY <2>1, <1>6, <1>8, AppendPostFacts
  <2> QED
    BY <2>2, <2>3
<1>10. lists'[End] = lists[End] /\ \A o \in WordKeys : lists'[o] = lists[o]
  BY <1>6, <1>9
<1> QED
  BY <1>1, <1>3, <1>4, <1>5, <1>9, <1>10, Zenon DEF a, k

\* The ends keep tiling the index.
LEMMA EndsStep ==
  ASSUME TypeInv, EndsInv, [Next]_vars
  PROVE  EndsInv'
<1>1. CASE StartDoc
  <2> DEFINE doc == corpus[fileNo][docNo]
             n == Len(docs)
             end == NextFree + Len(doc.words)
  <2>1. /\ doc \in Documents /\ n \in Nat /\ NextFree \in Nat
        /\ docs' = Append(docs, doc) /\ Len(docs') = n + 1
        /\ \A d \in 1..n : docs'[d] = docs[d]
        /\ docs'[n + 1] = doc
        /\ Len(lists[End]) = n /\ Len(lists'[End]) = n + 1
        /\ \A d \in 1..n : lists'[End][d] = lists[End][d]
        /\ lists'[End][n + 1] = [loc |-> end, tData |-> n]
        /\ \A d \in 1..n : StartOf(lists'[End], d) = StartOf(lists[End], d)
        /\ StartOf(lists'[End], n + 1) = NextFree
    BY <1>1, StartDocFacts
  <2>2. Len(doc.words) \in Nat /\ doc.url \in Urls
    BY <2>1, DocumentFacts, Zenon
  <2>3. /\ urls' = Append(urls, doc.url) /\ numDocs' = numDocs + 1
        /\ MaximumLocation' = end /\ lastDocIndex' = NextFree
    BY <1>1 DEF StartDoc
  <2>4. end \in Nat /\ end >= NextFree
    <3> HIDE DEF doc
    <3> QED
      BY <2>1, <2>2
  <2>5. end = NextFree + Len(doc.words)
    OBVIOUS
  <2> HIDE DEF doc, n, end
  <2>6. ASSUME NEW d \in 1..(n + 1)
        PROVE  /\ lists'[End][d].tData = d - 1
               /\ lists'[End][d].loc = StartOf(lists'[End], d) + Len(docs'[d].words)
    <3>1. CASE d = n + 1
      BY <3>1, <2>1, <2>5
    <3>2. CASE d \in 1..n
      BY <3>2, <2>1 DEF EndsInv, EndsTile, n
    <3> QED
      BY <2>1, <3>1, <3>2
  <2>7. Increasing(lists'[End])
    <3>1. DOMAIN lists'[End] = 1..(n + 1)
      BY <1>1, <2>1, TypeStep, KeysApart, LenProperties DEF TypeInv, TypeOK
    <3>2. SUFFICES ASSUME NEW j \in 1..(n + 1), NEW k \in 1..(n + 1), j < k
                   PROVE  lists'[End][j].loc < lists'[End][k].loc
      BY <3>1 DEF Increasing
    <3>3. j \in 1..n /\ lists'[End][j] = lists[End][j] /\ DOMAIN lists[End] = 1..n
      BY <3>2, <2>1, KeysApart, LenProperties DEF TypeInv, TypeOK
    <3>4. CASE k \in 1..n
      BY <3>2, <3>3, <3>4, <2>1 DEF EndsInv, EndsTile, Increasing
    <3>5. CASE k = n + 1
      <4>1. lists[End][j].loc < NextFree
        <5>1. /\ lists[End] # << >> /\ LastOf(lists[End]) = lists[End][n]
              /\ n \in 1..n /\ n = Len(docs)
          BY <2>1, <3>3 DEF LastOf, n
        <5>2. lists[End][j].loc \in Nat /\ lists[End][n].loc \in Nat
          <6>1. docs \in Seq(Documents) /\ lists[End] \in Seq(Post)
            BY KeysApart DEF TypeInv, TypeOK
          <6> QED
            BY <3>3, <5>1, <6>1, TileFacts DEF EndsInv
        <5>3. lists[End][j].loc <= lists[End][n].loc
          <6>1. j = n \/ j < n
            BY <2>1, <3>3
          <6>2. docs \in Seq(Documents) /\ lists[End] \in Seq(Post)
            BY KeysApart DEF TypeInv, TypeOK
          <6>3. j < n => lists[End][j].loc < lists[End][n].loc
            BY <3>3, <5>1, <6>2, TileFacts DEF EndsInv
          <6> QED
            BY <5>2, <6>1, <6>3
        <5> QED
          BY <5>1, <5>2, <5>3 DEF NextFree
      <4>2. lists[End][j].loc \in Nat
        <5>1. docs \in Seq(Documents) /\ lists[End] \in Seq(Post) /\ n = Len(docs)
          BY KeysApart DEF TypeInv, TypeOK, n
        <5> QED
          BY <3>3, <5>1, TileFacts DEF EndsInv
      <4> QED
        BY <3>3, <3>5, <4>1, <4>2, <2>1, <2>4
    <3> QED
      BY <2>1, <3>4, <3>5
  <2>8. EndsTile(docs', lists'[End])
    BY <2>1, <2>6, <2>7 DEF EndsTile
  <2>9. urls' = UrlsOf(docs')
    <3>1. urls = UrlsOf(docs) /\ Len(urls) = n /\ urls \in Seq(Urls) /\ docs \in Seq(Documents)
      BY DEF EndsInv, TypeInv, TypeOK, n
    <3>2. urls' = [d \in 1..(n + 1) |-> IF d = n + 1 THEN doc.url ELSE urls[d]]
      BY <2>1, <2>2, <2>3, <3>1
    <3>3. \A d \in 1..n : urls[d] = docs[d].url
      BY <3>1 DEF UrlsOf, n
    <3>4. \A d \in 1..(n + 1) : docs'[d].url = IF d = n + 1 THEN doc.url ELSE urls[d]
      BY <2>1, <3>3
    <3> QED
      BY <2>1, <3>2, <3>4 DEF UrlsOf
  <2>10. docs' # << >> /\ LastOf(lists'[End]).loc = end
    BY <2>1 DEF LastOf
  <2> QED
    BY <2>1, <2>3, <2>8, <2>9, <2>10 DEF EndsInv, n
<1>2. CASE AddWord
  BY <1>2, AddWordFacts, Zenon DEF AddWord, EndsInv, EndsTile
<1>3. CASE AddAnchor
  BY <1>3, AddAnchorFacts, ZenonT(30) DEF AddAnchor, AddAnchorOf, EndsInv, EndsTile
<1>4. CASE NewIndex /\ pc' # "words"
  <2>1. lists'[End] = << >>
    BY <1>4, KeysApart DEF NewIndex
  <2> QED
    BY <1>4, <2>1 DEF NewIndex, EndsInv, EndsTile, Increasing, UrlsOf
<1>5. CASE UNCHANGED <<indexVars, docVars>> /\ (pc' = "words" => pc = "words")
  BY <1>5 DEF indexVars, docVars, EndsInv, EndsTile
<1> QED
  BY <1>1, <1>2, <1>3, <1>4, <1>5, StepKinds

-----------------------------------------------------------------------------
(* The posts of the tokens *)

\* Every post of a token lies before the next location AddWord gives.
LEMMA PostsBefore ==
  ASSUME NEW ds \in Seq(Documents), NEW ends \in Seq(Post), EndsTile(ds, ends),
         ds # << >>, NEW list, NEW k, NEW at \in Nat,
         PostsIn(ds, ends, list, k, Len(ds), at)
  PROVE  \A j \in 1..Len(list) :
           list[j].loc \in Nat /\ list[j].loc < StartOf(ends, Len(ds)) + at
<1> SUFFICES ASSUME NEW j \in 1..Len(list)
             PROVE  list[j].loc \in Nat /\ list[j].loc < StartOf(ends, Len(ds)) + at
  OBVIOUS
<1>1. PICK d \in 1..Len(ds) : \E i \in 1..Len(ds[d].words) :
        (d = Len(ds) => i <= at) /\ list[j].loc = StartOf(ends, d) + i - 1
  BY DEF PostsIn
<1>2. PICK i \in 1..Len(ds[d].words) :
        (d = Len(ds) => i <= at) /\ list[j].loc = StartOf(ends, d) + i - 1
  BY <1>1
<1>3. /\ Len(ds) \in 1..Len(ds) /\ StartOf(ends, d) \in Nat
      /\ StartOf(ends, Len(ds)) \in Nat /\ Len(ds[d].words) \in Nat
      /\ ends[d].loc = StartOf(ends, d) + Len(ds[d].words)
      /\ d < Len(ds) => ends[d].loc < StartOf(ends, Len(ds))
  BY TileFacts, SMTT(30)
<1>4. CASE d = Len(ds)
  BY <1>2, <1>3, <1>4, SMTT(30)
<1>5. CASE d < Len(ds)
  BY <1>2, <1>3, <1>5, SMTT(30)
<1> QED
  BY <1>3, <1>4, <1>5

\* One token more: which tokens have been added.
LEMMA OneTokenMore ==
  ASSUME NEW ds, NEW n, NEW at \in Nat, at + 1 \in 1..Len(ds[n].words)
  PROVE  \A d : \A i \in 1..Len(ds[d].words) :
           (d = n => i <= at + 1) <=> ((d = n => i <= at) \/ (d = n /\ i = at + 1))
<1> SUFFICES ASSUME NEW d, NEW i \in 1..Len(ds[d].words)
             PROVE  (d = n => i <= at + 1) <=> ((d = n => i <= at) \/ (d = n /\ i = at + 1))
  OBVIOUS
<1>1. i \in Int
  OBVIOUS
<1> QED
  BY <1>1

\* The list of another key than that of the token holds what it held.
LEMMA PostsOther ==
  ASSUME NEW ds, NEW ends, NEW at \in Nat, at + 1 \in 1..Len(ds[Len(ds)].words),
         NEW list, NEW k, PostsIn(ds, ends, list, k, Len(ds), at),
         k # KeyOf(ds[Len(ds)].words[at + 1])
  PROVE  PostsIn(ds, ends, list, k, Len(ds), at + 1)
<1>1. \A d \in 1..Len(ds) : \A i \in 1..Len(ds[d].words) :
        KeyOf(ds[d].words[i]) = k =>
          ((d = Len(ds) => i <= at + 1) <=> (d = Len(ds) => i <= at))
  BY OneTokenMore
<1> QED
  BY <1>1 DEF PostsIn

\* The list of the key of the token has one post more.
LEMMA PostsMore ==
  ASSUME NEW ds \in Seq(Documents), NEW ends, ds # << >>,
         NEW at \in Nat, at + 1 \in 1..Len(ds[Len(ds)].words),
         NEW list, NEW k, PostsIn(ds, ends, list, k, Len(ds), at),
         k = KeyOf(ds[Len(ds)].words[at + 1]),
         NEW new, Len(list) \in Nat, Len(new) = Len(list) + 1,
         \A j \in 1..Len(list) : new[j] = list[j],
         new[Len(list) + 1].loc = StartOf(ends, Len(ds)) + at,
         StartOf(ends, Len(ds)) \in Nat
  PROVE  PostsIn(ds, ends, new, k, Len(ds), at + 1)
<1> DEFINE n == Len(ds)
           m == Len(list)
<1>1. n \in 1..n
  OBVIOUS
<1>2. \A d \in 1..n : \A i \in 1..Len(ds[d].words) :
        (d = n => i <= at + 1) <=> ((d = n => i <= at) \/ (d = n /\ i = at + 1))
  BY OneTokenMore
<1>3. \A j \in 1..(m + 1) : j \in 1..m \/ j = m + 1
  OBVIOUS
<1>4. StartOf(ends, n) + at = StartOf(ends, n) + (at + 1) - 1
  OBVIOUS
<1>5. 1..m \subseteq 1..(m + 1) /\ m + 1 \in 1..(m + 1)
  OBVIOUS
<1>6. ASSUME NEW j \in 1..(m + 1)
      PROVE  \E d \in 1..n : \E i \in 1..Len(ds[d].words) :
               /\ d = n => i <= at + 1
               /\ KeyOf(ds[d].words[i]) = k
               /\ new[j].loc = StartOf(ends, d) + i - 1
  <2>1. CASE j = m + 1
    <3>1. /\ n = n => at + 1 <= at + 1
          /\ KeyOf(ds[n].words[at + 1]) = k
          /\ new[j].loc = StartOf(ends, n) + (at + 1) - 1
      BY <1>4, <2>1
    <3>2. n \in 1..n /\ at + 1 \in 1..Len(ds[n].words)
      BY <1>1
    <3> HIDE DEF n
    <3> QED
      BY <3>1, <3>2
  <2>2. CASE j \in 1..m
    <3>1. new[j] = list[j]
      BY <2>2
    <3>2. PICK d \in 1..n : \E i \in 1..Len(ds[d].words) :
            /\ d = n => i <= at
            /\ KeyOf(ds[d].words[i]) = k
            /\ list[j].loc = StartOf(ends, d) + i - 1
      BY <2>2 DEF PostsIn
    <3> QED
      BY <1>2, <3>1, <3>2
  <2> QED
    BY <1>3, <2>1, <2>2
<1>7. ASSUME NEW d \in 1..n, NEW i \in 1..Len(ds[d].words),
             d = n => i <= at + 1, KeyOf(ds[d].words[i]) = k
      PROVE  \E j \in 1..(m + 1) : new[j].loc = StartOf(ends, d) + i - 1
  <2>1. CASE d = n => i <= at
    <3>1. PICK j \in 1..m : list[j].loc = StartOf(ends, d) + i - 1
      BY <1>7, <2>1 DEF PostsIn
    <3> QED
      BY <1>5, <3>1
  <2>2. CASE d = n /\ i = at + 1
    BY <1>4, <1>5, <2>2
  <2> QED
    BY <1>2, <1>7, <2>1, <2>2
<1> HIDE DEF n
<1> QED
  BY <1>6, <1>7 DEF PostsIn, n

\* The posts stay those of the tokens that have been added.
LEMMA WordsStep ==
  ASSUME TypeInv, EndsInv, WordsInv, [Next]_vars
  PROVE  WordsInv'
<1>1. SUFFICES ASSUME NEW k \in WordKeys
               PROVE  /\ PostsIn(docs', lists'[End], lists'[k], k, Open', indexLoc')
                      /\ Increasing(lists'[k])
  BY DEF WordsInv
<1>2. /\ PostsIn(docs, lists[End], lists[k], k, Open, indexLoc) /\ Increasing(lists[k])
      /\ k \in Keys /\ k # End
  BY KeysApart DEF WordsInv
<1>3. docs \in Seq(Documents) /\ lists[End] \in Seq(Post) /\ EndsTile(docs, lists[End])
  BY KeysApart DEF TypeInv, TypeOK, EndsInv
<1>4. CASE StartDoc
  <2> DEFINE n == Len(docs)
  <2>1. /\ n \in Nat /\ Len(docs') = n + 1
        /\ \A d \in 1..n : docs'[d] = docs[d]
        /\ lists'[k] = lists[k]
        /\ \A d \in 1..n : StartOf(lists'[End], d) = StartOf(lists[End], d)
    BY <1>2, <1>4, StartDocFacts
  <2>2. Open = 0 /\ Open' = n + 1 /\ indexLoc' = 0
    BY <1>4, <2>1 DEF StartDoc, Open
  <2>3. \A d \in 1..(n + 1) : d \in 1..n \/ d = n + 1
    BY <2>1
  <2>4. n = Len(docs) /\ 1..n \subseteq 1..(n + 1) /\ \A d \in 1..n : d # 0 /\ d # n + 1
    BY <2>1 DEF n
  <2>5. \A i \in 1..Len(docs'[n + 1].words) : ~(i <= 0)
    OBVIOUS
  <2> HIDE DEF n
  <2>6. ASSUME NEW j \in 1..Len(lists[k])
        PROVE  \E d \in 1..(n + 1) : \E i \in 1..Len(docs'[d].words) :
                 /\ d = n + 1 => i <= 0
                 /\ KeyOf(docs'[d].words[i]) = k
                 /\ lists[k][j].loc = StartOf(lists'[End], d) + i - 1
    <3>1. PICK d \in 1..n : \E i \in 1..Len(docs[d].words) :
                 /\ KeyOf(docs[d].words[i]) = k
                 /\ lists[k][j].loc = StartOf(lists[End], d) + i - 1
      BY <1>2, <2>4 DEF PostsIn
    <3>2. docs'[d] = docs[d] /\ StartOf(lists'[End], d) = StartOf(lists[End], d)
      BY <2>1
    <3> QED
      BY <2>4, <3>1, <3>2
  <2>7. ASSUME NEW d \in 1..(n + 1), NEW i \in 1..Len(docs'[d].words),
               d = n + 1 => i <= 0, KeyOf(docs'[d].words[i]) = k
        PROVE  \E j \in 1..Len(lists[k]) : lists[k][j].loc = StartOf(lists'[End], d) + i - 1
    <3>1. d \in 1..n
      BY <2>3, <2>5, <2>7
    <3>2. docs'[d] = docs[d] /\ StartOf(lists'[End], d) = StartOf(lists[End], d)
      BY <2>1, <3>1
    <3> QED
      BY <1>2, <2>2, <2>4, <2>7, <3>1, <3>2 DEF PostsIn
  <2> QED
    BY <1>2, <2>1, <2>2, <2>6, <2>7 DEF PostsIn
<1>5. CASE AddWord
  <2> DEFINE n == Len(docs)
             w == KeyOf(docs[n].words[indexLoc + 1])
             m == Len(lists[w])
  <2>1. /\ n \in Nat \ {0} /\ docs[n] \in Documents
        /\ indexLoc \in Nat /\ indexLoc + 1 \in 1..Len(docs[n].words)
        /\ w \in WordKeys /\ m \in Nat
        /\ Len(lists'[w]) = m + 1
        /\ \A j \in 1..m : lists'[w][j] = lists[w][j]
        /\ lists'[w][m + 1] = [loc |-> Shifted, tData |-> 0]
        /\ \A o \in Keys : o # w => lists'[o] = lists[o]
        /\ lists'[End] = lists[End]
    BY <1>5, AddWordFacts
  <2>2. docs' = docs /\ Open = n /\ Open' = n /\ indexLoc' = indexLoc + 1
    BY <1>5 DEF AddWord, Open
  <2>3. Shifted = StartOf(lists[End], n) + indexLoc
    BY <1>5 DEF AddWord, Shifted, EndsInv
  <2>4. StartOf(lists[End], n) \in Nat /\ docs # << >>
    <3>1. docs # << >>
      BY <2>1
    <3>2. n \in 1..n
      BY <2>1
    <3> QED
      BY <1>3, <3>1, <3>2, TileFacts
  <2>5. w = KeyOf(docs[n].words[indexLoc + 1]) /\ n = Len(docs) /\ m = Len(lists[w])
    OBVIOUS
  <2> HIDE DEF w, m, n
  <2>6. CASE k = w
    <3>1. PostsIn(docs, lists'[End], lists'[k], k, n, indexLoc + 1)
      <4>1. lists'[k][m + 1].loc = StartOf(lists[End], n) + indexLoc
        BY <2>1, <2>3, <2>6, SMTT(30)
      <4> DEFINE list == lists[k]
                 new == lists'[k]
                 ends == lists[End]
      <4>2. PostsIn(docs, ends, list, k, Len(docs), indexLoc)
        BY <1>2, <2>2, <2>5
      <4>3. /\ Len(list) \in Nat /\ Len(new) = Len(list) + 1
            /\ \A j \in 1..Len(list) : new[j] = list[j]
            /\ new[Len(list) + 1].loc = StartOf(ends, Len(docs)) + indexLoc
            /\ StartOf(ends, Len(docs)) \in Nat
            /\ k = KeyOf(docs[Len(docs)].words[indexLoc + 1])
        BY <2>1, <2>4, <2>5, <2>6, <4>1, ZenonT(30)
      <4>4. /\ docs \in Seq(Documents) /\ docs # << >> /\ indexLoc \in Nat
            /\ indexLoc + 1 \in 1..Len(docs[Len(docs)].words)
        BY <1>3, <2>1, <2>4, <2>5
      <4> HIDE DEF list, new, ends
      <4>5. PostsIn(docs, ends, new, k, Len(docs), indexLoc + 1)
        BY <4>2, <4>3, <4>4, PostsMore
      <4> QED
        BY <2>1, <2>5, <4>5 DEF new, ends
    <3>2. Increasing(lists'[k])
      <4>1. DOMAIN lists'[k] = 1..(m + 1) /\ DOMAIN lists[k] = 1..m
        <5>1. lists[k] \in Seq(Post) /\ lists'[k] \in Seq(Post)
          BY <1>2, TypeStep DEF TypeInv, TypeOK
        <5> QED
          BY <2>1, <2>5, <2>6, <5>1, SMTT(30)
      <4>2. \A j \in 1..m : lists[k][j].loc < Shifted
        BY <1>2, <1>3, <2>1, <2>2, <2>3, <2>4, <2>5, <2>6, PostsBefore
      <4>3. SUFFICES ASSUME NEW i \in 1..(m + 1), NEW j \in 1..(m + 1), i < j
                     PROVE  lists'[k][i].loc < lists'[k][j].loc
        BY <4>1 DEF Increasing
      <4>4. i \in 1..m
        BY <2>1, <4>3
      <4>5. CASE j \in 1..m
        BY <1>2, <2>1, <2>6, <4>1, <4>3, <4>4, <4>5 DEF Increasing
      <4>6. CASE j = m + 1
        BY <2>1, <2>6, <4>2, <4>4, <4>6
      <4> QED
        BY <2>1, <4>5, <4>6
    <3> QED
      BY <2>2, <3>1, <3>2, SMTT(30)
  <2>7. CASE k # w
    <3>1. lists'[k] = lists[k]
      BY <1>2, <2>1, <2>7, SMTT(30)
    <3>2. PostsIn(docs, lists[End], lists[k], k, n, indexLoc + 1)
      BY <1>2, <1>3, <2>1, <2>2, <2>4, <2>5, <2>7, PostsOther, SMTT(30)
    <3> QED
      BY <1>2, <2>1, <2>2, <3>1, <3>2
  <2> QED
    BY <2>6, <2>7, SMTT(30)
<1>6. CASE AddAnchor
  <2>1. lists'[End] = lists[End] /\ lists'[k] = lists[k]
    BY <1>6, AddAnchorFacts
  <2>2. docs' = docs /\ Open' = Open /\ indexLoc' = indexLoc
    BY <1>6 DEF AddAnchor, AddAnchorOf, Open
  <2> QED
    BY <1>2, <2>1, <2>2
<1>7. CASE NewIndex
  <2>1. lists'[k] = << >> /\ docs' = << >>
    BY <1>2, <1>7 DEF NewIndex
  <2> QED
    BY <2>1 DEF PostsIn, Increasing
<1>8. CASE /\ UNCHANGED <<indexVars, docVars>>
           /\ pc' = "words" => pc = "words"
           /\ pc = "words" /\ pc' # "words" =>
                indexLoc = Len(Doc.words) /\ anchor = Len(Doc.anchors)
  <2>1. docs' = docs /\ lists' = lists /\ indexLoc' = indexLoc
    BY <1>8 DEF indexVars, docVars
  <2>2. \A d \in 1..Len(docs) : \A i \in 1..Len(docs[d].words) :
          (d = Open' => i <= indexLoc') <=> (d = Open => i <= indexLoc)
    <3>1. CASE pc = "words" /\ pc' # "words"
      <4>1. Doc = docs[Len(docs)] /\ Len(docs) \in Nat
        BY <3>1, DocType DEF TypeInv, TypeOK
      <4>2. \A i \in 1..Len(docs[Len(docs)].words) : i <= indexLoc
        BY <1>8, <3>1, <4>1
      <4>3. Open = Len(docs) /\ Open' = 0 /\ indexLoc' = indexLoc
        BY <2>1, <3>1 DEF Open
      <4>4. \A d \in 1..Len(docs) : d # 0
        BY <4>1
      <4> QED
        BY <4>2, <4>3, <4>4
    <3>2. CASE pc' = "words" \/ pc # "words"
      BY <1>8, <2>1, <3>2 DEF Open
    <3> QED
      BY <3>1, <3>2
  <2> QED
    BY <1>2, <2>1, <2>2 DEF PostsIn
<1> QED
  BY <1>4, <1>5, <1>6, <1>7, <1>8, StepKinds

-----------------------------------------------------------------------------
(* The posts of the anchors *)

\* The anchors stay those of the documents, with the number of their document.
LEMMA AnchorsStep ==
  ASSUME TypeInv, EndsInv, AnchorsInv, [Next]_vars
  PROVE  AnchorsInv'
<1>1. SUFFICES ASSUME NEW t \in AnchorTexts
               PROVE  AnchorsIn(docs', lists'[AnchorKey(t)], t, Open', anchor')
  BY DEF AnchorsInv
<1> DEFINE k == AnchorKey(t)
           n == Len(docs)
<1>2. /\ AnchorsIn(docs, lists[k], t, Open, anchor)
      /\ k \in Keys /\ k # End /\ k \notin WordKeys
      /\ \A t2 \in AnchorTexts : AnchorKey(t2) = k => t2 = t
  BY KeysApart DEF AnchorsInv
<1>3. k = AnchorKey(t) /\ n = Len(docs) /\ n \in Nat
  BY DEF TypeInv, TypeOK
<1> HIDE DEF k, n
<1>4. CASE StartDoc
  <2>1. /\ Len(docs') = n + 1
        /\ \A d \in 1..n : docs'[d] = docs[d]
        /\ lists'[k] = lists[k]
    BY <1>2, <1>3, <1>4, StartDocFacts
  <2>2. Open = 0 /\ Open' = n + 1 /\ anchor' = 0
    BY <1>4, <2>1 DEF StartDoc, Open
  <2>3. \A d \in 1..(n + 1) : d \in 1..n \/ d = n + 1
    BY <1>3
  <2>4. 1..n \subseteq 1..(n + 1) /\ \A d \in 1..n : d # 0 /\ d # n + 1
    BY <1>3
  <2>5. \A i \in 1..Len(docs'[n + 1].anchors) : ~(i <= 0)
    OBVIOUS
  <2>6. ASSUME NEW j \in 1..Len(lists[k])
        PROVE  \E d \in 1..(n + 1) : \E i \in 1..Len(docs'[d].anchors) :
                 /\ d = n + 1 => i <= 0
                 /\ docs'[d].anchors[i] = [text |-> t, freq |-> lists[k][j].loc]
                 /\ d = lists[k][j].tData + 1
    <3>1. PICK d \in 1..n : \E i \in 1..Len(docs[d].anchors) :
                 /\ docs[d].anchors[i] = [text |-> t, freq |-> lists[k][j].loc]
                 /\ d = lists[k][j].tData + 1
      BY <1>2, <1>3 DEF AnchorsIn
    <3>2. docs'[d] = docs[d]
      BY <2>1
    <3> QED
      BY <2>4, <3>1, <3>2
  <2>7. ASSUME NEW d \in 1..(n + 1), NEW i \in 1..Len(docs'[d].anchors),
               d = n + 1 => i <= 0, docs'[d].anchors[i].text = t
        PROVE  \E j \in 1..Len(lists[k]) :
                 lists[k][j] = [loc |-> docs'[d].anchors[i].freq, tData |-> d - 1]
    <3>1. d \in 1..n
      BY <2>3, <2>5, <2>7
    <3>2. docs'[d] = docs[d] /\ d # 0
      BY <2>1, <2>4, <3>1
    <3>3. \A c \in 1..n : \A h \in 1..Len(docs[c].anchors) :
            c # 0 /\ docs[c].anchors[h].text = t =>
              \E j \in 1..Len(lists[k]) :
                lists[k][j] = [loc |-> docs[c].anchors[h].freq, tData |-> c - 1]
      BY <1>2, <1>3, <2>2 DEF AnchorsIn
    <3>4. i \in 1..Len(docs[d].anchors) /\ docs[d].anchors[i].text = t
      BY <2>7, <3>2
    <3>5. \E j \in 1..Len(lists[k]) :
            lists[k][j] = [loc |-> docs[d].anchors[i].freq, tData |-> d - 1]
      BY <3>1, <3>2, <3>3, <3>4
    <3> QED
      BY <3>2, <3>5
  <2>8. Len(docs') = n + 1
    BY <2>1
  <2>9. AnchorsIn(docs', lists[k], t, n + 1, 0)
    BY <2>6, <2>7, <2>8, Zenon DEF AnchorsIn
  <2> QED
    BY <1>3, <2>1, <2>2, <2>9
<1>5. CASE AddWord
  <2>1. lists'[k] = lists[k]
    BY <1>2, <1>5, AddWordFacts
  <2>2. docs' = docs /\ Open' = Open /\ anchor' = anchor
    BY <1>5 DEF AddWord, Open
  <2> QED
    BY <1>2, <1>3, <2>1, <2>2
<1>6. CASE AddAnchor
  <2> DEFINE a == docs[n].anchors[anchor + 1]
             ka == AnchorKey(a.text)
             m == Len(lists[ka])
  <2>1. /\ n \in Nat \ {0} /\ anchor \in Nat /\ anchor + 1 \in 1..Len(docs[n].anchors)
        /\ a.text \in AnchorTexts /\ a.freq \in Nat
        /\ a = [text |-> a.text, freq |-> a.freq]
        /\ m \in Nat
        /\ Len(lists'[ka]) = m + 1
        /\ \A j \in 1..m : lists'[ka][j] = lists[ka][j]
        /\ lists'[ka][m + 1] = [loc |-> a.freq, tData |-> n - 1]
        /\ \A o \in Keys : o # ka => lists'[o] = lists[o]
    BY <1>3, <1>6, AddAnchorFacts, ZenonT(30)
  <2>2. docs' = docs /\ Open = n /\ Open' = n /\ anchor' = anchor + 1
    BY <1>3, <1>6 DEF AddAnchor, AddAnchorOf, Open
  <2>3. \A d : \A i \in 1..Len(docs[d].anchors) :
          (d = n => i <= anchor + 1) <=> ((d = n => i <= anchor) \/ (d = n /\ i = anchor + 1))
    <3> SUFFICES ASSUME NEW d, NEW i \in 1..Len(docs[d].anchors)
                 PROVE  (d = n => i <= anchor + 1)
                          <=> ((d = n => i <= anchor) \/ (d = n /\ i = anchor + 1))
      OBVIOUS
    <3>1. i \in Int
      OBVIOUS
    <3> QED
      BY <2>1, <3>1, SMTT(30)
  <2>4. /\ a = docs[n].anchors[anchor + 1] /\ ka = AnchorKey(a.text) /\ m = Len(lists[ka])
        /\ n \in 1..n /\ (n - 1) + 1 = n
    BY <2>1
  <2>5. a.text = t => ka = k
    BY <1>3
  <2>6. ka = k => a.text = t
    BY <1>2, <2>1
  <2> HIDE DEF a, ka, m
  <2>7. CASE ka = k
    <3> DEFINE list == lists[k]
               new == lists'[k]
    <3>1. /\ m = Len(list) /\ Len(new) = m + 1 /\ \A j \in 1..m : new[j] = list[j]
          /\ new[m + 1] = [loc |-> a.freq, tData |-> n - 1]
      BY <2>1, <2>4, <2>7
    <3>2. \A j \in 1..(m + 1) : j \in 1..m \/ j = m + 1
      BY <2>1
    <3>3. 1..m \subseteq 1..(m + 1) /\ m + 1 \in 1..(m + 1)
      BY <2>1
    <3>4. AnchorsIn(docs, list, t, n, anchor)
      BY <1>2, <2>2
    <3> HIDE DEF list, new
    <3>5. ASSUME NEW j \in 1..(m + 1)
          PROVE  \E d \in 1..n : \E i \in 1..Len(docs[d].anchors) :
                   /\ d = n => i <= anchor + 1
                   /\ docs[d].anchors[i] = [text |-> t, freq |-> new[j].loc]
                   /\ d = new[j].tData + 1
      <4>1. CASE j = m + 1
        <5>1. /\ n = n => anchor + 1 <= anchor + 1
              /\ docs[n].anchors[anchor + 1] = [text |-> t, freq |-> new[j].loc]
              /\ n = new[j].tData + 1
          BY <2>1, <2>4, <2>6, <2>7, <3>1, <4>1, SMTT(30)
        <5> QED
          BY <2>1, <2>4, <5>1
      <4>2. CASE j \in 1..m
        <5>1. PICK d \in 1..n : \E i \in 1..Len(docs[d].anchors) :
                /\ d = n => i <= anchor
                /\ docs[d].anchors[i] = [text |-> t, freq |-> list[j].loc]
                /\ d = list[j].tData + 1
          BY <1>3, <3>1, <3>4, <4>2 DEF AnchorsIn
        <5> QED
          BY <2>3, <3>1, <4>2, <5>1
      <4> QED
        BY <3>2, <4>1, <4>2
    <3>6. ASSUME NEW d \in 1..n, NEW i \in 1..Len(docs[d].anchors),
                 d = n => i <= anchor + 1, docs[d].anchors[i].text = t
          PROVE  \E j \in 1..(m + 1) :
                   new[j] = [loc |-> docs[d].anchors[i].freq, tData |-> d - 1]
      <4>1. CASE d = n => i <= anchor
        <5>1. PICK j \in 1..m : list[j] = [loc |-> docs[d].anchors[i].freq, tData |-> d - 1]
          BY <1>3, <3>1, <3>4, <3>6, <4>1 DEF AnchorsIn
        <5> QED
          BY <3>1, <3>3, <5>1
      <4>2. CASE d = n /\ i = anchor + 1
        BY <2>4, <3>1, <3>3, <4>2
      <4> QED
        BY <2>3, <3>6, <4>1, <4>2
    <3>7. AnchorsIn(docs, new, t, n, anchor + 1)
      BY <1>3, <3>1, <3>5, <3>6 DEF AnchorsIn
    <3> QED
      BY <1>3, <2>2, <3>7 DEF new
  <2>8. CASE ka # k
    <3>1. lists'[k] = lists[k]
      BY <1>2, <2>1, <2>8
    <3>2. \A d \in 1..n : \A i \in 1..Len(docs[d].anchors) :
            docs[d].anchors[i].text = t =>
              ((d = n => i <= anchor + 1) <=> (d = n => i <= anchor))
      BY <2>3, <2>4, <2>5, <2>8
    <3>3. AnchorsIn(docs, lists[k], t, n, anchor + 1)
      BY <1>2, <1>3, <2>2, <3>2 DEF AnchorsIn
    <3> QED
      BY <1>3, <2>2, <3>1, <3>3
  <2> QED
    BY <2>7, <2>8, SMTT(30)
<1>7. CASE NewIndex
  <2>1. lists'[k] = << >> /\ docs' = << >>
    BY <1>2, <1>7 DEF NewIndex
  <2> QED
    BY <1>3, <2>1 DEF AnchorsIn
<1>8. CASE /\ UNCHANGED <<indexVars, docVars>>
           /\ pc' = "words" => pc = "words"
           /\ pc = "words" /\ pc' # "words" =>
                indexLoc = Len(Doc.words) /\ anchor = Len(Doc.anchors)
  <2>1. docs' = docs /\ lists' = lists /\ anchor' = anchor
    BY <1>8 DEF indexVars, docVars
  <2>2. \A d \in 1..Len(docs) : \A i \in 1..Len(docs[d].anchors) :
          (d = Open' => i <= anchor') <=> (d = Open => i <= anchor)
    <3>1. CASE pc = "words" /\ pc' # "words"
      <4>1. Doc = docs[Len(docs)] /\ Len(docs) \in Nat
        BY <3>1, DocType DEF TypeInv, TypeOK
      <4>2. \A i \in 1..Len(docs[Len(docs)].anchors) : i <= anchor
        BY <1>8, <3>1, <4>1
      <4>3. Open = Len(docs) /\ Open' = 0 /\ anchor' = anchor
        BY <2>1, <3>1 DEF Open
      <4>4. \A d \in 1..Len(docs) : d # 0
        BY <4>1
      <4> QED
        BY <4>2, <4>3, <4>4
    <3>2. CASE pc' = "words" \/ pc # "words"
      BY <1>8, <2>1, <3>2 DEF Open
    <3> QED
      BY <3>1, <3>2
  <2> QED
    BY <1>2, <1>3, <2>1, <2>2 DEF AnchorsIn
<1> QED
  BY <1>4, <1>5, <1>6, <1>7, <1>8, StepKinds

\* Between two documents AnchorsInv says what AnchorsExact does.
LEMMA AnchorsAgree ==
  ASSUME TypeInv, AnchorsInv, pc # "words", NEW t \in AnchorTexts
  PROVE  LET list == lists[AnchorKey(t)]
         IN  {<<list[j].tData + 1, list[j].loc>> : j \in DOMAIN list} =
               UNION {{<<d, docs[d].anchors[j].freq>> :
                         j \in {i \in DOMAIN docs[d].anchors : docs[d].anchors[i].text = t}} :
                      d \in DOMAIN docs}
<1> DEFINE list == lists[AnchorKey(t)]
           n == Len(docs)
<1>1. list \in Seq(Post) /\ docs \in Seq(Documents) /\ n \in Nat
  BY KeysApart DEF TypeInv, TypeOK
<1>2. DOMAIN list = 1..Len(list) /\ DOMAIN docs = 1..n
  BY <1>1
<1>3. \A d \in 1..n : /\ DOMAIN docs[d].anchors = 1..Len(docs[d].anchors)
                      /\ Len(docs[d].anchors) \in Nat
  <2> SUFFICES ASSUME NEW d \in 1..n
               PROVE  /\ DOMAIN docs[d].anchors = 1..Len(docs[d].anchors)
                      /\ Len(docs[d].anchors) \in Nat
    OBVIOUS
  <2>1. docs[d] \in Documents
    BY <1>1
  <2>2. docs[d].anchors \in Seq(Anchor)
    BY <2>1 DEF Documents
  <2> QED
    BY <2>2, LenProperties
<1>4. AnchorsIn(docs, list, t, 0, anchor)
  BY DEF AnchorsInv, Open
<1>5. \A j \in 1..Len(list) : list[j].tData \in Nat /\ list[j].loc \in Nat
  <2>1. \A j \in 1..Len(list) : list[j] \in Post
    BY <1>1
  <2> QED
    BY <2>1 DEF Post
<1> HIDE DEF list, n
<1>6. ASSUME NEW j \in 1..Len(list)
      PROVE  \E d \in 1..n : \E i \in 1..Len(docs[d].anchors) :
               /\ docs[d].anchors[i].text = t
               /\ <<list[j].tData + 1, list[j].loc>> = <<d, docs[d].anchors[i].freq>>
  <2>1. PICK d \in 1..n : \E i \in 1..Len(docs[d].anchors) :
               /\ docs[d].anchors[i] = [text |-> t, freq |-> list[j].loc]
               /\ d = list[j].tData + 1
    BY <1>4 DEF AnchorsIn, n
  <2>2. PICK i \in 1..Len(docs[d].anchors) :
               /\ docs[d].anchors[i] = [text |-> t, freq |-> list[j].loc]
               /\ d = list[j].tData + 1
    BY <2>1
  <2>3. docs[d].anchors[i].text = t /\ docs[d].anchors[i].freq = list[j].loc
    BY <2>2
  <2> QED
    BY <2>2, <2>3
<1>7. ASSUME NEW d \in 1..n, NEW i \in 1..Len(docs[d].anchors), docs[d].anchors[i].text = t
      PROVE  \E j \in 1..Len(list) :
               <<list[j].tData + 1, list[j].loc>> = <<d, docs[d].anchors[i].freq>>
  <2>1. d # 0 /\ (d - 1) + 1 = d
    BY <1>1
  <2>2. PICK j \in 1..Len(list) :
          list[j] = [loc |-> docs[d].anchors[i].freq, tData |-> d - 1]
    BY <1>4, <1>7, <2>1 DEF AnchorsIn, n
  <2>3. list[j].loc = docs[d].anchors[i].freq /\ list[j].tData + 1 = d
    BY <2>1, <2>2
  <2> QED
    BY <2>3
<1>8. {<<list[j].tData + 1, list[j].loc>> : j \in 1..Len(list)} =
        UNION {{<<d, docs[d].anchors[j].freq>> :
                  j \in {i \in 1..Len(docs[d].anchors) : docs[d].anchors[i].text = t}} :
               d \in 1..n}
  <2> DEFINE Of(d) == {<<d, docs[d].anchors[j].freq>> :
                  j \in {i \in 1..Len(docs[d].anchors) : docs[d].anchors[i].text = t}}
             L == {<<list[j].tData + 1, list[j].loc>> : j \in 1..Len(list)}
             R == UNION {Of(d) : d \in 1..n}
  <2>1. ASSUME NEW e \in L PROVE e \in R
    <3>1. PICK j \in 1..Len(list) : e = <<list[j].tData + 1, list[j].loc>>
      OBVIOUS
    <3>2. PICK d \in 1..n : \E i \in 1..Len(docs[d].anchors) :
            docs[d].anchors[i].text = t /\ e = <<d, docs[d].anchors[i].freq>>
      BY <1>6, <3>1
    <3>3. e \in Of(d)
      BY <3>2
    <3> HIDE DEF Of
    <3> QED
      BY <3>3
  <2>2. ASSUME NEW e \in R PROVE e \in L
    <3>1. PICK d \in 1..n : e \in Of(d)
      OBVIOUS
    <3>2. PICK i \in 1..Len(docs[d].anchors) :
            docs[d].anchors[i].text = t /\ e = <<d, docs[d].anchors[i].freq>>
      BY <3>1
    <3>3. PICK j \in 1..Len(list) :
            <<list[j].tData + 1, list[j].loc>> = <<d, docs[d].anchors[i].freq>>
      BY <1>7, <3>2
    <3> QED
      BY <3>2, <3>3
  <2>3. L = R
    BY <2>1, <2>2
  <2> QED
    BY <2>3
<1>9. \A d \in 1..n :
        {<<d, docs[d].anchors[j].freq>> :
           j \in {i \in 1..Len(docs[d].anchors) : docs[d].anchors[i].text = t}} =
        {<<d, docs[d].anchors[j].freq>> :
           j \in {i \in DOMAIN docs[d].anchors : docs[d].anchors[i].text = t}}
  BY <1>3
<1> QED
  BY <1>2, <1>8, <1>9, SMTT(30) DEF list

-----------------------------------------------------------------------------
(* From a location back to its document *)

\* Every set of natural numbers that is not empty has a least element.
LEMMA LeastNat ==
  ASSUME NEW S, S \subseteq Nat, S # {}
  PROVE  \E n \in S : \A m \in S : n <= m
<1> DEFINE R == {p \in Nat \X Nat : p[1] < p[2]}
<1>1. IsWellFoundedOn(R, Nat)
  BY NatLessThanWellFounded, Zenon DEF OpToRel
<1> HIDE DEF R
<1>2. PICK n \in S : \A m \in S : <<m, n>> \notin R
  BY <1>1, WFMin, Zenon
<1>3. \A m \in S : ~(m < n)
  BY <1>2 DEF R
<1> QED
  BY <1>3

\* The document of a location is the one between whose start and end it lies.
LEMMA DocAtFacts ==
  ASSUME NEW ds \in Seq(Documents), NEW ends \in Seq(Post), EndsTile(ds, ends)
  PROVE  /\ \A d \in 1..Len(ds), l \in Nat :
              StartOf(ends, d) <= l /\ l <= ends[d].loc => DocAt(ends, l) = d
         /\ ds # << >> =>
              \A l \in 0..LastOf(ends).loc :
                LET d == DocAt(ends, l)
                IN  d \in 1..Len(ds) /\ StartOf(ends, d) <= l /\ l <= ends[d].loc
<1> DEFINE n == Len(ds)
           At(d, l) == l <= ends[d].loc /\ \A c \in 1..(d - 1) : ends[c].loc < l
<1>1. /\ n \in Nat /\ DOMAIN ends = 1..n
      /\ \A d \in 1..n : ends[d].loc \in Nat /\ StartOf(ends, d) \in Nat
      /\ \A c, d \in 1..n : c < d => ends[c].loc < StartOf(ends, d) /\ ends[c].loc < ends[d].loc
  <2>1. n \in Nat /\ Len(ends) = n
    BY TileFacts
  <2>2. DOMAIN ends = 1..n
    BY <2>1, LenProperties
  <2> QED
    BY <2>1, <2>2, TileFacts
<1>2. \A l : DocAt(ends, l) = CHOOSE d \in 1..n : At(d, l)
  BY <1>1 DEF DocAt
<1> HIDE DEF n
<1>3. ASSUME NEW d \in 1..n, NEW l \in Nat, StartOf(ends, d) <= l, l <= ends[d].loc
      PROVE  DocAt(ends, l) = d
  <2>1. At(d, l)
    BY <1>1, <1>3, SMTT(30)
  <2>2. ASSUME NEW c \in 1..n, At(c, l) PROVE c = d
    <3>1. CASE c < d
      BY <1>1, <1>3, <2>2, <3>1
    <3>2. CASE d < c
      BY <1>1, <1>3, <2>2, <3>2
    <3> QED
      BY <1>1, <3>1, <3>2
  <2> HIDE DEF At
  <2> QED
    BY <1>2, <2>1, <2>2
<1>4. ASSUME ds # << >>, NEW l \in 0..LastOf(ends).loc
      PROVE  \E d \in 1..n : StartOf(ends, d) <= l /\ l <= ends[d].loc
  <2> DEFINE S == {d \in 1..n : l <= ends[d].loc}
  <2>1. n \in 1..n /\ LastOf(ends) = ends[n]
    BY <1>1, <1>4, TileFacts DEF n, LastOf
  <2>2. n \in S /\ S \subseteq Nat
    BY <1>1, <2>1
  <2>3. PICK d \in S : \A c \in S : d <= c
    BY <2>2, LeastNat
  <2>4. ASSUME d # 1 PROVE StartOf(ends, d) <= l
    <3>1. d - 1 \in 1..n /\ d - 1 \notin S
      BY <1>1, <2>3, <2>4
    <3>2. ends[d - 1].loc < l
      BY <1>1, <3>1
    <3> QED
      BY <1>1, <2>4, <3>1, <3>2 DEF StartOf
  <2>5. d = 1 => StartOf(ends, d) <= l
    BY <1>1 DEF StartOf
  <2> QED
    BY <2>4, <2>5
<1>5. ASSUME ds # << >>, NEW l \in 0..LastOf(ends).loc
      PROVE  /\ DocAt(ends, l) \in 1..n
             /\ StartOf(ends, DocAt(ends, l)) <= l /\ l <= ends[DocAt(ends, l)].loc
  <2>1. PICK d \in 1..n : StartOf(ends, d) <= l /\ l <= ends[d].loc
    BY <1>4, <1>5
  <2>2. l \in Nat
    OBVIOUS
  <2>3. DocAt(ends, l) = d
    BY <1>3, <2>1, <2>2
  <2> QED
    BY <2>1, <2>3
<1> QED
  BY <1>3, <1>5 DEF n

\* An index whose ends tile it and whose lists hold the posts of all tokens
\* agrees with its documents.
LEMMA WordsAgree ==
  ASSUME NEW ds \in Seq(Documents), NEW ls \in [Keys -> Seq(Post)], EndsTile(ds, ls[End]),
         NEW at, \A k \in WordKeys : PostsIn(ds, ls[End], ls[k], k, 0, at)
  PROVE  Agree(ds, ls)
<1> DEFINE ends == ls[End]
           n == Len(ds)
<1>1. ends \in Seq(Post)
  BY KeysApart
<1> HIDE DEF ends
<1>2. EndsTile(ds, ends)
  BY DEF ends
<1>3. /\ n \in Nat /\ Len(ends) = n /\ DOMAIN ends = 1..n
      /\ \A d \in 1..n :
           /\ ds[d] \in Documents
           /\ Len(ds[d].words) \in Nat
           /\ ends[d].loc \in Nat /\ StartOf(ends, d) \in Nat
           /\ ends[d].loc = StartOf(ends, d) + Len(ds[d].words)
           /\ \A c \in 1..n : c < d => ends[c].loc < ends[d].loc
  <2>1. n \in Nat /\ Len(ends) = n
    BY <1>1, <1>2, TileFacts
  <2>2. DOMAIN ends = 1..n
    BY <1>1, <2>1, LenProperties
  <2>3. \A d \in 1..n :
          /\ ds[d] \in Documents
          /\ Len(ds[d].words) \in Nat
          /\ ends[d].loc \in Nat /\ StartOf(ends, d) \in Nat
          /\ ends[d].loc = StartOf(ends, d) + Len(ds[d].words)
    BY <1>1, <1>2, TileFacts
  <2>4. \A d \in 1..n : \A c \in 1..n : c < d => ends[c].loc < ends[d].loc
    BY <1>1, <1>2, TileFacts
  <2> QED
    BY <2>1, <2>2, <2>3, <2>4
<1>4. \A d \in 1..n : \A l \in Nat :
        StartOf(ends, d) <= l /\ l <= ends[d].loc => DocAt(ends, l) = d
  BY <1>1, <1>2, DocAtFacts
<1> SUFFICES ASSUME ds # << >>, NEW k \in WordKeys \cup {End}
             PROVE  {ls[k][j].loc : j \in DOMAIN ls[k]} =
                      {l \in 0..LastOf(ends).loc : KeyAt(ds, ends, l) = k}
  BY <1>2, Zenon DEF Agree, EndsTile, ends
<1>5. ASSUME NEW l \in 0..LastOf(ends).loc
      PROVE  LET d == DocAt(ends, l)
             IN  d \in 1..n /\ StartOf(ends, d) <= l /\ l <= ends[d].loc
  BY <1>1, <1>2, DocAtFacts
<1>6. /\ n \in 1..n /\ LastOf(ends) = ends[n] /\ LastOf(ends).loc \in Nat
      /\ \A d \in 1..n : ends[d].loc <= LastOf(ends).loc
  BY <1>3 DEF LastOf
<1>7. CASE k = End
  <2>1. ASSUME NEW j \in 1..n
        PROVE  ends[j].loc \in 0..LastOf(ends).loc /\ KeyAt(ds, ends, ends[j].loc) = End
    <3>1. DocAt(ends, ends[j].loc) = j
      <4>1. ends[j].loc \in Nat /\ StartOf(ends, j) <= ends[j].loc /\ ends[j].loc <= ends[j].loc
        BY <1>3
      <4> QED
        BY <1>4, <4>1
    <3> QED
      BY <1>3, <1>6, <3>1 DEF KeyAt
  <2>2. ASSUME NEW l \in 0..LastOf(ends).loc, KeyAt(ds, ends, l) = End
        PROVE  \E j \in 1..n : l = ends[j].loc
    <3> DEFINE d == DocAt(ends, l)
    <3>1. d \in 1..n /\ StartOf(ends, d) <= l /\ l <= ends[d].loc
      BY <1>5
    <3> HIDE DEF d
    <3>2. SUFFICES ASSUME l # ends[d].loc PROVE FALSE
      BY <3>1
    <3>3. KeyOf(ds[d].words[l - StartOf(ends, d) + 1]) = End
      BY <2>2, <3>2 DEF KeyAt, d
    <3>4. l - StartOf(ends, d) + 1 \in 1..Len(ds[d].words)
      BY <1>3, <3>1, <3>2, SMTT(30)
    <3> QED
      BY <1>3, <3>1, <3>3, <3>4, DocumentFacts, KeysApart
  <2>3. {ends[j].loc : j \in 1..n} = {l \in 0..LastOf(ends).loc : KeyAt(ds, ends, l) = End}
    BY <2>1, <2>2
  <2>4. ls[k] = ends /\ DOMAIN ends = 1..n
    BY <1>3, <1>7 DEF ends
  <2> QED
    BY <1>7, <2>3, <2>4, ZenonT(30)
<1>8. CASE k \in WordKeys
  <2>1. /\ PostsIn(ds, ends, ls[k], k, 0, at) /\ k # End
        /\ DOMAIN ls[k] = 1..Len(ls[k])
    <3>1. ls[k] \in Seq(Post)
      BY <1>8, KeysApart
    <3> QED
      BY <1>8, <3>1, KeysApart, LenProperties DEF ends
  <2>2. ASSUME NEW j \in 1..Len(ls[k])
        PROVE  ls[k][j].loc \in 0..LastOf(ends).loc /\ KeyAt(ds, ends, ls[k][j].loc) = k
    <3>1. PICK d \in 1..n : \E i \in 1..Len(ds[d].words) :
            KeyOf(ds[d].words[i]) = k /\ ls[k][j].loc = StartOf(ends, d) + i - 1
      BY <2>1 DEF PostsIn
    <3>2. PICK i \in 1..Len(ds[d].words) :
            KeyOf(ds[d].words[i]) = k /\ ls[k][j].loc = StartOf(ends, d) + i - 1
      BY <3>1
    <3> DEFINE l == StartOf(ends, d) + i - 1
    <3>3. /\ l \in Nat /\ StartOf(ends, d) <= l /\ l < ends[d].loc
          /\ l - StartOf(ends, d) + 1 = i
      BY <1>3, SMTT(30)
    <3> HIDE DEF l
    <3>4. DocAt(ends, l) = d
      BY <1>3, <1>4, <3>3
    <3>5. KeyAt(ds, ends, l) = k
      BY <1>3, <3>2, <3>3, <3>4 DEF KeyAt
    <3>6. l \in 0..LastOf(ends).loc
      BY <1>3, <1>6, <3>3, SMTT(30)
    <3> QED
      BY <3>2, <3>5, <3>6 DEF l
  <2>3. ASSUME NEW l \in 0..LastOf(ends).loc, KeyAt(ds, ends, l) = k
        PROVE  \E j \in 1..Len(ls[k]) : l = ls[k][j].loc
    <3> DEFINE d == DocAt(ends, l)
               i == l - StartOf(ends, d) + 1
    <3>1. d \in 1..n /\ StartOf(ends, d) <= l /\ l <= ends[d].loc
      BY <1>5
    <3>2. l # ends[d].loc /\ KeyOf(ds[d].words[i]) = k
      BY <2>1, <2>3 DEF KeyAt
    <3> HIDE DEF d
    <3>3. i \in 1..Len(ds[d].words) /\ l = StartOf(ends, d) + i - 1 /\ d # 0
      <4>1. /\ l \in Int /\ d \in Nat \ {0}
            /\ Len(ds[d].words) \in Nat /\ StartOf(ends, d) \in Nat
            /\ ends[d].loc = StartOf(ends, d) + Len(ds[d].words)
        BY <1>3, <2>3, <3>1
      <4> QED
        BY <3>1, <3>2, <4>1, SMTT(30)
    <3> HIDE DEF i
    <3> QED
      BY <2>1, <3>1, <3>2, <3>3 DEF PostsIn
  <2> QED
    BY <2>1, <2>2, <2>3, ZenonT(30)
<1> QED
  BY <1>7, <1>8

\* Between two documents the index agrees with them.
LEMMA IndexAgrees ==
  ASSUME TypeInv, EndsInv, WordsInv, pc # "words"
  PROVE  Agree(docs, lists)
<1>1. docs \in Seq(Documents) /\ lists \in [Keys -> Seq(Post)] /\ EndsTile(docs, lists[End])
  BY DEF TypeInv, TypeOK, EndsInv
<1>2. \A k \in WordKeys : PostsIn(docs, lists[End], lists[k], k, 0, indexLoc)
  BY DEF WordsInv, Open
<1> QED
  BY <1>1, <1>2, WordsAgree

\* Only WriteBody completes a file, with the index and its documents.
LEMMA CompleteStep ==
  ASSUME TypeInv, EndsInv, WordsInv, CompleteInv, [Next]_vars
  PROVE  CompleteInv'
<1> SUFFICES ASSUME NEW c \in ChunkNos, disk'[c].state = "complete"
             PROVE  Agree(disk'[c].docs, disk'[c].lists) /\ disk'[c].urls = UrlsOf(disk'[c].docs)
  BY DEF CompleteInv, ChunkNos
<1>0. DOMAIN disk = ChunkNos
  BY DEF TypeInv, TypeOK
<1>1. CASE disk'[c] = disk[c]
  BY <1>1 DEF CompleteInv
<1>2. CASE WriteBody
  <2>1. disk'[c] # disk[c] => disk'[c] = Complete
    BY <1>0, <1>2 DEF WriteBody
  <2>2. Agree(docs, lists) /\ urls = UrlsOf(docs)
    BY <1>2, IndexAgrees DEF WriteBody, EndsInv
  <2> QED
    BY <1>1, <2>1, <2>2 DEF Complete
<1>3. CASE OpenChunk \/ Stretch \/ WriteHeader
  <2>1. disk'[c] # disk[c] =>
          \E state \in {"empty", "zeros", "header"} : disk'[c] = File(state)
    BY <1>0, <1>3 DEF OpenChunk, Stretch, WriteHeader
  <2>2. disk'[c] = disk[c]
    BY <2>1 DEF File
  <2> QED
    BY <1>1, <2>2
<1>4. CASE disk' = disk
  BY <1>1, <1>4
<1>5. CASE NextFile \/ StartDoc \/ AddWord \/ AddAnchor \/ FinishDoc \/ FinishFiles \/ SkipChunk
           \/ StretchFails \/ Restart
  BY <1>4, <1>5 DEF NextFile, StartDoc, AddWord, AddAnchor, AddAnchorOf, FinishDoc, FinishDocIf,
                    FinishFiles, SkipChunk, StretchFails, Restart
<1>6. CASE UNCHANGED vars
  BY <1>4, <1>6 DEF vars
<1> QED
  BY <1>2, <1>3, <1>5, <1>6 DEF Next

-----------------------------------------------------------------------------
(* One sequence after the other *)

\* f holds the first i sequences of s one after the other, for i up to n.
IsFlat(f, s, n) == f = [i \in 0..n |-> IF i = 0 THEN << >> ELSE f[i - 1] \o s[i]]

LEMMA FlatExists ==
  ASSUME NEW s, NEW n \in Nat
  PROVE  \E f : IsFlat(f, s, n)
<1> DEFINE S == {m \in Nat : ~ \E f : IsFlat(f, s, m)}
<1>1. SUFFICES ASSUME S # {} PROVE FALSE
  OBVIOUS
<1>2. PICK m \in S : \A k \in S : m <= k
  BY <1>1, LeastNat
<1>3. CASE m = 0
  <2> DEFINE f == [i \in 0..0 |-> << >>]
  <2>1. f = [i \in 0..0 |-> IF i = 0 THEN << >> ELSE f[i - 1] \o s[i]]
    OBVIOUS
  <2>2. IsFlat(f, s, 0)
    BY <2>1 DEF IsFlat
  <2> QED
    BY <1>2, <1>3, <2>2
<1>4. CASE m # 0
  <2>1. m \in Nat \ {0} /\ m - 1 \in Nat /\ m - 1 \notin S
    BY <1>2, <1>4
  <2>2. PICK f : IsFlat(f, s, m - 1)
    BY <2>1
  <2> DEFINE g == [i \in 0..m |-> IF i = m THEN f[m - 1] \o s[m] ELSE f[i]]
  <2>3. \A i \in 0..(m - 1) : f[i] = IF i = 0 THEN << >> ELSE f[i - 1] \o s[i]
    BY <2>2 DEF IsFlat
  <2>4. ASSUME NEW i \in 0..m PROVE g[i] = IF i = 0 THEN << >> ELSE g[i - 1] \o s[i]
    <3>1. CASE i = m
      <4>1. g[m - 1] = f[m - 1] /\ g[m] = f[m - 1] \o s[m]
        BY <2>1
      <4> QED
        BY <2>1, <3>1, <4>1
    <3>2. CASE i # m
      <4>1. i \in 0..(m - 1) /\ g[i] = f[i]
        BY <2>1, <3>2
      <4>2. CASE i = 0
        BY <2>3, <4>1, <4>2
      <4>3. CASE i # 0
        <5>1. g[i - 1] = f[i - 1]
          BY <2>1, <3>2, <4>3
        <5> QED
          BY <2>3, <4>1, <4>3, <5>1
      <4> QED
        BY <4>2, <4>3
    <3> QED
      BY <3>1, <3>2
  <2>5. g = [i \in 0..m |-> g[i]]
    OBVIOUS
  <2> HIDE DEF g
  <2>6. IsFlat(g, s, m)
    BY <2>4, <2>5 DEF IsFlat
  <2> QED
    BY <1>2, <2>6
<1> QED
  BY <1>3, <1>4

\* What two sequences have in common is the same flat.
LEMMA FlatUnique ==
  ASSUME NEW s, NEW t, NEW n \in Nat, NEW m \in Nat, NEW f, NEW g,
         IsFlat(f, s, n), IsFlat(g, t, m),
         NEW k \in Nat, k <= n, k <= m, \A i \in 1..k : s[i] = t[i]
  PROVE  f[k] = g[k]
<1> DEFINE S == {j \in Nat : j <= k /\ f[j] # g[j]}
<1>1. SUFFICES ASSUME S # {} PROVE FALSE
  OBVIOUS
<1>2. PICK j \in S : \A i \in S : j <= i
  BY <1>1, LeastNat
<1>3. /\ f[j] = IF j = 0 THEN << >> ELSE f[j - 1] \o s[j]
      /\ g[j] = IF j = 0 THEN << >> ELSE g[j - 1] \o t[j]
  <2>1. j \in 0..n /\ j \in 0..m
    BY <1>2
  <2> QED
    BY <2>1 DEF IsFlat
<1>4. CASE j # 0
  <2>1. j - 1 \in Nat /\ j - 1 <= k /\ j - 1 \notin S /\ j \in 1..k
    BY <1>2, <1>4
  <2> QED
    BY <1>2, <1>3, <1>4, <2>1
<1> QED
  BY <1>2, <1>3, <1>4

LEMMA FlatType ==
  ASSUME NEW D, NEW s \in Seq(Seq(D)), NEW f, IsFlat(f, s, Len(s)),
         NEW k \in 0..Len(s)
  PROVE  f[k] \in Seq(D)
<1> DEFINE S == {j \in Nat : j <= k /\ f[j] \notin Seq(D)}
<1>1. SUFFICES ASSUME S # {} PROVE FALSE
  OBVIOUS
<1>2. PICK j \in S : \A i \in S : j <= i
  BY <1>1, LeastNat
<1>3. j \in 0..Len(s) /\ Len(s) \in Nat
  BY <1>2
<1>4. f[j] = IF j = 0 THEN << >> ELSE f[j - 1] \o s[j]
  BY <1>3 DEF IsFlat
<1>5. CASE j # 0
  <2>1. j - 1 \in Nat /\ j - 1 <= k /\ j - 1 \notin S /\ j \in 1..Len(s)
    BY <1>2, <1>3, <1>5
  <2>2. f[j - 1] \in Seq(D) /\ s[j] \in Seq(D)
    BY <2>1, ElementOfSeq
  <2>3. f[j - 1] \o s[j] \in Seq(D)
    BY <2>2, ConcatProperties
  <2> QED
    BY <1>2, <1>4, <1>5, <2>3
<1>6. CASE j = 0
  <2>1. f[j] = << >> /\ << >> \in Seq(D)
    BY <1>4, <1>6
  <2> QED
    BY <1>2, <2>1
<1> QED
  BY <1>5, <1>6

LEMMA FlattenIsFlat ==
  ASSUME NEW s, Len(s) \in Nat
  PROVE  \E f : IsFlat(f, s, Len(s)) /\ Flatten(s) = f[Len(s)]
<1> DEFINE f == CHOOSE f : IsFlat(f, s, Len(s))
<1>1. IsFlat(f, s, Len(s))
  BY FlatExists
<1>2. Flatten(s) = f[Len(s)]
  BY Zenon DEF Flatten, IsFlat
<1> QED
  BY <1>1, <1>2

\* One sequence more comes behind what there was.
LEMMA FlattenMore ==
  ASSUME NEW s, NEW t, Len(s) \in Nat, Len(t) = Len(s) + 1,
         \A i \in 1..Len(s) : s[i] = t[i]
  PROVE  Flatten(t) = Flatten(s) \o t[Len(s) + 1]
<1> DEFINE n == Len(s)
<1>1. n \in Nat /\ n + 1 \in Nat /\ n <= n /\ n <= n + 1 /\ Len(t) = n + 1
  OBVIOUS
<1>2. \A i \in 1..n : s[i] = t[i]
  OBVIOUS
<1>3. \E f : IsFlat(f, s, n) /\ Flatten(s) = f[n]
  BY FlattenIsFlat
<1>4. \E g : IsFlat(g, t, n + 1) /\ Flatten(t) = g[n + 1]
  BY <1>1, FlattenIsFlat
<1> HIDE DEF n
<1>5. PICK f : IsFlat(f, s, n) /\ Flatten(s) = f[n]
  BY <1>3
<1>6. PICK g : IsFlat(g, t, n + 1) /\ Flatten(t) = g[n + 1]
  BY <1>4
<1>7. f[n] = g[n]
  BY <1>1, <1>2, <1>5, <1>6, FlatUnique, SMTT(30)
<1>8. g[n + 1] = g[n] \o t[n + 1]
  <2>1. n + 1 \in 0..(n + 1) /\ n + 1 # 0 /\ (n + 1) - 1 = n
    BY <1>1, SMTT(30)
  <2>2. g[n + 1] = IF n + 1 = 0 THEN << >> ELSE g[(n + 1) - 1] \o t[n + 1]
    BY <1>6, <2>1 DEF IsFlat
  <2> QED
    BY <2>1, <2>2
<1> QED
  BY <1>5, <1>6, <1>7, <1>8 DEF n

\* Only the sequences matter.
LEMMA FlattenSame ==
  ASSUME NEW s, NEW t, Len(s) \in Nat, Len(t) = Len(s), \A i \in 1..Len(s) : s[i] = t[i]
  PROVE  Flatten(t) = Flatten(s)
<1> DEFINE n == Len(s)
<1>1. n \in Nat /\ n <= n /\ \A i \in 1..n : s[i] = t[i]
  OBVIOUS
<1>2. \E f : IsFlat(f, s, n) /\ Flatten(s) = f[n]
  BY FlattenIsFlat
<1>3. \E g : IsFlat(g, t, n) /\ Flatten(t) = g[n]
  BY FlattenIsFlat
<1> HIDE DEF n
<1>4. PICK f : IsFlat(f, s, n) /\ Flatten(s) = f[n]
  BY <1>2
<1>5. PICK g : IsFlat(g, t, n) /\ Flatten(t) = g[n]
  BY <1>3
<1>6. f[n] = g[n]
  BY <1>1, <1>4, <1>5, FlatUnique
<1> QED
  BY <1>4, <1>5, <1>6

\* Flatten of nothing is nothing.
LEMMA FlattenEmpty ==
  ASSUME NEW s, Len(s) = 0
  PROVE  Flatten(s) = << >>
<1>1. PICK f : IsFlat(f, s, 0) /\ Flatten(s) = f[0]
  BY FlattenIsFlat
<1> QED
  BY <1>1 DEF IsFlat

LEMMA FlattenType ==
  ASSUME NEW D, NEW s \in Seq(Seq(D))
  PROVE  Flatten(s) \in Seq(D)
<1>1. Len(s) \in Nat /\ Len(s) \in 0..Len(s)
  OBVIOUS
<1>2. PICK f : IsFlat(f, s, Len(s)) /\ Flatten(s) = f[Len(s)]
  BY <1>1, FlattenIsFlat
<1> QED
  BY <1>1, <1>2, FlatType

-----------------------------------------------------------------------------
(* Which documents have been parsed, and where they are *)

\* The documents parsed are told by fileNo and docNo alike when a file ends.
LEMMA ParsedFile ==
  ASSUME corpus \in Corpora, NEW f \in 1..Len(corpus)
  PROVE  ParsedTo(corpus, f, 0) = ParsedTo(corpus, f - 1, Len(corpus[f]))
<1>1. /\ corpus \in Seq(Seq(Documents)) /\ Len(corpus) \in Nat
      /\ corpus[f] \in Seq(Documents) /\ Len(corpus[f]) \in Nat
  BY CorpusFacts
<1>2. SubSeq(corpus[f], 1, Len(corpus[f])) = corpus[f]
  BY <1>1, SubSeqFull
<1> DEFINE s == SubSeq(corpus, 1, f - 1)
           t == SubSeq(corpus, 1, f)
<1>3. /\ s \in Seq(Seq(Documents)) /\ Len(s) = f - 1
      /\ t \in Seq(Seq(Documents)) /\ Len(t) = f
      /\ \A i \in 1..(f - 1) : s[i] = t[i]
      /\ t[f] = corpus[f]
  BY <1>1
<1> HIDE DEF s, t
<1>4. Flatten(t) = Flatten(s) \o corpus[f]
  <2>1. Len(s) \in Nat /\ Len(t) = Len(s) + 1 /\ Len(s) + 1 = f
    BY <1>1, <1>3
  <2>2. \A i \in 1..Len(s) : s[i] = t[i]
    BY <1>3
  <2>3. Flatten(t) = Flatten(s) \o t[Len(s) + 1]
    BY <2>1, <2>2, FlattenMore
  <2> QED
    BY <1>3, <2>1, <2>3
<1>5. Flatten(t) \in Seq(Documents)
  BY <1>3, FlattenType
<1>6. ParsedTo(corpus, f, 0) = Flatten(t)
  <2>1. ParsedTo(corpus, f, 0) = Flatten(t) \o << >>
    <3>1. SubSeq(corpus[f + 1], 1, 0) = << >>
      BY SubSeqEmpty
    <3> QED
      BY <3>1 DEF ParsedTo, t
  <2> QED
    BY <1>5, <2>1, ConcatEmptySeq
<1>7. ParsedTo(corpus, f - 1, Len(corpus[f])) = Flatten(s) \o corpus[f]
  <2>1. (f - 1) + 1 = f /\ f - 1 < Len(corpus)
    BY <1>1
  <2> QED
    BY <1>2, <2>1 DEF ParsedTo, s
<1> QED
  BY <1>4, <1>6, <1>7

\* One document more is parsed.
LEMMA ParsedDoc ==
  ASSUME corpus \in Corpora, NEW f \in 1..Len(corpus), NEW d \in 1..Len(corpus[f])
  PROVE  /\ ParsedTo(corpus, f - 1, d - 1) \in Seq(Documents)
         /\ ParsedTo(corpus, f - 1, d) = ParsedTo(corpus, f - 1, d - 1) \o <<corpus[f][d]>>
<1>1. /\ corpus \in Seq(Seq(Documents)) /\ Len(corpus) \in Nat
      /\ corpus[f] \in Seq(Documents) /\ corpus[f][d] \in Documents
  BY CorpusFacts
<1> DEFINE s == SubSeq(corpus, 1, f - 1)
           a == SubSeq(corpus[f], 1, d - 1)
           b == SubSeq(corpus[f], 1, d)
<1>2. s \in Seq(Seq(Documents)) /\ a \in Seq(Documents)
  BY <1>1
<1>3. b = a \o <<corpus[f][d]>>
  <2>1. Len(corpus[f]) \in Nat /\ 1 \in 1..Len(corpus[f]) /\ d \in 1..Len(corpus[f])
    BY <1>1
  <2> QED
    BY <1>1, <2>1, SubSeqRecursiveSecond
<1>4. (f - 1) + 1 = f /\ f - 1 < Len(corpus)
  BY <1>1
<1>5. /\ ParsedTo(corpus, f - 1, d - 1) = Flatten(s) \o a
      /\ ParsedTo(corpus, f - 1, d) = Flatten(s) \o b
  BY <1>4 DEF ParsedTo
<1> HIDE DEF s, a, b
<1>6. Flatten(s) \in Seq(Documents) /\ <<corpus[f][d]>> \in Seq(Documents)
  BY <1>1, <1>2, FlattenType
<1>7. (Flatten(s) \o a) \o <<corpus[f][d]>> = Flatten(s) \o (a \o <<corpus[f][d]>>)
  <2> DEFINE one == <<corpus[f][d]>>
             flat == Flatten(s)
  <2>1. one \in Seq(Documents) /\ flat \in Seq(Documents)
    BY <1>6
  <2> HIDE DEF one, flat
  <2>2. (flat \o a) \o one = flat \o (a \o one)
    BY <1>2, <2>1, ConcatAssociative, SMTT(30)
  <2> QED
    BY <2>2 DEF one, flat
<1>8. Flatten(s) \o a \in Seq(Documents)
  BY <1>2, <1>6, ConcatProperties
<1> QED
  BY <1>3, <1>5, <1>7, <1>8

LEMMA WrittenType ==
  ASSUME TypeOK, NEW n \in 0..MaxChunks
  PROVE  /\ Written(disk, n) \in Seq(Seq(Documents)) /\ Len(Written(disk, n)) = n
         /\ \A c \in 1..n : Written(disk, n)[c] = disk[c - 1].docs
         /\ Flatten(Written(disk, n)) \in Seq(Documents)
<1>1. \A c \in 1..n : disk[c - 1].docs \in Seq(Documents)
  <2> SUFFICES ASSUME NEW c \in 1..n PROVE disk[c - 1].docs \in Seq(Documents)
    OBVIOUS
  <2>1. c - 1 \in ChunkNos
    BY LimitsAssumption DEF ChunkNos
  <2> QED
    BY <2>1 DEF TypeOK
<1>2. /\ Written(disk, n) \in Seq(Seq(Documents)) /\ Len(Written(disk, n)) = n
      /\ \A c \in 1..n : Written(disk, n)[c] = disk[c - 1].docs
  BY <1>1, LimitsAssumption DEF Written
<1>3. Flatten(Written(disk, n)) \in Seq(Documents)
  BY <1>2, FlattenType
<1> QED
  BY <1>2, <1>3

\* A step that leaves the finished files and the documents in memory alone
\* leaves the documents they hold.
LEMMA WrittenSame ==
  ASSUME TypeOK, NEW n \in 0..MaxChunks,
         TypeOK', \A c \in 0..(n - 1) : disk'[c].docs = disk[c].docs
  PROVE  Flatten(Written(disk', n)) = Flatten(Written(disk, n))
<1> DEFINE s == Written(disk, n)
           t == Written(disk', n)
<1>1. Len(s) = n /\ \A c \in 1..n : s[c] = disk[c - 1].docs
  BY WrittenType
<1>2. Len(t) = n /\ \A c \in 1..n : t[c] = disk'[c - 1].docs
  BY LimitsAssumption DEF Written
<1>3. n \in Nat /\ \A c \in 1..n : disk'[c - 1].docs = disk[c - 1].docs
  BY LimitsAssumption
<1> HIDE DEF s, t
<1>4. Len(s) \in Nat /\ Len(t) = Len(s) /\ \A c \in 1..Len(s) : s[c] = t[c]
  BY <1>1, <1>2, <1>3
<1>5. Flatten(t) = Flatten(s)
  BY <1>4, FlattenSame
<1> QED
  BY <1>5 DEF s, t

\* Every document that has been parsed is in one finished file or in memory,
\* in order, unless a write failed.
LEMMA ParsedStep ==
  ASSUME TypeInv, EndsInv, ParsedInv, [Next]_vars
  PROVE  ParsedInv'
<1>1. /\ TypeOK /\ TypeOK' /\ MaxChunks \in Nat /\ DOMAIN disk = ChunkNos
      /\ docs \in Seq(Documents) /\ corpus \in Corpora
  BY TypeStep, LimitsAssumption DEF TypeInv, TypeOK
<1>2. Finished \in 0..MaxChunks
  BY LimitsAssumption DEF TypeInv, TypeOK, Finished, Writing
<1>3. failed = {} =>
        Flatten(Written(disk, Finished)) \o docs = ParsedTo(corpus, fileNo - 1, docNo - 1)
  BY DEF ParsedInv
<1>4. ASSUME UNCHANGED <<docs, readVars, failed>>, Finished' = Finished,
             pc' = "done" => pc = "done",
             \A c \in 0..(Finished - 1) : disk'[c].docs = disk[c].docs
      PROVE  ParsedInv'
  <2> DEFINE n == Finished
  <2>1. n \in 0..MaxChunks
    BY <1>2
  <2> HIDE DEF n
  <2>2. Flatten(Written(disk', n)) = Flatten(Written(disk, n))
    BY <1>1, <1>4, <2>1, WrittenSame DEF n
  <2>3. Flatten(Written(disk', Finished')) = Flatten(Written(disk, Finished))
    BY <1>4, <2>2 DEF n
  <2> QED
    BY <1>3, <1>4, <2>3 DEF ParsedInv, readVars
<1>5. CASE NextFile
  <2>1. /\ docNo = Len(corpus[fileNo]) + 1 /\ fileNo \in 1..Len(corpus)
        /\ fileNo' = fileNo + 1 /\ docNo' = 1 /\ pc' = "parse" /\ Finished' = Finished
        /\ UNCHANGED <<corpus, docs, disk, failed>>
    <3>1. fileNo \in 1..Len(corpus) /\ Len(corpus[fileNo]) \in Nat
      BY <1>5, CorpusFacts DEF NextFile, TypeInv, TypeOK
    <3>2. docNo = Len(corpus[fileNo]) + 1
      <4>1. docNo \in Nat /\ docNo > Len(corpus[fileNo]) /\ docNo <= Len(corpus[fileNo]) + 1
        BY <1>5, <3>1 DEF NextFile, TypeInv, TypeOK, ParsedInv
      <4> QED
        BY <3>1, <4>1
    <3> QED
      BY <1>5, <3>1, <3>2 DEF NextFile, Finished, Writing, indexVars
  <2>2. ParsedTo(corpus, fileNo, 0) = ParsedTo(corpus, fileNo - 1, docNo - 1)
    <3>1. docNo - 1 = Len(corpus[fileNo])
      BY <2>1, CorpusFacts, <1>1, <1>2 DEF TypeOK
    <3> QED
      BY <2>1, <3>1, <1>1, <1>2, ParsedFile DEF TypeOK
  <2>3. ParsedTo(corpus', fileNo' - 1, docNo' - 1) = ParsedTo(corpus, fileNo, 0)
    <3>1. fileNo' - 1 = fileNo /\ docNo' - 1 = 0
      BY <2>1
    <3> QED
      BY <2>1, <3>1
  <2>4. fileNo' <= Len(corpus) => docNo' <= Len(corpus[fileNo']) + 1
    <3>1. fileNo' \in Nat \ {0} /\ Len(corpus) \in Nat
      BY <1>1, <2>1, CorpusFacts
    <3>2. fileNo' <= Len(corpus) => Len(corpus[fileNo']) \in Nat
      BY <1>1, <3>1, CorpusFacts
    <3> QED
      BY <2>1, <3>2
  <2>5. Written(disk', Finished') = Written(disk, Finished)
    BY <2>1
  <2> QED
    BY <1>3, <2>1, <2>2, <2>3, <2>4, <2>5 DEF ParsedInv
<1>6. CASE StartDoc
  <2> DEFINE doc == corpus[fileNo][docNo]
             flat == Flatten(Written(disk, Finished))
  <2>1. /\ fileNo \in 1..Len(corpus) /\ docNo \in 1..Len(corpus[fileNo])
        /\ docNo' = docNo + 1 /\ pc' = "words" /\ Finished' = Finished
        /\ docs' = Append(docs, doc) /\ doc \in Documents
        /\ UNCHANGED <<corpus, fileNo, disk, failed>>
    <3>1. fileNo \in 1..Len(corpus) /\ Len(corpus[fileNo]) \in Nat
      BY <1>6, CorpusFacts DEF StartDoc, TypeInv, TypeOK
    <3>2. docNo \in 1..Len(corpus[fileNo])
      BY <1>6, <3>1 DEF StartDoc, TypeInv, TypeOK
    <3>3. doc \in Documents
      BY <3>1, <3>2, CorpusFacts, <1>1, <1>2 DEF TypeOK
    <3> QED
      BY <1>6, <3>1, <3>2, <3>3 DEF StartDoc, Finished, Writing
  <2> HIDE DEF doc
  <2>2. docs' = docs \o <<doc>> /\ <<doc>> \in Seq(Documents)
    BY <1>1, <1>2, <2>1, AppendIsConcat
  <2>3. flat \in Seq(Documents)
    BY <1>1, <1>2, WrittenType
  <2>4. ParsedTo(corpus, fileNo - 1, docNo) = ParsedTo(corpus, fileNo - 1, docNo - 1) \o <<doc>>
    BY <2>1, <1>1, <1>2, ParsedDoc DEF TypeOK, doc
  <2>5. failed = {} => flat \o docs' = ParsedTo(corpus, fileNo - 1, docNo)
    <3>1. (flat \o docs) \o <<doc>> = flat \o (docs \o <<doc>>)
      BY <1>1, <1>2, <2>2, <2>3, ConcatAssociative
    <3> QED
      BY <1>3, <2>2, <2>4, <3>1
  <2>6. Written(disk', Finished') = Written(disk, Finished)
    BY <2>1
  <2>7. ParsedTo(corpus', fileNo' - 1, docNo' - 1) = ParsedTo(corpus, fileNo - 1, docNo)
    <3>1. docNo' - 1 = docNo /\ fileNo' = fileNo
      BY <2>1
    <3> QED
      BY <2>1, <3>1
  <2>8. fileNo' <= Len(corpus') => docNo' <= Len(corpus'[fileNo']) + 1
    BY <2>1
  <2> QED
    BY <2>1, <2>5, <2>6, <2>7, <2>8 DEF ParsedInv
<1>7. CASE AddWord \/ AddAnchor \/ FinishDoc \/ FinishFiles
  BY <1>7, <1>4 DEF AddWord, AddAnchor, AddAnchorOf, FinishDoc, FinishDocIf, FinishFiles,
                     Finished, Writing, readVars, indexVars
<1>8. CASE SkipChunk
  <2>1. docs = << >> /\ docs' = << >>
    <3>1. numDocs = 0 /\ docs' = << >>
      BY <1>8 DEF SkipChunk, NothingToWrite, NewIndex
    <3>2. Len(docs) = 0
      BY <3>1 DEF EndsInv
    <3> QED
      BY <1>1, <3>1, <3>2
  <2>2. /\ UNCHANGED <<readVars, failed, disk>> /\ Finished' = Finished
        /\ pc' = "done" => fileNo > Len(corpus)
    BY <1>8 DEF SkipChunk, Return, Finished, Writing
  <2>3. Flatten(Written(disk', Finished')) = Flatten(Written(disk, Finished))
    BY <2>2
  <2> QED
    BY <1>3, <2>1, <2>2, <2>3 DEF ParsedInv, readVars
<1>9. CASE OpenChunk
  <2>1. /\ UNCHANGED <<docs, readVars, failed>> /\ Finished' = Finished /\ pc' # "done"
        /\ Finished = currentChunk
    BY <1>1, <1>2, <1>9 DEF OpenChunk, Finished, Writing, indexVars, TypeOK
  <2>2. \A c \in 0..(Finished - 1) : disk'[c].docs = disk[c].docs
    BY <1>1, <1>2, <1>9, <2>1 DEF OpenChunk, ChunkNos
  <2> QED
    BY <1>4, <2>1, <2>2
<1>10. CASE Stretch \/ WriteHeader
  <2>1. /\ UNCHANGED <<docs, readVars, failed>> /\ Finished' = Finished /\ pc' # "done"
        /\ Finished = currentChunk - 1
    BY <1>10 DEF Stretch, WriteHeader, Finished, Writing, indexVars
  <2>2. \A c \in 0..(Finished - 1) : disk'[c].docs = disk[c].docs
    BY <1>1, <1>2, <1>10, <2>1 DEF Stretch, WriteHeader, ChunkNos
  <2> QED
    BY <1>4, <2>1, <2>2
<1>11. CASE StretchFails
  <2>1. failed' # {} /\ docs' = << >> /\ UNCHANGED readVars
        /\ (pc' = "done" => fileNo > Len(corpus))
    BY <1>11 DEF StretchFails, NewIndex, Return
  <2> QED
    BY <2>1 DEF ParsedInv, readVars
<1>12. CASE WriteBody
  <2> DEFINE n == currentChunk - 1
             s == Written(disk, n)
             t == Written(disk', currentChunk)
  <2>1. /\ UNCHANGED <<readVars, failed, currentChunk>>
        /\ docs' = << >> /\ (pc' = "done" => fileNo > Len(corpus))
        /\ Finished = n /\ Finished' = currentChunk
        /\ disk' = [disk EXCEPT ![n] = Complete]
    BY <1>12 DEF WriteBody, NewIndex, Return, Finished, Writing
  <2>2. /\ n \in ChunkNos /\ n \in 0..MaxChunks /\ n + 1 = currentChunk
        /\ currentChunk \in 1..MaxChunks
    <3>1. currentChunk \in 0..MaxChunks /\ currentChunk > 0
      BY <1>12 DEF WriteBody, TypeInv, TypeOK, Writing
    <3> QED
      BY <1>1, <3>1 DEF ChunkNos
  <2>3. /\ disk'[n].docs = docs
        /\ \A c \in 0..(n - 1) : disk'[c] = disk[c]
    BY <1>1, <1>2, <2>1, <2>2 DEF Complete, ChunkNos
  <2>4. s \in Seq(Seq(Documents)) /\ Len(s) = n /\ \A c \in 1..n : s[c] = disk[c - 1].docs
    BY <1>1, <1>2, <2>2, WrittenType
  <2>5. /\ Len(t) = n + 1 /\ t[n + 1] = docs
        /\ \A c \in 1..n : t[c] = disk[c - 1].docs
    <3>1. Len(t) = currentChunk /\ \A c \in 1..currentChunk : t[c] = disk'[c - 1].docs
      BY <2>1, <2>2 DEF Written
    <3> QED
      BY <2>2, <2>3, <3>1
  <2>6. n \in Nat
    BY <2>2
  <2> HIDE DEF s, t, n
  <2>7. Flatten(t) = Flatten(s) \o docs
    <3>1. Len(s) \in Nat /\ Len(t) = Len(s) + 1 /\ \A c \in 1..Len(s) : s[c] = t[c]
      BY <2>4, <2>5, <2>6
    <3>2. Flatten(t) = Flatten(s) \o t[Len(s) + 1]
      BY <3>1, FlattenMore
    <3> QED
      BY <2>4, <2>5, <3>2
  <2>8. Flatten(t) \in Seq(Documents)
    <3>1. Flatten(s) \in Seq(Documents)
      BY <2>4, FlattenType
    <3> QED
      BY <1>1, <1>2, <2>7, <3>1, ConcatProperties
  <2>9. Flatten(t) \o docs' = Flatten(s) \o docs
    BY <2>1, <2>7, <2>8, ConcatEmptySeq
  <2>10. failed = {} => Flatten(s) \o docs = ParsedTo(corpus, fileNo - 1, docNo - 1)
    BY <1>3, <2>1 DEF s
  <2>11. t = Written(disk', Finished')
    BY <2>1 DEF t
  <2> QED
    BY <2>1, <2>9, <2>10, <2>11 DEF ParsedInv, readVars
<1>13. CASE Restart
  <2>1. /\ fileNo' = 1 /\ docNo' = 1 /\ docs' = << >> /\ Finished' = 0 /\ pc' # "done"
        /\ corpus' = corpus
    BY <1>13 DEF Restart, NewIndex, FirstChunk, Finished, Writing
  <2>2. Flatten(Written(disk', 0)) = << >>
    <3>1. Len(Written(disk', 0)) = 0
      BY DEF Written
    <3> QED
      BY <3>1, FlattenEmpty
  <2>3. ParsedTo(corpus, 0, 0) = << >>
    <3>1. SubSeq(corpus, 1, 0) = << >> /\ SubSeq(corpus[0 + 1], 1, 0) = << >>
      BY SubSeqEmpty
    <3>2. Flatten(<< >>) = << >>
      BY FlattenEmpty
    <3>3. ParsedTo(corpus, 0, 0) = << >> \o << >>
      BY <3>1, <3>2 DEF ParsedTo
    <3> QED
      BY <3>3
  <2>4. fileNo' <= Len(corpus') => docNo' <= Len(corpus'[fileNo']) + 1
    <3>1. Len(corpus) \in Nat /\ (1 <= Len(corpus) => Len(corpus[1]) \in Nat)
      BY <1>1, CorpusFacts
    <3> QED
      BY <2>1, <3>1
  <2>5. << >> \o << >> = << >>
    OBVIOUS
  <2>6. ParsedTo(corpus', 0, 0) = << >>
    BY <2>1, <2>3
  <2>7. Flatten(Written(disk', Finished')) \o docs'
          = ParsedTo(corpus', fileNo' - 1, docNo' - 1)
    <3>1. fileNo' - 1 = 0 /\ docNo' - 1 = 0
      BY <2>1
    <3> QED
      BY <2>1, <2>2, <2>5, <2>6, <3>1
  <2> QED
    BY <2>1, <2>4, <2>7 DEF ParsedInv
<1>14. CASE UNCHANGED vars
  BY <1>14, <1>4 DEF vars, Finished, Writing, indexVars, readVars
<1> QED
  BY <1>5, <1>6, <1>7, <1>8, <1>9, <1>10, <1>11, <1>12, <1>13, <1>14 DEF Next

-----------------------------------------------------------------------------
(* What holds in every reachable state *)

IndexInv ==
  /\ TypeInv /\ EndsInv /\ WordsInv /\ AnchorsInv /\ LimitsInv
  /\ FilesInv /\ AcceptedPartials /\ CompleteInv /\ ParsedInv

LEMMA IndexInit == Init => IndexInv
<1> SUFFICES ASSUME Init PROVE IndexInv
  OBVIOUS
<1>1. TypeInv
  BY TypeInit
<1>2. lists[End] = << >> /\ \A k \in Keys : lists[k] = << >>
  BY KeysApart DEF Init
<1>3. EndsInv
  BY <1>2 DEF Init, EndsInv, EndsTile, Increasing, UrlsOf
<1>4. WordsInv
  BY <1>2, KeysApart DEF Init, WordsInv, PostsIn, Increasing
<1>5. AnchorsInv
  BY <1>2, KeysApart DEF Init, AnchorsInv, AnchorsIn
<1>6. LimitsInv
  BY LimitsAssumption DEF Init, LimitsInv
<1>7. FilesInv
  BY DEF Init, FilesInv, Writing
<1>8. \A c \in ChunkNos : disk[c].state = "absent"
  BY DEF Init, File
<1>9. AcceptedPartials
  <2>1. {c \in ChunkNos : disk[c].state = "header"} = {}
    BY <1>8
  <2>2. Cardinality({c \in ChunkNos : disk[c].state = "header"}) = 0
    BY <2>1, FS_EmptySet
  <2> QED
    BY <2>2 DEF Init, AcceptedPartials
<1>10. CompleteInv
  BY <1>8 DEF CompleteInv
<1>11. ParsedInv
  <2>1. fileNo = 1 /\ docNo = 1 /\ docs = << >> /\ pc = "parse" /\ currentChunk = 0
    BY DEF Init
  <2>2. Len(corpus) \in Nat /\ (1 <= Len(corpus) => Len(corpus[1]) \in Nat)
    BY <1>1, CorpusFacts DEF TypeInv, TypeOK
  <2>3. Flatten(Written(disk, 0)) = << >>
    <3>1. Len(Written(disk, 0)) = 0
      BY DEF Written
    <3> QED
      BY <3>1, FlattenEmpty
  <2>4. ParsedTo(corpus, 0, 0) = << >>
    <3>1. SubSeq(corpus, 1, 0) = << >> /\ SubSeq(corpus[0 + 1], 1, 0) = << >>
      BY SubSeqEmpty
    <3>2. Flatten(<< >>) = << >>
      BY FlattenEmpty
    <3>3. ParsedTo(corpus, 0, 0) = << >> \o << >>
      BY <3>1, <3>2 DEF ParsedTo
    <3> QED
      BY <3>3
  <2>5. Finished = 0 /\ fileNo - 1 = 0 /\ docNo - 1 = 0
    BY <2>1 DEF Finished, Writing
  <2>6. << >> \o << >> = << >>
    OBVIOUS
  <2> QED
    BY <2>1, <2>2, <2>3, <2>4, <2>5, <2>6 DEF ParsedInv
<1> QED
  BY <1>1, <1>3, <1>4, <1>5, <1>6, <1>7, <1>9, <1>10, <1>11 DEF IndexInv

\* Everything the builder keeps about the index and its files stays true.
THEOREM IndexInvariant == Spec => []IndexInv
<1>1. IndexInv /\ [Next]_vars => IndexInv'
  BY TypeStep, EndsStep, WordsStep, AnchorsStep, LimitsStep, FilesStep, PartialsStep,
     CompleteStep, ParsedStep
     DEF IndexInv
<1> QED
  BY <1>1, IndexInit, PTL DEF Spec

\* addDoc appends the posts of a word and of the document ends in the order of
\* their locations, so the deltas between them are positive.
THEOREM ListsAlwaysIncrease == Spec => []ListsIncrease
<1>1. IndexInv => ListsIncrease
  BY DEF IndexInv, ListsIncrease, WordsInv, EndsInv, EndsTile
<1> QED
  BY <1>1, IndexInvariant, PTL

\* A location found in a list, of the index between two documents or of a
\* finished chunk file, leads back to its document and its token.
THEOREM LocationsAreExact == Spec => []LocationsExact
<1>1. IndexInv => LocationsExact
  BY IndexAgrees DEF IndexInv, LocationsExact, CompleteInv
<1> QED
  BY <1>1, IndexInvariant, PTL

\* The post of an anchor text names the document the text was met in.
THEOREM AnchorsAreExact == Spec => []AnchorsExact
<1>1. IndexInv => AnchorsExact
  BY AnchorsAgree DEF IndexInv, AnchorsExact
<1> QED
  BY <1>1, IndexInvariant, PTL

\* A chunk grows over the limits of Builder by its last document only.
THEOREM ChunksAreBounded == Spec => []ChunkBounded
<1>1. IndexInv => ChunkBounded
  BY DEF IndexInv, LimitsInv, ChunkBounded
<1> QED
  BY <1>1, IndexInvariant, PTL

\* When Builder returns, every chunk file of the run is complete, or was
\* truncated and its write has failed.
THEOREM DoneRunsAreComplete == Spec => []DoneIsComplete
<1>1. IndexInv => DoneIsComplete
  BY DEF IndexInv, FilesInv, DoneIsComplete, Writing
<1> QED
  BY <1>1, IndexInvariant, PTL

\* There are no more files with a header and no lists than runs that ended
\* early, and the one being written.
THEOREM FewPartialsAccepted == Spec => []AcceptedPartials
<1>1. IndexInv => AcceptedPartials
  BY DEF IndexInv
<1> QED
  BY <1>1, IndexInvariant, PTL

\* When Builder returns and no write has failed, the chunks of the run hold
\* every document of every file once and in order.
THEOREM EveryDocumentIsIndexed == Spec => []EveryDocumentIndexed
<1>1. ASSUME IndexInv PROVE EveryDocumentIndexed
  <2> SUFFICES ASSUME pc = "done", failed = {}
               PROVE  /\ Flatten([c \in 1..currentChunk |-> disk[c - 1].docs]) = Flatten(corpus)
                      /\ \A c \in 0..(currentChunk - 1) : disk[c].urls = UrlsOf(disk[c].docs)
    BY DEF EveryDocumentIndexed
  <2>1. /\ TypeOK /\ Len(corpus) \in Nat /\ corpus \in Seq(Seq(Documents))
        /\ fileNo = Len(corpus) + 1 /\ docs = << >> /\ Finished = currentChunk
        /\ currentChunk \in 0..MaxChunks /\ MaxChunks \in Nat
    <3>1. TypeOK
      BY <1>1 DEF IndexInv, TypeInv
    <3>2. corpus \in Seq(Seq(Documents)) /\ Len(corpus) \in Nat
      BY <3>1, CorpusFacts DEF TypeOK
    <3>3. fileNo > Len(corpus) /\ docs = << >> /\ fileNo \in 1..(Len(corpus) + 1)
      BY <1>1, <3>1 DEF IndexInv, ParsedInv, TypeOK
    <3>4. Finished = currentChunk
      BY DEF Finished, Writing
    <3>5. currentChunk \in 0..MaxChunks /\ MaxChunks \in Nat
      BY <3>1, LimitsAssumption DEF TypeOK
    <3>6. fileNo = Len(corpus) + 1
      BY <3>2, <3>3
    <3> QED
      BY <3>1, <3>2, <3>3, <3>4, <3>5, <3>6
  <2>2. ParsedTo(corpus, fileNo - 1, docNo - 1) = Flatten(corpus)
    <3>1. fileNo - 1 = Len(corpus) /\ ~(fileNo - 1 < Len(corpus))
      BY <2>1
    <3>2. SubSeq(corpus, 1, Len(corpus)) = corpus
      BY <2>1, SubSeqFull
    <3>3. Flatten(corpus) \o << >> = Flatten(corpus)
      BY <2>1, FlattenType, ConcatEmptySeq
    <3> QED
      BY <3>1, <3>2, <3>3 DEF ParsedTo
  <2>3. Flatten(Written(disk, currentChunk)) \o docs = Flatten(corpus)
    BY <1>1, <2>1, <2>2 DEF IndexInv, ParsedInv
  <2>4. Flatten(Written(disk, currentChunk)) \in Seq(Documents)
    BY <2>1, WrittenType
  <2>5. Flatten(Written(disk, currentChunk)) = Flatten(corpus)
    BY <2>1, <2>3, <2>4, ConcatEmptySeq
  <2>6. ASSUME NEW c \in 0..(currentChunk - 1) PROVE disk[c].urls = UrlsOf(disk[c].docs)
    <3>1. c \in ChunkNos
      BY <2>1 DEF ChunkNos
    <3>2. disk[c].state = "complete"
      BY <1>1 DEF IndexInv, FilesInv, Writing
    <3> QED
      BY <1>1, <3>1, <3>2 DEF IndexInv, CompleteInv
  <2> QED
    BY <2>5, <2>6 DEF Written
<1> QED
  BY <1>1, IndexInvariant, PTL
=============================================================================
