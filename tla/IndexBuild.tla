----------------------------- MODULE IndexBuild -----------------------------
(***************************************************************************)
(* Building the index chunks (src/src/Builder.cpp, IndexFileParser.h,      *)
(* src/src/IndexHT.cpp, and the writing constructor of IndexFile in        *)
(* Index.h).                                                               *)
(*                                                                         *)
(* Builder parses the processed files one after the other.  Each document  *)
(* is added to the IndexHT in memory: its tokens get the next free         *)
(* locations of the chunk and the location behind them is the end of the   *)
(* document.  When the index has grown over a limit it is written to the   *)
(* file apechunk<n> and a new one is begun.  The file is truncated, its    *)
(* header is written, and then its lists; the process may end in between   *)
(* and be started again, from the first file and apechunk0.                *)
(***************************************************************************)
EXTENDS Integers, Sequences, FiniteSets

CONSTANTS
  Corpora,            \* what the crawler may have left: for each file its documents
  Urls, Words, AnchorTexts,
  MAX_LOCATION, MAX_UNIQUE_WORDS,
  MaxChunks,          \* bound: chunk files
  MaxRuns             \* bound: runs of the builder

\* A document: the tokens in the title are marked; anchors are the texts of
\* links to it and how often each was met.
Anchor == [text : AnchorTexts, freq : Nat]
Documents == [url : Urls, words : Seq([word : Words, title : BOOLEAN]),
              anchors : Seq(Anchor)]

ASSUME CorporaAssumption == Corpora \subseteq Seq(Seq(Documents))
ASSUME LimitsAssumption ==
  MAX_LOCATION \in Nat /\ MAX_UNIQUE_WORDS \in Nat /\ MaxChunks \in Nat /\ MaxRuns \in Nat

\* The keys of the dictionary: a word, "$" and a word of the title, "#" and an
\* anchor text, and "%" for the document ends.  No token has one of the
\* three signs in it.
Body(w)   == <<"", w>>
Title(w)  == <<"$", w>>
AnchorKey(t) == <<"#", t>>
End       == <<"%">>
WordKeys  == {Body(w) : w \in Words} \cup {Title(w) : w \in Words}
Keys      == WordKeys \cup {AnchorKey(t) : t \in AnchorTexts} \cup {End}

Post == [loc : Nat, tData : Nat]

VARIABLES
  corpus, fileNo, docNo,    \* the files, and the next document to parse
  pc,
  docs,                     \* history: the documents in the index
  urls, lists,              \* IndexHT: the urls, and the posts of every key
  MaximumLocation, numDocs, uniqueWords,
  lastDocIndex, indexLoc, anchor,    \* locals of addDoc
  currentChunk,
  disk,                     \* the chunk files
  failed,                   \* history: chunks of this run whose write failed
  runs

indexVars == <<docs, urls, lists, MaximumLocation, numDocs, uniqueWords>>
docVars   == <<lastDocIndex, indexLoc, anchor>>
readVars  == <<corpus, fileNo, docNo>>
vars == <<readVars, pc, indexVars, docVars, currentChunk, disk, failed, runs>>

ChunkNos == 0..(MaxChunks - 1)
File(state) ==
  [state |-> state, docs |-> << >>, urls |-> << >>, lists |-> [k \in Keys |-> << >>]]
LastOf(s) == s[Len(s)]

\* The document addDoc works on: docs holds it from its start.
Doc == LastOf(docs)

KeyOf(token) == IF token.title THEN Title(token.word) ELSE Body(token.word)

-----------------------------------------------------------------------------
Init ==
  /\ corpus \in Corpora
  /\ fileNo = 1 /\ docNo = 1
  /\ pc = "parse"
  /\ docs = << >>
  /\ urls = << >>
  /\ lists = [k \in Keys |-> << >>]
  /\ MaximumLocation = 0 /\ numDocs = 0 /\ uniqueWords = 0
  /\ lastDocIndex = 0 /\ indexLoc = 0 /\ anchor = 0
  /\ currentChunk = 0
  /\ disk = [c \in ChunkNos |-> File("absent")]
  /\ failed = {}
  /\ runs = 1

\* appendToList: the lists with one more post in the list of key k.
AppendPost(k, loc, tData) ==
  [lists EXCEPT ![k] = Append(@, [loc |-> loc, tData |-> tData])]

\* A new IndexHT, as the constructor leaves it.
NewIndex ==
  /\ docs' = << >>
  /\ urls' = << >>
  /\ lists' = [k \in Keys |-> << >>]
  /\ MaximumLocation' = 0 /\ numDocs' = 0 /\ uniqueWords' = 0

-----------------------------------------------------------------------------
(* Parsing: Builder, parseFile *)

NextFile ==
  /\ pc = "parse"
  /\ fileNo <= Len(corpus)
  /\ docNo > Len(corpus[fileNo])
  /\ fileNo' = fileNo + 1
  /\ docNo' = 1
  /\ UNCHANGED <<corpus, pc, indexVars, docVars, currentChunk, disk, failed, runs>>

\* Variant: the end of the last document is taken for free.
NextOnEnd == IF lists[End] = << >> THEN 0 ELSE LastOf(lists[End]).loc

NextFree == IF lists[End] = << >> THEN 0 ELSE LastOf(lists[End]).loc + 1

\* The start of addDoc: the url, and the post of the end of the document,
\* entries.size() locations behind the end of the last one.
StartDoc ==
  /\ pc = "parse"
  /\ fileNo <= Len(corpus)
  /\ docNo <= Len(corpus[fileNo])
  /\ LET doc == corpus[fileNo][docNo]
         end == NextFree + Len(doc.words)
     IN  /\ docs' = Append(docs, doc)
         /\ urls' = Append(urls, doc.url)
         /\ lastDocIndex' = NextFree
         /\ MaximumLocation' = end
         /\ lists' = AppendPost(End, end, Len(urls))
  /\ numDocs' = numDocs + 1
  /\ indexLoc' = 0
  /\ anchor' = 0
  /\ docNo' = docNo + 1
  /\ pc' = "words"
  /\ UNCHANGED <<corpus, fileNo, uniqueWords, currentChunk, disk, failed, runs>>

\* Variant: a post keeps the location of the token in its document.
Unshifted == indexLoc

Shifted == lastDocIndex + indexLoc

\* One token of the document.
AddWord ==
  /\ pc = "words"
  /\ indexLoc < Len(Doc.words)
  /\ LET k == KeyOf(Doc.words[indexLoc + 1])
     IN  /\ lists' = AppendPost(k, Shifted, 0)
         /\ uniqueWords' = IF lists[k] = << >> THEN uniqueWords + 1 ELSE uniqueWords
  /\ indexLoc' = indexLoc + 1
  /\ UNCHANGED <<readVars, pc, docs, urls, MaximumLocation, numDocs, lastDocIndex,
                 anchor, currentChunk, disk, failed, runs>>

\* One anchor text, with the index of the url it links to.
AddAnchorOf(urlIndex) ==
  /\ pc = "words"
  /\ indexLoc = Len(Doc.words)
  /\ anchor < Len(Doc.anchors)
  /\ LET a == Doc.anchors[anchor + 1]
     IN  lists' = AppendPost(AnchorKey(a.text), a.freq, urlIndex)
  /\ anchor' = anchor + 1
  /\ UNCHANGED <<readVars, pc, docs, urls, MaximumLocation, numDocs, uniqueWords,
                 lastDocIndex, indexLoc, currentChunk, disk, failed, runs>>

\* Variant: urls.size() - 1 before the url of the document is pushed.
AddAnchorBefore == AddAnchorOf(Len(urls) - 2)

\* The anchor texts of the document, after its tokens: in their posts the
\* place of the location holds the frequency.
AddAnchor == AddAnchorOf(Len(urls) - 1)

\* addDoc has returned with the index over its limits, or not.
FinishDocIf(full) ==
  /\ pc = "words"
  /\ indexLoc = Len(Doc.words)
  /\ anchor = Len(Doc.anchors)
  /\ pc' = IF full THEN "open" ELSE "parse"
  /\ UNCHANGED <<readVars, indexVars, docVars, currentChunk, disk, failed, runs>>

\* Variant: && between the limits.
FinishDocBoth ==
  FinishDocIf(MaximumLocation > MAX_LOCATION /\ uniqueWords > MAX_UNIQUE_WORDS)

FinishDoc ==
  FinishDocIf(MaximumLocation > MAX_LOCATION \/ uniqueWords > MAX_UNIQUE_WORDS)

\* Builder has parsed every file and builds the last index.
FinishFiles ==
  /\ pc = "parse"
  /\ fileNo > Len(corpus)
  /\ pc' = "open"
  /\ UNCHANGED <<readVars, indexVars, docVars, currentChunk, disk, failed, runs>>

-----------------------------------------------------------------------------
(* Writing a chunk: buildCurIndex, IndexFile(filename, index), Write *)

\* Where buildCurIndex returns to: parseFile, or the end of Builder.
Return == pc' = IF fileNo > Len(corpus) THEN "done" ELSE "parse"

\* Variant: one document is not worth a chunk.
NothingMuch == numDocs <= 1

NothingToWrite == numDocs = 0

\* An index without a document is not written.
SkipChunk ==
  /\ pc = "open"
  /\ NothingToWrite
  /\ NewIndex
  /\ Return
  /\ UNCHANGED <<readVars, docVars, currentChunk, disk, failed, runs>>

\* open with O_CREAT | O_TRUNC
OpenChunk ==
  /\ pc = "open"
  /\ ~NothingToWrite
  /\ currentChunk < MaxChunks
  /\ disk' = [disk EXCEPT ![currentChunk] = File("empty")]
  /\ currentChunk' = currentChunk + 1
  /\ pc' = "stretch"
  /\ UNCHANGED <<readVars, indexVars, docVars, failed, runs>>

\* lseek, write of the last byte, mmap: a file of zeros
Stretch ==
  /\ pc = "stretch"
  /\ disk' = [disk EXCEPT ![currentChunk - 1] = File("zeros")]
  /\ pc' = "header"
  /\ UNCHANGED <<readVars, indexVars, docVars, currentChunk, failed, runs>>

\* lseek or write returns -1: the constructor prints it and returns, and
\* buildCurIndex goes on as if the chunk were written.
StretchFails ==
  /\ pc = "stretch"
  /\ failed' = failed \cup {currentChunk - 1}
  /\ NewIndex
  /\ Return
  /\ UNCHANGED <<readVars, docVars, currentChunk, disk, runs>>

\* IndexBlob::Write sets MagicNumber and Version first: verifyIndexBlob
\* accepts the file from here on.
WriteHeader ==
  /\ pc = "header"
  /\ disk' = [disk EXCEPT ![currentChunk - 1] = File("header")]
  /\ pc' = "body"
  /\ UNCHANGED <<readVars, indexVars, docVars, currentChunk, failed, runs>>

\* Variant: the lists never reach the file.
HeaderOnly == File("header")

Complete == [state |-> "complete", docs |-> docs, urls |-> urls, lists |-> lists]

\* The rest of Write: the lists and the urls.  The IndexHT is replaced.
WriteBody ==
  /\ pc = "body"
  /\ disk' = [disk EXCEPT ![currentChunk - 1] = Complete]
  /\ NewIndex
  /\ Return
  /\ UNCHANGED <<readVars, docVars, currentChunk, failed, runs>>

\* Variant: a run goes on with the chunk number of the last.
LastChunk == currentChunk

FirstChunk == 0

\* The process has ended, anywhere, and the builder is run again over the same
\* files: what was in memory is lost, and numbering restarts at apechunk0.
Restart ==
  /\ runs < MaxRuns
  /\ runs' = runs + 1
  /\ fileNo' = 1 /\ docNo' = 1
  /\ pc' = "parse"
  /\ NewIndex
  /\ currentChunk' = FirstChunk
  /\ failed' = {}
  /\ UNCHANGED <<corpus, docVars, disk>>

-----------------------------------------------------------------------------
Next ==
  \/ NextFile \/ StartDoc \/ AddWord \/ AddAnchor \/ FinishDoc \/ FinishFiles
  \/ SkipChunk \/ OpenChunk \/ Stretch \/ StretchFails \/ WriteHeader \/ WriteBody
  \/ Restart

Spec == Init /\ [][Next]_vars

-----------------------------------------------------------------------------
(* What the chunks promise *)

FileStates == {"absent", "empty", "zeros", "header", "complete"}

\* Every variable holds a value of its type.
TypeOK ==
  /\ corpus \in Corpora
  /\ fileNo \in 1..(Len(corpus) + 1)
  /\ docNo \in Nat \ {0}
  /\ pc \in {"parse", "words", "open", "stretch", "header", "body", "done"}
  /\ docs \in Seq(Documents)
  /\ urls \in Seq(Urls)
  /\ lists \in [Keys -> Seq(Post)]
  /\ MaximumLocation \in Nat /\ numDocs \in Nat /\ uniqueWords \in Nat
  /\ lastDocIndex \in Nat /\ indexLoc \in Nat /\ anchor \in Nat
  /\ pc = "words" => docs # << >> /\ indexLoc <= Len(Doc.words) /\ anchor <= Len(Doc.anchors)
  /\ currentChunk \in 0..MaxChunks
  /\ disk \in [ChunkNos ->
       [state : FileStates, docs : Seq(Documents), urls : Seq(Urls),
        lists : [Keys -> Seq(Post)]]]
  /\ failed \subseteq ChunkNos
  /\ runs \in Nat

Increasing(list) ==
  \A j, k \in DOMAIN list : j < k => list[j].loc < list[k].loc

\* The locations in every list of words and of document ends strictly
\* increase, as the deltas, the sync table and Seek take for granted.
ListsIncrease ==
  \A k \in WordKeys \cup {End} : Increasing(lists[k])

\* The document of a chunk that location l falls in, by the ends alone (as
\* ISREndDoc::Seek finds it), and the key of the token there.
DocAt(ends, l) == CHOOSE d \in DOMAIN ends :
  l <= ends[d].loc /\ \A c \in 1..(d - 1) : ends[c].loc < l
StartOf(ends, d) == IF d = 1 THEN 0 ELSE ends[d - 1].loc + 1
KeyAt(ds, ends, l) ==
  LET d == DocAt(ends, l)
  IN  IF l = ends[d].loc THEN End
      ELSE KeyOf(ds[d].words[l - StartOf(ends, d) + 1])

\* ds and ls agree: every document has its end and url index, and a location
\* has a post in the list of a key exactly when the token there has that key.
Agree(ds, ls) ==
  /\ Len(ls[End]) = Len(ds)
  /\ \A d \in 1..Len(ds) : ls[End][d].tData = d - 1
  /\ ds # << >> =>
       \A k \in WordKeys \cup {End} :
         {ls[k][j].loc : j \in DOMAIN ls[k]} =
           {l \in 0..LastOf(ls[End]).loc : KeyAt(ds, ls[End], l) = k}

\* Between two documents and in every finished chunk file, a location found in
\* a list leads back through the document ends to the document and the token
\* it was made for, and no token is without its post.
LocationsExact ==
  /\ pc \in {"parse", "open"} => Agree(docs, lists)
  /\ \A c \in ChunkNos : disk[c].state = "complete" => Agree(disk[c].docs, disk[c].lists)

\* The same for anchors: a post names the page the text links to.
AnchorsExact ==
  pc = "parse" => \A t \in AnchorTexts :
    LET list == lists[AnchorKey(t)]
    IN  {<<list[j].tData + 1, list[j].loc>> : j \in DOMAIN list} =
          UNION {{<<d, docs[d].anchors[j].freq>> :
                    j \in {i \in DOMAIN docs[d].anchors : docs[d].anchors[i].text = t}} :
                 d \in DOMAIN docs}

\* The sequences in s one after the other: all documents of the files, in order.
Flatten(s) == LET f[n \in 0..Len(s)] == IF n = 0 THEN << >> ELSE f[n - 1] \o s[n]
              IN  f[Len(s)]
UrlsOf(ds) == [d \in 1..Len(ds) |-> ds[d].url]

\* When Builder returns and no write failed, the chunks it wrote hold every
\* document of every file exactly once, in order, whatever runs were
\* interrupted before.
EveryDocumentIndexed ==
  pc = "done" /\ failed = {} =>
    /\ Flatten([c \in 1..currentChunk |-> disk[c - 1].docs]) = Flatten(corpus)
    /\ \A c \in 0..(currentChunk - 1) : disk[c].urls = UrlsOf(disk[c].docs)

\* An index grows over its limits by its last document at the most: every other
\* location in a chunk is at most MAX_LOCATION, so that it fits the sync table.
ChunkBounded ==
  /\ lastDocIndex <= MAX_LOCATION + 1
  /\ pc = "parse" => uniqueWords <= MAX_UNIQUE_WORDS

\* A finished run leaves no chunk of its own half written, and repairs what
\* an interrupted run before it left under the same number.
DoneIsComplete ==
  pc = "done" =>
    \A c \in 0..(currentChunk - 1) :
      disk[c].state = IF c \in failed THEN "empty" ELSE "complete"

\* A file that verifyIndexBlob accepts and that is not complete is the one
\* being written or was left by an interrupted run, at most one for each.
AcceptedPartials ==
  Cardinality({c \in ChunkNos : disk[c].state = "header"})
    <= (runs - 1) + (IF pc = "body" THEN 1 ELSE 0)
=============================================================================
