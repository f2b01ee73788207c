--------------------------- MODULE SitemapsProofs ---------------------------
(***************************************************************************)
(* Proofs about the collection of sitemaps, for any seeds, documents and   *)
(* limits.                                                                 *)
(***************************************************************************)
EXTENDS Sitemaps, TLAPS, FiniteSetTheorems, SequenceTheorems

(* The URLs of a sequence to which an element is appended. *)
LEMMA UrlsOfAppend ==
    ASSUME NEW S, NEW q \in Seq(S), NEW e \in S
    PROVE  /\ Append(q, e) \in Seq(S) /\ Len(Append(q, e)) = Len(q) + 1
           /\ UrlsOf(Append(q, e)) = UrlsOf(q) \cup {e.url}
<1>1. /\ Append(q, e) \in Seq(S) /\ Len(Append(q, e)) = Len(q) + 1
      /\ \A i \in 1 .. Len(q) : Append(q, e)[i] = q[i]
      /\ Append(q, e)[Len(q) + 1] = e
  BY AppendProperties
<1>2. Len(q) \in Nat
  BY LenProperties
<1>3. 1 .. Len(q) + 1 = 1 .. Len(q) \cup {Len(q) + 1}
  BY <1>2
<1> QED  BY <1>1, <1>3 DEF UrlsOf

(* The URLs of a sequence from which the head is taken. *)
LEMMA UrlsOfTail ==
    ASSUME NEW S, NEW q \in Seq(S), q # <<>>
    PROVE  /\ Head(q) \in S /\ Tail(q) \in Seq(S) /\ Len(q) = Len(Tail(q)) + 1
           /\ UrlsOf(q) = {Head(q).url} \cup UrlsOf(Tail(q))
<1>1. /\ Head(q) \in S /\ Tail(q) \in Seq(S) /\ Len(Tail(q)) = Len(q) - 1
      /\ \A i \in 1 .. Len(Tail(q)) : Tail(q)[i] = q[i + 1]
  BY HeadTailProperties
<1>2. Len(q) \in Nat /\ Len(q) > 0
  BY EmptySeq, LenProperties
<1>3. Head(q) = q[1]
  OBVIOUS
<1>4. \A k \in 1 .. Len(Tail(q)) : k + 1 \in 1 .. Len(q)
  BY <1>1, <1>2
<1>5. \A i \in 1 .. Len(q) : i = 1 \/ (i - 1 \in 1 .. Len(Tail(q)) /\ q[i] = Tail(q)[i - 1])
  BY <1>1, <1>2
<1>6. ASSUME NEW u \in UrlsOf(q) PROVE u \in {Head(q).url} \cup UrlsOf(Tail(q))
  <2>1. PICK i \in 1 .. Len(q) : u = q[i].url
    BY <1>6 DEF UrlsOf
  <2> QED  BY <1>3, <1>5, <2>1 DEF UrlsOf
<1>7. ASSUME NEW u \in {Head(q).url} \cup UrlsOf(Tail(q)) PROVE u \in UrlsOf(q)
  <2>1. CASE u = Head(q).url
    BY <1>2, <1>3, <2>1 DEF UrlsOf
  <2>2. CASE u \in UrlsOf(Tail(q))
    BY <1>1, <1>4, <2>2 DEF UrlsOf
  <2> QED  BY <1>7, <2>1, <2>2
<1> QED  BY <1>1, <1>2, <1>6, <1>7
-----------------------------------------------------------------------------
(* Types. *)

\* While a file is read there is one.
Reading == pc \in {"fetch", "pages"} => files # <<>>

(* Recording what became of the last file changes neither the number nor   *)
(* the URLs of the files.                                                  *)
LEMMA FetchedFiles ==
    ASSUME SitemapsTypeOK, Reading, pc = "fetch",
           NEW o \in Failures \cup Usable, NEW l \in SUBSET (Files \cup Pages),
           NEW t \in BOOLEAN,
           files' = [files EXCEPT ![Len(files)] =
                       [Current EXCEPT !.outcome = o, !.listed = l, !.truncated = t]]
    PROVE  /\ files' \in Seq(File) /\ Len(files') = Len(files) /\ Len(files) \in Nat \ {0}
           /\ \A i \in 1 .. Len(files) : i # Len(files) => files'[i] = files[i]
           /\ files'[Len(files)].url = Current.url
           /\ files'[Len(files)].depth = Current.depth
           /\ files'[Len(files)].outcome = o /\ files'[Len(files)].listed = l
           /\ UrlsOf(files') = UrlsOf(files)
<1> DEFINE c == [Current EXCEPT !.outcome = o, !.listed = l, !.truncated = t]
<1>1. files \in Seq(File) /\ files # <<>>
  BY DEF SitemapsTypeOK, Reading
<1>2. Len(files) \in Nat \ {0} /\ Current \in File
  BY <1>1, EmptySeq, ElementOfSeq, LenProperties DEF Current
<1>3. c \in File /\ c.url = Current.url /\ c.depth = Current.depth
      /\ c.outcome = o /\ c.listed = l
  BY <1>2 DEF File
<1> HIDE DEF c
<1>4. files' = [files EXCEPT ![Len(files)] = c]
  BY DEF c
<1>5. files \in [1 .. Len(files) -> File] /\ Len(files) \in 1 .. Len(files)
  BY <1>1, <1>2, LenProperties
<1>6. files' \in Seq(File) /\ Len(files') = Len(files)
  BY <1>1, <1>3, <1>4, <1>5, ExceptSeq
<1>7. /\ \A i \in 1 .. Len(files) : i # Len(files) => files'[i] = files[i]
      /\ files'[Len(files)] = c
  BY <1>4, <1>5
<1>8. \A i \in 1 .. Len(files) : files'[i].url = files[i].url
  BY <1>3, <1>7 DEF Current
<1>9. UrlsOf(files') = UrlsOf(files)
  BY <1>6, <1>8 DEF UrlsOf
<1> QED  BY <1>2, <1>3, <1>6, <1>7, <1>9

(* References to the entries of an index are well formed. *)
LEMMA RefsType ==
    ASSUME NEW doc \in Seq(Files), NEW d \in Nat
    PROVE  /\ Refs(doc, d) \in Seq(Ref) /\ Len(Refs(doc, d)) = Len(doc)
           /\ \A i \in 1 .. Len(doc) : Refs(doc, d)[i].url = doc[i] /\ Refs(doc, d)[i].depth = d
<1>1. Len(doc) \in Nat /\ \A i \in 1 .. Len(doc) : doc[i] \in Files
  BY LenProperties, ElementOfSeq
<1>2. \A i \in 1 .. Len(doc) : [url |-> doc[i], depth |-> d, declared |-> TRUE] \in Ref
  BY <1>1 DEF Ref
<1> QED  BY <1>1, <1>2 DEF Refs

(* The entries of a document are of its kind. *)
LEMMA ListedType ==
    ASSUME NEW S, NEW doc \in Seq(S)
    PROVE  Listed(doc) \subseteq S
  BY ElementOfSeq DEF Listed

(* A new entry of Result.Files is well formed. *)
LEMMA NewFileType ==
    ASSUME NEW r \in Ref, NEW o \in {"fetching"} \cup Failures \cup Usable
    PROVE  /\ NewFile(r, o) \in File
           /\ NewFile(r, o).url = r.url /\ NewFile(r, o).depth = r.depth
           /\ NewFile(r, o).outcome = o /\ NewFile(r, o).listed = {}
  BY DEF NewFile, File, Ref

(* enqueue keeps the types. *)
LEMMA EnqueueTypes ==
    ASSUME SitemapsTypeOK, NEW r \in Ref, Enqueue(r)
    PROVE  /\ queue' \in Seq(Ref) /\ files' \in Seq(File)
           /\ seenFiles' \subseteq Files /\ filesSkipped' \in Nat
<1>1. seenFiles' \subseteq Files /\ filesSkipped' \in Nat
  BY DEF Enqueue, SitemapsTypeOK, Ref
<1>2. queue' \in Seq(Ref)
  BY AppendProperties, SMTT(30) DEF Enqueue, SitemapsTypeOK
<1>3. files' \in Seq(File)
  <2>1. NewFile(r, "invalid-url") \in File
    BY NewFileType DEF Failures
  <2>2. files \in Seq(File)
    BY DEF SitemapsTypeOK
  <2>3. Append(files, NewFile(r, "invalid-url")) \in Seq(File)
    BY <2>1, <2>2, AppendProperties
  <2>4. files' = files \/ files' = Append(files, NewFile(r, "invalid-url"))
    BY DEF Enqueue
  <2> QED  BY <2>2, <2>3, <2>4
<1> QED  BY <1>1, <1>2, <1>3

(* Types, with a file being read where there must be one. *)
LEMMA Typing == Spec => [](SitemapsTypeOK /\ Reading)
<1>1. Init => SitemapsTypeOK /\ Reading
  <2> SUFFICES ASSUME Init PROVE SitemapsTypeOK /\ Reading
    OBVIOUS
  <2>1. Len(Seeds) \in Nat /\ \A i \in 1 .. Len(Seeds) : Seeds[i] \in [url : Files, declared : BOOLEAN]
    BY DocsAssumption, LenProperties, ElementOfSeq
  <2>2. \A i \in 1 .. Len(Seeds) :
           [url |-> Seeds[i].url, depth |-> 0, declared |-> Seeds[i].declared] \in Ref
    BY <2>1 DEF Ref
  <2>3. todo \in Seq(Ref)
    <3> DEFINE seed(i) == [url |-> Seeds[i].url, depth |-> 0, declared |-> Seeds[i].declared]
    <3>1. todo = [i \in 1 .. Len(Seeds) |-> seed(i)]
      BY DEF Init
    <3>2. \A i \in 1 .. Len(Seeds) : seed(i) \in Ref
      BY <2>2
    <3> HIDE DEF seed
    <3>3. Len(Seeds) \in Nat
      BY <2>1
    <3> QED  BY <3>1, <3>2, <3>3
  <2>4. queue \in Seq(Ref) /\ files \in Seq(File)
    BY EmptySeq DEF Init
  <2>5. invalidLocs \in 0 .. MaxListed /\ outOfScope \in 0 .. MaxListed
    BY LimitsAssumption DEF Init
  <2> QED  BY <2>3, <2>4, <2>5 DEF Init, SitemapsTypeOK, Reading
<1>2. SitemapsTypeOK /\ Reading /\ [Next]_vars => (SitemapsTypeOK /\ Reading)'
  <2> SUFFICES ASSUME SitemapsTypeOK, Reading, [Next]_vars
               PROVE  (SitemapsTypeOK /\ Reading)'
    OBVIOUS
  <2>1. CASE AddFile
    <3>1. todo \in Seq(Ref) /\ Head(todo) \in Ref /\ todo' \in Seq(Ref)
      BY <2>1, HeadTailProperties DEF AddFile, Rest, SitemapsTypeOK
    <3>2. /\ queue' \in Seq(Ref) /\ files' \in Seq(File)
          /\ seenFiles' \subseteq Files /\ filesSkipped' \in Nat
      BY <2>1, <3>1, EnqueueTypes DEF AddFile
    <3> QED  BY <2>1, <3>1, <3>2 DEF AddFile, counts, SitemapsTypeOK, Reading
  <2>2. CASE AddPage
    <3>1. todo \in Seq(Pages) /\ Head(todo) \in Pages /\ todo' \in Seq(Pages)
      BY <2>2, HeadTailProperties DEF AddPage, Rest, SitemapsTypeOK
    <3>2. files[Len(files)].url \in Files
      <4>1. files \in Seq(File) /\ files # <<>>
        BY <2>2 DEF AddPage, SitemapsTypeOK, Reading
      <4>2. Len(files) \in 1 .. Len(files)
        BY <4>1, EmptySeq
      <4>3. files[Len(files)] \in File
        BY <4>1, <4>2, ElementOfSeq
      <4> QED  BY <4>3 DEF File
    <3>3. Plus1(invalidLocs) \in 0 .. MaxListed /\ Plus1(outOfScope) \in 0 .. MaxListed
      BY LimitsAssumption DEF Plus1, SitemapsTypeOK
    <3>4. /\ urls' \subseteq InScope /\ urlsSkipped' \in Nat /\ dropped' \subseteq Files \X InScope
          /\ invalidLocs' \in 0 .. MaxListed /\ outOfScope' \in 0 .. MaxListed
      BY <2>2, <3>2, <3>3, SMTT(30) DEF AddPage, SitemapsTypeOK, counts
    <3> QED  BY <2>2, <3>1, <3>4 DEF AddPage, SitemapsTypeOK, Reading
  <2>3. CASE TakeFile
    <3>1. Head(queue) \in Ref /\ queue' \in Seq(Ref)
      BY <2>3, HeadTailProperties DEF TakeFile, SitemapsTypeOK
    <3>2. NewFile(Head(queue), "fetching") \in File
      BY <3>1, NewFileType
    <3>3. files' \in Seq(File) /\ files' # <<>>
      BY <2>3, <3>2, AppendProperties, SMTT(30) DEF TakeFile, SitemapsTypeOK
    <3>4. todo' = <<>> /\ todo' \in Seq(Ref)
      BY <2>3, EmptySeq DEF TakeFile, AtLoop
    <3> QED  BY <2>3, <3>1, <3>3, <3>4 DEF TakeFile, counts, SitemapsTypeOK, Reading
  <2>4. ASSUME NEW o \in Failures \cup Usable, NEW l \in SUBSET (Files \cup Pages),
               NEW t \in BOOLEAN, NEW next \in {"files", "pages"}, NEW rest,
               Fetched(o, l, t, next, rest),
               rest \in (IF next = "pages" THEN Seq(Pages) ELSE Seq(Ref))
        PROVE  (SitemapsTypeOK /\ Reading)'
    <3>1. files' \in Seq(File) /\ Len(files') = Len(files) /\ Len(files) \in Nat \ {0}
      BY <2>4, FetchedFiles DEF Fetched
    <3>2. files' # <<>>
      BY <3>1
    <3> QED  BY <2>4, <3>1, <3>2 DEF Fetched, counts, SitemapsTypeOK, Reading
  <2>5. CASE FetchFails
    BY <2>4, <2>5, EmptySeq DEF FetchFails, Failures
  <2>6. ASSUME NEW doc \in IndexDocs, NEW t \in BOOLEAN, FetchIndex(doc, t)
        PROVE  (SitemapsTypeOK /\ Reading)'
    <3>1. doc \in Seq(Files) /\ Listed(doc) \in SUBSET (Files \cup Pages)
      BY DocsAssumption, ListedType
    <3>2. Current.depth + 1 \in Nat
      <4>1. files \in Seq(File) /\ files # <<>>
        BY <2>6 DEF FetchIndex, SitemapsTypeOK, Reading
      <4>2. Current \in File
        BY <4>1, EmptySeq, ElementOfSeq, LenProperties DEF Current
      <4> QED  BY <4>2 DEF File
    <3>3. Refs(doc, Current.depth + 1) \in Seq(Ref) /\ <<>> \in Seq(Ref)
      BY <3>1, <3>2, RefsType, EmptySeq
    <3> QED  BY <2>4, <2>6, <3>1, <3>3 DEF FetchIndex, Usable
  <2>7. ASSUME NEW doc \in PageDocs, NEW t \in BOOLEAN, FetchPages(doc, t)
        PROVE  (SitemapsTypeOK /\ Reading)'
    <3>1. doc \in Seq(Pages) /\ Listed(doc) \in SUBSET (Files \cup Pages)
      BY DocsAssumption, ListedType
    <3> QED  BY <2>4, <2>7, <3>1 DEF FetchPages, Usable
  <2>8. CASE Finish
    <3>1. todo' \in Seq(Ref)
      BY <2>8, EmptySeq DEF Finish, AtLoop
    <3> QED  BY <2>8, <3>1 DEF Finish, counts, SitemapsTypeOK, Reading
  <2>9. CASE Cancel
    BY <2>9 DEF Cancel, counts, SitemapsTypeOK, Reading
  <2>10. CASE UNCHANGED vars
    BY <2>10 DEF vars, SitemapsTypeOK, Reading
  <2> QED
    BY <2>1, <2>2, <2>3, <2>5, <2>6, <2>7, <2>8, <2>9, <2>10 DEF Next
<1> QED  BY <1>1, <1>2, PTL DEF Spec

(* The type invariant of the collection. *)
THEOREM SitemapsTypeCorrect == Spec => []SitemapsTypeOK
  BY Typing, PTL

-----------------------------------------------------------------------------
(* The bound on files. *)

(* enqueue keeps the bound, and remembers every file that it is given. *)
LEMMA EnqueueBounded ==
    ASSUME SitemapsTypeOK, FilesBounded, IsFiniteSet(seenFiles), NEW r \in Ref, Enqueue(r)
    PROVE  FilesBounded' /\ IsFiniteSet(seenFiles')
<1>1. Len(queue) \in Nat /\ Len(files) \in Nat /\ MaxFiles \in Nat
  BY LimitsAssumption, LenProperties DEF SitemapsTypeOK
<1>2. IsFiniteSet(Known)
  BY FS_Subset DEF FilesBounded
<1>3. CASE r.url \in seenFiles
  BY <1>3 DEF Enqueue, FilesBounded, Known
<1>4. CASE r.url \notin seenFiles /\ NoRoom
  <2>1. seenFiles' \ Known' = (seenFiles \ Known) \cup {r.url} /\ r.url \notin seenFiles \ Known
    BY <1>4 DEF Enqueue, Known, FilesBounded
  <2>2. IsFiniteSet(seenFiles \ Known) /\ IsFiniteSet(seenFiles')
    BY <1>4, FS_Subset, FS_AddElement DEF Enqueue
  <2>3. Cardinality(seenFiles' \ Known') = filesSkipped + 1
    BY <2>1, <2>2, FS_AddElement DEF FilesBounded
  <2> QED
    <3>1. UNCHANGED <<queue, files, Known>> /\ filesSkipped' = filesSkipped + 1
          /\ seenFiles \subseteq seenFiles'
      BY <1>4 DEF Enqueue, Known
    <3>2. Len(queue) + Len(files) = MaxFiles
      BY <1>1, <1>4 DEF NoRoom, FilesBounded
    <3> HIDE DEF Known
    <3> QED  BY <1>1, <2>2, <2>3, <3>1, <3>2 DEF FilesBounded
<1>5. CASE r.url \notin seenFiles /\ ~NoRoom
  <2>1. Known' = Known \cup {r.url} /\ Len(queue') + Len(files') = Len(queue) + Len(files) + 1
    <3>1. CASE r.url \in BadURLs
      <4>1. NewFile(r, "invalid-url") \in File /\ NewFile(r, "invalid-url").url = r.url
        BY NewFileType DEF Failures
      <4>2. files' = Append(files, NewFile(r, "invalid-url")) /\ queue' = queue
        BY <1>5, <3>1 DEF Enqueue
      <4> HIDE DEF NewFile
      <4> QED  BY <1>1, <4>1, <4>2, UrlsOfAppend DEF Known, SitemapsTypeOK
    <3>2. CASE r.url \notin BadURLs
      <4>1. queue' = Append(queue, r) /\ files' = files
        BY <1>5, <3>2 DEF Enqueue
      <4> QED  BY <1>1, <4>1, UrlsOfAppend DEF Known, SitemapsTypeOK
    <3> QED  BY <3>1, <3>2
  <2>2. r.url \notin Known
    BY <1>5 DEF FilesBounded
  <2>3. Cardinality(Known') = Cardinality(Known) + 1
    BY <1>2, <2>1, <2>2, FS_AddElement
  <2>4. seenFiles' = seenFiles \cup {r.url} /\ filesSkipped' = filesSkipped
    BY <1>5 DEF Enqueue
  <2>5. seenFiles' \ Known' = seenFiles \ Known /\ IsFiniteSet(seenFiles')
    BY <1>5, <2>1, <2>4, FS_AddElement
  <2> QED
    <3>1. Len(queue) + Len(files) < MaxFiles /\ filesSkipped = 0
      BY <1>1, <1>5 DEF NoRoom, FilesBounded, SitemapsTypeOK
    <3>2. Len(queue') + Len(files') <= MaxFiles
      BY <1>1, <2>1, <3>1
    <3>3. Cardinality(Known') = Len(queue') + Len(files') /\ Known' \subseteq seenFiles'
      BY <2>1, <2>3, <2>4 DEF FilesBounded
    <3>4. filesSkipped' = Cardinality(seenFiles' \ Known') /\ filesSkipped' = 0
      BY <2>4, <2>5, <3>1 DEF FilesBounded
    <3> QED  BY <2>5, <3>2, <3>3, <3>4 DEF FilesBounded
<1> QED  BY <1>3, <1>4, <1>5 DEF Enqueue

(* The bound on files, with finitely many known.                          *)
LEMMA FilesInvariant == Spec => [](FilesBounded /\ IsFiniteSet(seenFiles))
<1> DEFINE Inv == FilesBounded /\ IsFiniteSet(seenFiles)
<1>1. Init => Inv
  <2> SUFFICES ASSUME Init PROVE Inv
    OBVIOUS
  <2>1. Len(queue) = 0 /\ Len(files) = 0 /\ seenFiles = {} /\ filesSkipped = 0
    BY DEF Init
  <2>2. Known = {}
    BY <2>1 DEF Known, UrlsOf
  <2> QED  BY <2>1, <2>2, FS_EmptySet, LimitsAssumption DEF FilesBounded
<1>2. SitemapsTypeOK /\ Reading /\ Inv /\ [Next]_vars => Inv'
  <2> SUFFICES ASSUME SitemapsTypeOK, Reading, Inv, [Next]_vars PROVE Inv'
    OBVIOUS
  <2>1. CASE AddFile
    <3>1. Head(todo) \in Ref
      BY <2>1, HeadTailProperties DEF AddFile, SitemapsTypeOK
    <3> QED  BY <2>1, <3>1, EnqueueBounded DEF AddFile
  <2>2. CASE TakeFile
    <3>1. /\ Head(queue) \in Ref /\ queue' \in Seq(Ref) /\ Len(queue) = Len(queue') + 1
          /\ UrlsOf(queue) = {Head(queue).url} \cup UrlsOf(queue')
      BY <2>2, UrlsOfTail DEF TakeFile, SitemapsTypeOK
    <3>2. NewFile(Head(queue), "fetching") \in File
          /\ NewFile(Head(queue), "fetching").url = Head(queue).url
      BY <3>1, NewFileType
    <3>3. Len(files') = Len(files) + 1 /\ UrlsOf(files') = UrlsOf(files) \cup {Head(queue).url}
      BY <2>2, <3>2, UrlsOfAppend DEF TakeFile, SitemapsTypeOK
    <3>4. Known' = Known
      BY <3>1, <3>3 DEF Known
    <3>5. Len(queue') + Len(files') = Len(queue) + Len(files)
      <4>1. Len(queue') \in Nat /\ Len(files) \in Nat
        BY <3>1, LenProperties DEF SitemapsTypeOK
      <4> QED  BY <3>1, <3>3, <4>1
    <3> QED  BY <2>2, <3>4, <3>5 DEF TakeFile, FilesBounded
  <2>3. ASSUME NEW o \in Failures \cup Usable, NEW l \in SUBSET (Files \cup Pages),
               NEW t \in BOOLEAN, NEW next, NEW rest, Fetched(o, l, t, next, rest)
        PROVE  Inv'
    BY <2>3, FetchedFiles DEF Fetched, FilesBounded, Known
  <2>4. CASE FetchFails
    BY <2>3, <2>4 DEF FetchFails, Failures
  <2>5. ASSUME NEW doc \in IndexDocs, NEW t \in BOOLEAN, FetchIndex(doc, t) PROVE Inv'
    <3>1. Listed(doc) \in SUBSET (Files \cup Pages)
      BY DocsAssumption, ListedType
    <3> QED  BY <2>3, <2>5, <3>1 DEF FetchIndex, Usable
  <2>6. ASSUME NEW doc \in PageDocs, NEW t \in BOOLEAN, FetchPages(doc, t) PROVE Inv'
    <3>1. Listed(doc) \in SUBSET (Files \cup Pages)
      BY DocsAssumption, ListedType
    <3> QED  BY <2>3, <2>6, <3>1 DEF FetchPages, Usable
  <2>7. CASE UNCHANGED <<queue, files, seenFiles, filesSkipped>>
    BY <2>7 DEF FilesBounded, Known
  <2> QED
    BY <2>1, <2>2, <2>4, <2>5, <2>6, <2>7 DEF Next, AddPage, Finish, Cancel, vars
<1> QED  BY <1>1, <1>2, Typing, PTL DEF Spec

(* The limit on sitemap files holds, each file is fetched once, and the    *)
(* skipped files are counted.                                              *)
THEOREM FilesAreBounded == Spec => []FilesBounded
  BY FilesInvariant, PTL

-----------------------------------------------------------------------------
(* The bound on URLs. *)

(* The limit on URLs holds, none is dropped before it is reached, and the  *)
(* pages dropped stay out and are counted.                                 *)
THEOREM URLsAreBounded == Spec => []URLsBounded
<1> DEFINE Inv == URLsBounded /\ IsFiniteSet(urls) /\ IsFiniteSet(dropped)
<1>1. Init => Inv
  BY FS_EmptySet, LimitsAssumption DEF Init, URLsBounded
<1>2. SitemapsTypeOK /\ Inv /\ [Next]_vars => Inv'
  <2> SUFFICES ASSUME SitemapsTypeOK, Inv, [Next]_vars PROVE Inv'
    OBVIOUS
  <2>1. CASE AddPage
    <3> DEFINE p == Head(todo)
    <3>1. CASE UNCHANGED <<urls, urlsSkipped, dropped>>
      BY <3>1 DEF URLsBounded
    <3>2. CASE /\ p \notin urls /\ Full /\ urlsSkipped' = urlsSkipped + 1 /\ UNCHANGED urls
               /\ dropped' = dropped \cup {<<files[Len(files)].url, p>>}
      <4>1. Cardinality(urls) = MaxURLs
        BY <3>2, FS_CardinalityType, LimitsAssumption DEF Full, URLsBounded
      <4>2. /\ IsFiniteSet(dropped')
            /\ Cardinality(dropped') <= Cardinality(dropped) + 1
        <5>1. PICK d : dropped' = dropped \cup {d}
          BY <3>2
        <5>2. Cardinality(dropped) \in Nat
          BY FS_CardinalityType
        <5>3. /\ IsFiniteSet(dropped \cup {d})
              /\ \/ Cardinality(dropped \cup {d}) = Cardinality(dropped)
                 \/ Cardinality(dropped \cup {d}) = Cardinality(dropped) + 1
          BY FS_AddElement
        <5> QED  BY <5>1, <5>2, <5>3
      <4>3. urlsSkipped' >= Cardinality(dropped')
        <5>1. Cardinality(dropped) \in Nat /\ Cardinality(dropped') \in Nat
          BY <4>2, FS_CardinalityType
        <5> QED  BY <3>2, <4>2, <5>1 DEF SitemapsTypeOK, URLsBounded
      <4>4. \A d \in dropped' : d[2] \notin urls'
        BY <3>2 DEF URLsBounded
      <4> QED  BY <3>2, <4>1, <4>2, <4>3, <4>4 DEF URLsBounded
    <3>3. CASE /\ p \notin urls /\ ~Full /\ urls' = urls \cup {p}
               /\ UNCHANGED <<urlsSkipped, dropped>>
      <4>1. IsFiniteSet(urls') /\ Cardinality(urls') = Cardinality(urls) + 1
        BY <3>3, FS_AddElement
      <4>2. Cardinality(urls) \in Nat
        BY FS_CardinalityType
      <4>3. dropped = {}
        BY <3>3, <4>2, LimitsAssumption DEF Full, URLsBounded
      <4>4. urlsSkipped = 0
        BY <4>3 DEF URLsBounded, SitemapsTypeOK
      <4> QED  BY <3>3, <4>1, <4>2, <4>3, <4>4, LimitsAssumption DEF Full, URLsBounded
    <3> QED  BY <2>1, <3>1, <3>2, <3>3 DEF AddPage, counts
  <2>2. CASE UNCHANGED <<urls, urlsSkipped, dropped>>
    BY <2>2 DEF URLsBounded
  <2> QED
    BY <2>1, <2>2 DEF Next, AddFile, TakeFile, FetchFails, FetchIndex, FetchPages,
                      Fetched, Finish, Cancel, counts, vars
<1> QED  BY <1>1, <1>2, Typing, PTL DEF Spec

-----------------------------------------------------------------------------
(* Breadth-first order. *)

\* Files come in the order of their depth: whatever is known is at most one
\* level deeper than what waits, and the entries to come are the deepest.
Ordered ==
    /\ \A i \in 1 .. Len(files), j \in 1 .. Len(queue) : files[i].depth <= queue[j].depth + 1
    /\ \A i, j \in 1 .. Len(queue) :
          i <= j => queue[i].depth <= queue[j].depth /\ queue[j].depth <= queue[i].depth + 1
    /\ pc = "fetch" =>
          /\ \A i \in 1 .. Len(files) : files[i].depth <= Current.depth + 1
          /\ \A j \in 1 .. Len(queue) :
                Current.depth <= queue[j].depth /\ queue[j].depth <= Current.depth + 1
    /\ pc = "files" => \A k \in 1 .. Len(todo) :
          /\ \A i \in 1 .. Len(files) : files[i].depth <= todo[k].depth
          /\ \A j \in 1 .. Len(queue) :
                queue[j].depth <= todo[k].depth /\ todo[k].depth <= queue[j].depth + 1
          /\ \A m \in 1 .. Len(todo) : todo[m].depth = todo[k].depth

(* What the pieces of the state are made of. *)
LEMMA Parts ==
    ASSUME SitemapsTypeOK
    PROVE  /\ Len(files) \in Nat /\ Len(queue) \in Nat
           /\ \A i \in 1 .. Len(files) : files[i] \in File /\ files[i].depth \in Nat
           /\ \A j \in 1 .. Len(queue) : queue[j] \in Ref /\ queue[j].depth \in Nat
           /\ pc # "pages" => /\ todo \in Seq(Ref) /\ Len(todo) \in Nat
                             /\ \A k \in 1 .. Len(todo) : todo[k] \in Ref /\ todo[k].depth \in Nat
<1>1. files \in Seq(File) /\ queue \in Seq(Ref) /\ (pc # "pages" => todo \in Seq(Ref))
  BY DEF SitemapsTypeOK
<1>2. \A i \in 1 .. Len(files) : files[i] \in File
  BY <1>1, ElementOfSeq
<1>3. \A j \in 1 .. Len(queue) : queue[j] \in Ref
  BY <1>1, ElementOfSeq
<1>4. pc # "pages" => \A k \in 1 .. Len(todo) : todo[k] \in Ref
  BY <1>1, ElementOfSeq
<1>5. Len(files) \in Nat /\ Len(queue) \in Nat /\ (pc # "pages" => Len(todo) \in Nat)
  BY <1>1, LenProperties
<1> QED  BY <1>1, <1>2, <1>3, <1>4, <1>5 DEF File, Ref

(* The three ways of enqueue, element by element. *)
LEMMA EnqueueCases ==
    ASSUME SitemapsTypeOK, NEW r \in Ref, Enqueue(r)
    PROVE  \/ /\ UNCHANGED <<queue, files>>
              /\ r.url \in seenFiles'
           \/ /\ r.url \notin seenFiles /\ UNCHANGED queue
              /\ Len(files') = Len(files) + 1
              /\ \A i \in 1 .. Len(files) : files'[i] = files[i]
              /\ files'[Len(files) + 1].url = r.url /\ files'[Len(files) + 1].depth = r.depth
              /\ files'[Len(files) + 1].outcome = "invalid-url"
           \/ /\ r.url \notin seenFiles /\ UNCHANGED files
              /\ Len(queue') = Len(queue) + 1
              /\ \A i \in 1 .. Len(queue) : queue'[i] = queue[i]
              /\ queue'[Len(queue) + 1] = r
<1>1. CASE r.url \in seenFiles \/ NoRoom
  BY <1>1 DEF Enqueue
<1>2. CASE r.url \notin seenFiles /\ ~NoRoom /\ r.url \in BadURLs
  <2>1. /\ NewFile(r, "invalid-url") \in File
        /\ NewFile(r, "invalid-url").url = r.url /\ NewFile(r, "invalid-url").depth = r.depth
        /\ NewFile(r, "invalid-url").outcome = "invalid-url"
    BY NewFileType DEF Failures
  <2>2. files' = Append(files, NewFile(r, "invalid-url")) /\ queue' = queue
    BY <1>2 DEF Enqueue
  <2>3. files \in Seq(File)
    BY DEF SitemapsTypeOK
  <2> HIDE DEF NewFile
  <2>4. /\ Len(files') = Len(files) + 1
        /\ \A i \in 1 .. Len(files) : files'[i] = files[i]
        /\ files'[Len(files) + 1] = NewFile(r, "invalid-url")
    BY <2>1, <2>2, <2>3, AppendProperties
  <2> QED  BY <1>2, <2>1, <2>2, <2>4
<1>3. CASE r.url \notin seenFiles /\ ~NoRoom /\ r.url \notin BadURLs
  <2>1. queue' = Append(queue, r) /\ files' = files
    BY <1>3 DEF Enqueue
  <2>2. queue \in Seq(Ref)
    BY DEF SitemapsTypeOK
  <2>3. /\ Len(queue') = Len(queue) + 1
        /\ \A i \in 1 .. Len(queue) : queue'[i] = queue[i]
        /\ queue'[Len(queue) + 1] = r
    BY <2>1, <2>2, AppendProperties
  <2> QED  BY <1>3, <2>1, <2>3
<1> QED  BY <1>1, <1>2, <1>3

(* Taking a file, element by element. *)
LEMMA TakeCases ==
    ASSUME SitemapsTypeOK, TakeFile
    PROVE  /\ Len(queue) > 0 /\ Len(queue') = Len(queue) - 1
           /\ \A j \in 1 .. Len(queue') : queue'[j] = queue[j + 1]
           /\ Len(files') = Len(files) + 1
           /\ \A i \in 1 .. Len(files) : files'[i] = files[i]
           /\ files'[Len(files) + 1].url = queue[1].url
           /\ files'[Len(files) + 1].depth = queue[1].depth
           /\ files'[Len(files) + 1].outcome = "fetching"
           /\ Current' = files'[Len(files) + 1] /\ pc' = "fetch" /\ Len(todo') = 0
<1>1. queue \in Seq(Ref) /\ files \in Seq(File) /\ queue # <<>>
  BY DEF SitemapsTypeOK, TakeFile
<1>2. /\ Head(queue) \in Ref /\ Len(Tail(queue)) = Len(queue) - 1
      /\ \A j \in 1 .. Len(Tail(queue)) : Tail(queue)[j] = queue[j + 1]
  BY <1>1, HeadTailProperties
<1>3. Len(queue) > 0 /\ Head(queue) = queue[1]
  BY <1>1, EmptySeq
<1>4. /\ NewFile(Head(queue), "fetching") \in File
      /\ NewFile(Head(queue), "fetching").url = queue[1].url
      /\ NewFile(Head(queue), "fetching").depth = queue[1].depth
      /\ NewFile(Head(queue), "fetching").outcome = "fetching"
  BY <1>2, <1>3, NewFileType
<1>5. queue' = Tail(queue) /\ files' = Append(files, NewFile(Head(queue), "fetching"))
      /\ pc' = "fetch" /\ todo' = <<>>
  BY DEF TakeFile, AtLoop
<1> HIDE DEF NewFile
<1>6. /\ Len(files') = Len(files) + 1
      /\ \A i \in 1 .. Len(files) : files'[i] = files[i]
      /\ files'[Len(files) + 1] = NewFile(Head(queue), "fetching")
  BY <1>1, <1>4, <1>5, AppendProperties
<1> QED  BY <1>2, <1>3, <1>4, <1>5, <1>6 DEF Current

(* Taking the first of what is to come, element by element. *)
LEMMA RestCases ==
    ASSUME NEW S, todo \in Seq(S), todo # <<>>, todo' = Rest
    PROVE  /\ Head(todo) \in S /\ Head(todo) = todo[1] /\ Len(todo) \in Nat
           /\ Len(todo) > 0 /\ Len(todo') = Len(todo) - 1
           /\ \A k \in 1 .. Len(todo') : todo'[k] = todo[k + 1]
<1>1. Len(todo) \in Nat /\ Len(todo) > 0 /\ Head(todo) = todo[1]
  BY EmptySeq, LenProperties
<1> QED  BY <1>1, HeadTailProperties DEF Rest

(* Adding a seed or an entry keeps the order. *)
LEMMA OrderedAdd ==
    ASSUME SitemapsTypeOK, Ordered, AddFile
    PROVE  Ordered'
<1>1. todo \in Seq(Ref) /\ todo # <<>> /\ todo' = Rest /\ pc = "files" /\ pc' = "files"
  BY DEF AddFile, SitemapsTypeOK
<1>2. /\ Head(todo) \in Ref /\ Head(todo) = todo[1] /\ Len(todo) \in Nat
      /\ Len(todo) > 0 /\ Len(todo') = Len(todo) - 1
      /\ \A k \in 1 .. Len(todo') : todo'[k] = todo[k + 1]
  BY <1>1, RestCases
<1> DEFINE d == todo[1].depth
<1>3. /\ Len(files) \in Nat /\ Len(queue) \in Nat
      /\ \A i \in 1 .. Len(files) : files[i].depth \in Nat
      /\ \A j \in 1 .. Len(queue) : queue[j].depth \in Nat
      /\ d \in Nat
  BY <1>1, <1>2, Parts
<1>4. /\ \A i \in 1 .. Len(files) : files[i].depth <= d
      /\ \A j \in 1 .. Len(queue) : queue[j].depth <= d /\ d <= queue[j].depth + 1
      /\ \A k \in 1 .. Len(todo') : todo'[k].depth = d
  BY <1>1, <1>2 DEF Ordered
<1> HIDE DEF d
<1>5. CASE UNCHANGED <<queue, files>>
  BY <1>1, <1>3, <1>4, <1>5, SMTT(30) DEF Ordered
<1>6. CASE /\ UNCHANGED queue /\ Len(files') = Len(files) + 1
           /\ \A i \in 1 .. Len(files) : files'[i] = files[i]
           /\ files'[Len(files) + 1].depth = d
  <2>1. \A i \in 1 .. Len(files') : i \in 1 .. Len(files) \/ i = Len(files) + 1
    BY <1>3, <1>6
  <2>2. \A i \in 1 .. Len(files') : files'[i].depth <= d /\ files'[i].depth \in Nat
    BY <1>3, <1>4, <1>6, <2>1
  <2>3. \A i \in 1 .. Len(files'), j \in 1 .. Len(queue) : files'[i].depth <= queue[j].depth + 1
    BY <1>3, <1>4, <2>2
  <2> QED  BY <1>1, <1>3, <1>4, <1>6, <2>2, <2>3, SMTT(30) DEF Ordered
<1>7. CASE /\ UNCHANGED files /\ Len(queue') = Len(queue) + 1
           /\ \A j \in 1 .. Len(queue) : queue'[j] = queue[j]
           /\ queue'[Len(queue) + 1].depth = d
  <2>0. \A j \in 1 .. Len(queue') : j \in 1 .. Len(queue) \/ j = Len(queue) + 1
    BY <1>3, <1>7
  <2>1. \A j \in 1 .. Len(queue') :
           queue'[j].depth <= d /\ d <= queue'[j].depth + 1 /\ queue'[j].depth \in Nat
    BY <1>3, <1>4, <1>7, <2>0
  <2>2. \A i, j \in 1 .. Len(queue') :
           i <= j => queue'[i].depth <= queue'[j].depth /\ queue'[j].depth <= queue'[i].depth + 1
    <3> SUFFICES ASSUME NEW i \in 1 .. Len(queue'), NEW j \in 1 .. Len(queue'), i <= j
                 PROVE  queue'[i].depth <= queue'[j].depth /\ queue'[j].depth <= queue'[i].depth + 1
      OBVIOUS
    <3>1. CASE j = Len(queue) + 1
      BY <1>3, <1>7, <2>1, <3>1
    <3>2. CASE j \in 1 .. Len(queue)
      <4>1. i \in 1 .. Len(queue)
        BY <1>3, <2>0, <3>2
      <4> QED  BY <1>7, <3>2, <4>1 DEF Ordered
    <3> QED  BY <2>0, <3>1, <3>2
  <2>3. \A i \in 1 .. Len(files), j \in 1 .. Len(queue') : files[i].depth <= queue'[j].depth + 1
    BY <1>3, <1>4, <2>1
  <2> QED  BY <1>1, <1>3, <1>4, <1>7, <2>1, <2>2, <2>3, SMTT(30) DEF Ordered
<1> QED  BY <1>2, <1>5, <1>6, <1>7, EnqueueCases DEF AddFile, d

(* Taking the head of the queue keeps the order. *)
LEMMA OrderedTake ==
    ASSUME SitemapsTypeOK, Ordered, TakeFile
    PROVE  Ordered'
<1>1. /\ Len(files) \in Nat /\ Len(queue) \in Nat
      /\ \A i \in 1 .. Len(files) : files[i].depth \in Nat
      /\ \A j \in 1 .. Len(queue) : queue[j].depth \in Nat
  BY Parts
<1>2. 1 \in 1 .. Len(queue) /\ \A j \in 1 .. Len(queue') : j + 1 \in 1 .. Len(queue)
  BY <1>1, TakeCases
<1> DEFINE d == queue[1].depth
<1>3. /\ \A i \in 1 .. Len(files) : files[i].depth <= d + 1
      /\ \A j \in 1 .. Len(queue) : d <= queue[j].depth /\ queue[j].depth <= d + 1
      /\ d \in Nat
  BY <1>1, <1>2 DEF Ordered
<1> HIDE DEF d
<1>4. \A j \in 1 .. Len(queue') : d <= queue'[j].depth /\ queue'[j].depth <= d + 1
                                   /\ queue'[j].depth \in Nat
  BY <1>1, <1>2, <1>3, TakeCases
<1>5. \A i \in 1 .. Len(files') : i \in 1 .. Len(files) \/ i = Len(files) + 1
  BY <1>1, TakeCases
<1>6. files'[Len(files) + 1].depth = d /\ Current'.depth = d
  BY TakeCases DEF d
<1>7. \A i \in 1 .. Len(files') : files'[i].depth <= d + 1 /\ files'[i].depth \in Nat
  BY <1>1, <1>3, <1>5, <1>6, TakeCases
<1>8. \A i \in 1 .. Len(files'), j \in 1 .. Len(queue') : files'[i].depth <= queue'[j].depth + 1
  BY <1>3, <1>4, <1>7
<1>9. \A i, j \in 1 .. Len(queue') :
         i <= j => queue'[i].depth <= queue'[j].depth /\ queue'[j].depth <= queue'[i].depth + 1
  BY <1>1, <1>2, TakeCases, SMTT(30) DEF Ordered
<1> QED  BY <1>4, <1>6, <1>7, <1>8, <1>9, TakeCases DEF Ordered

(* Recording a document keeps the order: its entries are one level below   *)
(* the file.                                                               *)
LEMMA OrderedFetched ==
    ASSUME SitemapsTypeOK, Reading, Ordered,
           NEW o \in Failures \cup Usable, NEW l \in SUBSET (Files \cup Pages),
           NEW t \in BOOLEAN, NEW next, NEW rest, Fetched(o, l, t, next, rest),
           next = "pages" \/ (next = "files" /\ \A k \in 1 .. Len(rest) : rest[k].depth = Current.depth + 1)
    PROVE  Ordered'
<1>1. pc = "fetch" /\ pc' = next /\ todo' = rest /\ queue' = queue
  BY DEF Fetched
<1>2. /\ Len(files') = Len(files) /\ Len(files) \in Nat \ {0}
      /\ \A i \in 1 .. Len(files) : i # Len(files) => files'[i] = files[i]
      /\ files'[Len(files)].depth = files[Len(files)].depth
  BY <1>1, FetchedFiles DEF Fetched, Current
<1>3. \A i \in 1 .. Len(files) : files'[i].depth = files[i].depth
  BY <1>2
<1>4. /\ \A i \in 1 .. Len(files) : files[i].depth \in Nat
      /\ \A j \in 1 .. Len(queue) : queue[j].depth \in Nat
      /\ Current.depth \in Nat
  BY <1>2, Parts DEF Current
<1>5. /\ \A i \in 1 .. Len(files) : files[i].depth <= Current.depth + 1
      /\ \A j \in 1 .. Len(queue) :
            Current.depth <= queue[j].depth /\ queue[j].depth <= Current.depth + 1
  BY <1>1 DEF Ordered
<1>6. CASE next = "pages"
  BY <1>1, <1>2, <1>3, <1>6 DEF Ordered
<1>7. CASE next = "files" /\ \A k \in 1 .. Len(rest) : rest[k].depth = Current.depth + 1
  <2>1. \A k \in 1 .. Len(todo') : todo'[k].depth = Current.depth + 1
    BY <1>1, <1>7
  <2> DEFINE d == Current.depth
  <2>2. \A i \in 1 .. Len(files) : files'[i].depth <= d + 1
    BY <1>3, <1>5
  <2>3. \A j \in 1 .. Len(queue) : queue[j].depth <= d + 1 /\ d + 1 <= queue[j].depth + 1
    BY <1>4, <1>5
  <2>4. \A k \in 1 .. Len(todo') : todo'[k].depth = d + 1
    BY <2>1
  <2> HIDE DEF d
  <2>5. pc' = "files"
    BY <1>1, <1>7
  <2> QED  BY <1>1, <1>2, <1>3, <2>2, <2>3, <2>4, <2>5 DEF Ordered
<1> QED  BY <1>6, <1>7

(* Files are known in the order of their depth. *)
LEMMA OrderInvariant == Spec => [](SitemapsTypeOK /\ Reading /\ Ordered)
<1>1. Init => Ordered
  <2> SUFFICES ASSUME Init PROVE Ordered
    OBVIOUS
  <2>1. Len(files) = 0 /\ Len(queue) = 0 /\ pc = "files"
    BY DEF Init
  <2>2. \A k \in 1 .. Len(todo) : todo[k].depth = 0
    <3>1. Len(Seeds) \in Nat
      BY DocsAssumption, LenProperties
    <3> QED  BY <3>1 DEF Init
  <2> QED  BY <2>1, <2>2 DEF Ordered
<1>2. SitemapsTypeOK /\ Reading /\ Ordered /\ [Next]_vars => Ordered'
  <2> SUFFICES ASSUME SitemapsTypeOK, Reading, Ordered, [Next]_vars PROVE Ordered'
    OBVIOUS
  <2>1. CASE FetchFails
    <3>1. \A k \in 1 .. Len(<<>>) : <<>>[k].depth = Current.depth + 1
      BY EmptySeq
    <3>2. PICK o \in Failures \cup Usable : Fetched(o, {}, FALSE, "files", <<>>)
      BY <2>1 DEF FetchFails
    <3> QED  BY <3>1, <3>2, OrderedFetched
  <2>2. ASSUME NEW doc \in IndexDocs, NEW t \in BOOLEAN, FetchIndex(doc, t) PROVE Ordered'
    <3>1. doc \in Seq(Files) /\ Listed(doc) \in SUBSET (Files \cup Pages)
      BY DocsAssumption, ListedType
    <3>2. Current.depth + 1 \in Nat
      <4>1. files \in Seq(File) /\ files # <<>>
        BY <2>2 DEF FetchIndex, SitemapsTypeOK, Reading
      <4>2. Len(files) \in 1 .. Len(files)
        BY <4>1, EmptySeq, LenProperties
      <4> QED  BY <4>2, Parts DEF Current
    <3> DEFINE d == Current.depth + 1
               r == Refs(doc, d)
    <3>3. Len(r) = Len(doc) /\ \A k \in 1 .. Len(doc) : r[k].depth = d
      BY <3>1, <3>2, RefsType
    <3> HIDE DEF d, r
    <3>4. \A k \in 1 .. Len(r) : r[k].depth = d
      BY <3>3
    <3>8. \A k \in 1 .. Len(r) : r[k].depth = Current.depth + 1
      BY <3>4 DEF d
    <3>5. \A k \in 1 .. Len(<<>>) : <<>>[k].depth = Current.depth + 1
      BY EmptySeq
    <3>6. CASE Fetched("too-deep", Listed(doc), t, "files", <<>>)
      BY <3>1, <3>5, <3>6, OrderedFetched DEF Usable
    <3>7. CASE Fetched("index", Listed(doc), t, "files", r)
      BY <3>1, <3>8, <3>7, OrderedFetched DEF Usable
    <3> QED  BY <2>2, <3>6, <3>7 DEF FetchIndex, d, r
  <2>3. ASSUME NEW doc \in PageDocs, NEW t \in BOOLEAN, FetchPages(doc, t) PROVE Ordered'
    <3>1. Listed(doc) \in SUBSET (Files \cup Pages)
      BY DocsAssumption, ListedType
    <3> QED  BY <2>3, <3>1, OrderedFetched DEF FetchPages, Usable
  <2>4. CASE UNCHANGED <<files, queue>> /\ pc' \notin {"files", "fetch"}
    BY <2>4 DEF Ordered
  <2>5. CASE UNCHANGED <<files, queue, pc, todo>>
    BY <2>5 DEF Ordered, Current
  <2>6. CASE AddPage
    BY <2>4, <2>6 DEF AddPage
  <2>7. CASE Finish
    BY <2>4, <2>7 DEF Finish
  <2> QED
    BY <2>1, <2>2, <2>3, <2>5, <2>6, <2>7, OrderedAdd, OrderedTake DEF Next, Cancel, vars
<1> QED  BY <1>1, <1>2, Typing, PTL DEF Spec

-----------------------------------------------------------------------------
(* Shortest ways. *)

\* What an index lists is known, unless it is still to be read from the index
\* or from one on the same level.
Near ==
    \A i \in Followed : \A u \in files[i].listed \ seenFiles :
        /\ pc = "files" /\ \E k \in 1 .. Len(todo) : todo[k].url = u
        /\ \A k \in 1 .. Len(todo) : todo[k].depth <= files[i].depth + 1

\* A file is a seed or an entry of an index one level above.
Source(e) ==
    e.depth = 0 \/ \E j \in Followed : e.url \in files[j].listed /\ e.depth = files[j].depth + 1
Sourced ==
    /\ \A i \in 1 .. Len(files) : Source(files[i])
    /\ \A j \in 1 .. Len(queue) : Source(queue[j])
    /\ pc = "files" => \A k \in 1 .. Len(todo) : Source(todo[k])

\* The file that is being fetched has no outcome yet.
Fresh == pc = "fetch" => Current.outcome = "fetching"

Ways == ShortestWay /\ Near /\ Sourced /\ Fresh

(* When the files only grow by one that is not an index, the indexes are   *)
(* the same, and what came from them still does.                           *)
LEMMA SameFollowed ==
    ASSUME Len(files) \in Nat, Len(files') = Len(files) + 1,
           \A i \in 1 .. Len(files) : files'[i] = files[i],
           files'[Len(files) + 1].outcome # "index"
    PROVE  /\ Followed' = Followed /\ \A i \in Followed : files'[i] = files[i]
           /\ \A i \in 1 .. Len(files') : i \in 1 .. Len(files) \/ i = Len(files) + 1
<1>1. \A i \in 1 .. Len(files') : i \in 1 .. Len(files) \/ i = Len(files) + 1
  OBVIOUS
<1>2. \A i \in 1 .. Len(files) : i \in 1 .. Len(files')
  OBVIOUS
<1> QED  BY <1>1, <1>2 DEF Followed

(* Adding a seed or an entry keeps the shortest ways. *)
LEMMA WaysAdd ==
    ASSUME SitemapsTypeOK, Ways, AddFile
    PROVE  Ways'
<1> DEFINE r == Head(todo)
<1>1. todo \in Seq(Ref) /\ todo # <<>> /\ todo' = Rest /\ pc = "files" /\ pc' = "files"
      /\ Enqueue(r)
  BY DEF AddFile, SitemapsTypeOK
<1>2. /\ r \in Ref /\ r = todo[1] /\ Len(todo) \in Nat
      /\ Len(todo) > 0 /\ Len(todo') = Len(todo) - 1
      /\ \A k \in 1 .. Len(todo') : todo'[k] = todo[k + 1]
  BY <1>1, RestCases
<1>3. Len(files) \in Nat /\ Len(queue) \in Nat
  BY Parts
<1>4. /\ 1 \in 1 .. Len(todo)
      /\ \A k \in 1 .. Len(todo') : k + 1 \in 1 .. Len(todo)
      /\ \A k \in 1 .. Len(todo) : k = 1 \/ (k - 1 \in 1 .. Len(todo') /\ todo'[k - 1] = todo[k])
  BY <1>2
<1>5. seenFiles' = seenFiles \cup {r.url}
  BY <1>1 DEF Enqueue
<1>6. Source(r)
  BY <1>1, <1>2, <1>4 DEF Ways, Sourced
<1>7. \A i \in Followed : r.url \in files[i].listed /\ r.url \notin seenFiles
                            => r.depth <= files[i].depth + 1
  BY <1>2, <1>4 DEF Ways, Near
<1> HIDE DEF r
<1>8. ASSUME Followed' = Followed, \A i \in Followed : files'[i] = files[i]
      PROVE  /\ Near' /\ Fresh'
             /\ (\A k \in 1 .. Len(todo) : Source(todo[k]))'
  <2>1. Near'
    <3> SUFFICES ASSUME NEW i \in Followed, NEW u \in files[i].listed \ seenFiles'
                 PROVE  /\ \E k \in 1 .. Len(todo') : todo'[k].url = u
                        /\ \A k \in 1 .. Len(todo') : todo'[k].depth <= files[i].depth + 1
      BY <1>1, <1>8 DEF Near
    <3>1. u \notin seenFiles /\ u # r.url
      BY <1>5
    <3>2. PICK k \in 1 .. Len(todo) : todo[k].url = u
      BY <3>1 DEF Ways, Near
    <3>3. k # 1
      BY <1>2, <3>1, <3>2
    <3>4. k - 1 \in 1 .. Len(todo') /\ todo'[k - 1].url = u
      BY <1>4, <3>2, <3>3
    <3>5. \A m \in 1 .. Len(todo) : todo[m].depth <= files[i].depth + 1
      BY <3>1 DEF Ways, Near
    <3> QED  BY <1>2, <1>4, <3>4, <3>5
  <2>2. \A k \in 1 .. Len(todo') : Source(todo'[k])
    BY <1>1, <1>2, <1>4 DEF Ways, Sourced
  <2>3. (\A k \in 1 .. Len(todo) : Source(todo[k]))'
    BY <1>8, <2>2 DEF Source
  <2> QED  BY <1>1, <2>1, <2>3 DEF Fresh
<1>9. CASE UNCHANGED <<queue, files>>
  <2>1. Followed' = Followed /\ \A i \in Followed : files'[i] = files[i]
    BY <1>9 DEF Followed
  <2>2. ShortestWay'
    BY <1>9, <2>1 DEF Ways, ShortestWay
  <2>3. (\A i \in 1 .. Len(files) : Source(files[i]))'
        /\ (\A j \in 1 .. Len(queue) : Source(queue[j]))'
    BY <1>9, <2>1 DEF Ways, Sourced, Source
  <2> QED  BY <1>8, <2>1, <2>2, <2>3 DEF Ways, Sourced
<1>10. CASE /\ r.url \notin seenFiles /\ UNCHANGED queue
            /\ Len(files') = Len(files) + 1
            /\ \A i \in 1 .. Len(files) : files'[i] = files[i]
            /\ files'[Len(files) + 1].url = r.url /\ files'[Len(files) + 1].depth = r.depth
            /\ files'[Len(files) + 1].outcome = "invalid-url"
  <2>1. /\ Followed' = Followed /\ \A i \in Followed : files'[i] = files[i]
        /\ \A i \in 1 .. Len(files') : i \in 1 .. Len(files) \/ i = Len(files) + 1
    BY <1>3, <1>10, SameFollowed
  <2>2. \A i \in 1 .. Len(files') : Source(files'[i])
    BY <1>6, <1>10, <2>1 DEF Ways, Sourced, Source
  <2>3. \A i \in Followed, j \in 1 .. Len(files') :
           files'[j].url \in files[i].listed => files'[j].depth <= files[i].depth + 1
    BY <1>7, <1>10, <2>1 DEF Ways, ShortestWay
  <2>4. /\ \A i \in Followed, j \in 1 .. Len(queue) :
              queue[j].url \in files[i].listed => queue[j].depth <= files[i].depth + 1
        /\ \A j \in 1 .. Len(queue) : Source(queue[j])
    BY DEF Ways, ShortestWay, Sourced
  <2>5. ShortestWay'
    BY <1>10, <2>1, <2>2, <2>3, <2>4 DEF ShortestWay, Source
  <2>6. (\A i \in 1 .. Len(files) : Source(files[i]))'
        /\ (\A j \in 1 .. Len(queue) : Source(queue[j]))'
    BY <1>10, <2>1, <2>2, <2>4, SMTT(30) DEF Source
  <2> QED  BY <1>8, <2>1, <2>5, <2>6 DEF Ways, Sourced
<1>11. CASE /\ r.url \notin seenFiles /\ UNCHANGED files
            /\ Len(queue') = Len(queue) + 1
            /\ \A i \in 1 .. Len(queue) : queue'[i] = queue[i]
            /\ queue'[Len(queue) + 1] = r
  <2>1. Followed' = Followed /\ \A i \in Followed : files'[i] = files[i]
    BY <1>11 DEF Followed
  <2>2. \A j \in 1 .. Len(queue') : j \in 1 .. Len(queue) \/ j = Len(queue) + 1
    BY <1>3, <1>11
  <2>3. \A j \in 1 .. Len(queue') : Source(queue'[j])
    BY <1>6, <1>11, <2>2 DEF Ways, Sourced
  <2>4. \A i \in Followed, j \in 1 .. Len(queue') :
           queue'[j].url \in files[i].listed => queue'[j].depth <= files[i].depth + 1
    BY <1>7, <1>11, <2>2 DEF Ways, ShortestWay
  <2>5. /\ \A i \in Followed, j \in 1 .. Len(files) :
              files[j].url \in files[i].listed => files[j].depth <= files[i].depth + 1
        /\ \A i \in 1 .. Len(files) : Source(files[i])
    BY DEF Ways, ShortestWay, Sourced
  <2>6. ShortestWay'
    BY <1>11, <2>1, <2>4, <2>5 DEF ShortestWay, Source
  <2>7. (\A i \in 1 .. Len(files) : Source(files[i]))'
        /\ (\A j \in 1 .. Len(queue) : Source(queue[j]))'
    BY <1>11, <2>1, <2>3, <2>5 DEF Source
  <2> QED  BY <1>8, <2>1, <2>6, <2>7 DEF Ways, Sourced
<1> QED  BY <1>1, <1>2, <1>9, <1>10, <1>11, EnqueueCases

(* Taking the head of the queue keeps the shortest ways. *)
LEMMA WaysTake ==
    ASSUME SitemapsTypeOK, Ways, TakeFile
    PROVE  Ways'
<1>1. Len(files) \in Nat /\ Len(queue) \in Nat
  BY Parts
<1>2. 1 \in 1 .. Len(queue) /\ \A j \in 1 .. Len(queue') : j + 1 \in 1 .. Len(queue)
  BY <1>1, TakeCases
<1>3. /\ Followed' = Followed /\ \A i \in Followed : files'[i] = files[i]
      /\ \A i \in 1 .. Len(files') : i \in 1 .. Len(files) \/ i = Len(files) + 1
  BY <1>1, TakeCases, SameFollowed
<1>4. seenFiles' = seenFiles /\ (pc = "files" => Len(todo) = 0) /\ pc' = "fetch"
  BY EmptySeq DEF TakeFile, AtLoop
<1>5. Near'
  <2>1. \A i \in Followed : files[i].listed \subseteq seenFiles
    BY <1>4 DEF Ways, Near
  <2> QED  BY <1>3, <1>4, <2>1 DEF Near
<1>7. \A i \in 1 .. Len(files') : Source(files'[i])
  <2> SUFFICES ASSUME NEW i \in 1 .. Len(files') PROVE Source(files'[i])
    OBVIOUS
  <2>1. (\A j \in 1 .. Len(files) : Source(files[j])) /\ Source(queue[1])
    BY <1>2 DEF Ways, Sourced
  <2>2. CASE i \in 1 .. Len(files)
    <3>1. files'[i] = files[i]
      BY <2>2, TakeCases
    <3> QED  BY <2>1, <2>2, <3>1
  <2>3. CASE i = Len(files) + 1
    <3>1. files'[i].url = queue[1].url /\ files'[i].depth = queue[1].depth
      BY <2>3, TakeCases
    <3> QED  BY <2>1, <3>1 DEF Source
  <2> QED  BY <1>3, <2>2, <2>3
<1>8. \A j \in 1 .. Len(queue') : Source(queue'[j])
  BY <1>2, TakeCases DEF Ways, Sourced
<1>9. \A i \in Followed, j \in 1 .. Len(files') :
         files'[j].url \in files[i].listed => files'[j].depth <= files[i].depth + 1
  <2> SUFFICES ASSUME NEW i \in Followed, NEW j \in 1 .. Len(files'), files'[j].url \in files[i].listed
               PROVE  files'[j].depth <= files[i].depth + 1
    OBVIOUS
  <2>1. CASE j \in 1 .. Len(files)
    <3>1. files'[j] = files[j]
      BY <2>1, TakeCases
    <3> QED  BY <2>1, <3>1 DEF Ways, ShortestWay
  <2>2. CASE j = Len(files) + 1
    <3>1. files'[j].url = queue[1].url /\ files'[j].depth = queue[1].depth
      BY <2>2, TakeCases
    <3> QED  BY <1>2, <3>1 DEF Ways, ShortestWay
  <2> QED  BY <1>3, <2>1, <2>2
<1>10. \A i \in Followed, j \in 1 .. Len(queue') :
         queue'[j].url \in files[i].listed => queue'[j].depth <= files[i].depth + 1
  BY <1>2, TakeCases DEF Ways, ShortestWay
<1>11. ShortestWay'
  BY <1>3, <1>7, <1>9, <1>10 DEF ShortestWay, Source
<1>12. (\A i \in 1 .. Len(files) : Source(files[i]))' /\ (\A j \in 1 .. Len(queue) : Source(queue[j]))'
  BY <1>3, <1>7, <1>8, SMTT(30) DEF Source
<1>13. Sourced' /\ Fresh'
  BY <1>4, <1>12, TakeCases DEF Sourced, Fresh
<1> QED  BY <1>5, <1>11, <1>13 DEF Ways

(* Recording a document keeps the shortest ways: an index that is followed *)
(* is the last file, and no file or entry is more than a level deeper.     *)
LEMMA WaysFetched ==
    ASSUME SitemapsTypeOK, Reading, Ordered, Ways,
           NEW o \in Failures \cup Usable, NEW l \in SUBSET (Files \cup Pages),
           NEW t \in BOOLEAN, NEW next \in {"files", "pages"}, NEW rest,
           Fetched(o, l, t, next, rest),
           next = "files" /\ o # "index" => Len(rest) = 0,
           o = "index" =>
              /\ next = "files"
              /\ \A u \in l : \E k \in 1 .. Len(rest) : rest[k].url = u
              /\ \A k \in 1 .. Len(rest) : rest[k].url \in l /\ rest[k].depth = Current.depth + 1
    PROVE  Ways'
<1> DEFINE n == Len(files)
<1>1. pc = "fetch" /\ pc' = next /\ todo' = rest /\ queue' = queue /\ seenFiles' = seenFiles
  BY DEF Fetched
<1>2. /\ Len(files') = n /\ n \in Nat \ {0}
      /\ \A i \in 1 .. n : i # n => files'[i] = files[i]
      /\ files'[n].url = files[n].url /\ files'[n].depth = files[n].depth
      /\ files'[n].outcome = o /\ files'[n].listed = l
  BY <1>1, FetchedFiles DEF Fetched, Current
<1>3. n \in 1 .. n /\ n \notin Followed /\ Current = files[n]
  BY <1>1, <1>2 DEF Ways, Fresh, Followed, Current
<1>4. \A i \in Followed : i \in 1 .. n /\ i # n /\ files'[i] = files[i] /\ i \in Followed'
  BY <1>2, <1>3 DEF Followed
<1>5. \A i \in Followed' : i \in Followed \/ (i = n /\ o = "index")
  BY <1>2 DEF Followed
<1>6. \A i \in 1 .. n : files'[i].url = files[i].url /\ files'[i].depth = files[i].depth
  BY <1>2
<1>7. /\ \A i \in 1 .. n : files[i].depth <= files[n].depth + 1
      /\ \A j \in 1 .. Len(queue) : queue[j].depth <= files[n].depth + 1
  BY <1>1, <1>3 DEF Ordered
<1> HIDE DEF n
<1>8. \A i \in Followed : files[i].listed \subseteq seenFiles
  BY <1>1 DEF Ways, Near
<1>9. \A i \in 1 .. n : Source(files[i])
  BY DEF Ways, Sourced, n
<1>10. \A j \in 1 .. Len(queue) : Source(queue[j])
  BY DEF Ways, Sourced
<1>11. (\A i \in 1 .. Len(files) : Source(files[i]))' /\ (\A j \in 1 .. Len(queue) : Source(queue[j]))'
  <2>1. \A j \in Followed : j \in Followed' /\ files'[j].listed = files[j].listed
                            /\ files'[j].depth = files[j].depth
    BY <1>4
  <2>2. ASSUME NEW i \in 1 .. n PROVE Source(files[i])'
    <3>1. Source(files[i]) /\ files'[i].url = files[i].url /\ files'[i].depth = files[i].depth
      BY <1>6, <1>9
    <3> QED  BY <2>1, <3>1 DEF Source
  <2>3. ASSUME NEW j \in 1 .. Len(queue) PROVE Source(queue[j])'
    <3>1. Source(queue[j]) /\ queue'[j] = queue[j]
      BY <1>1, <1>10
    <3> QED  BY <2>1, <3>1 DEF Source
  <2> QED  BY <1>1, <1>2, <2>2, <2>3
<1>12. \A i \in Followed', j \in 1 .. n :
          files'[j].url \in files'[i].listed => files'[j].depth <= files'[i].depth + 1
  <2>1. \A i \in Followed, j \in 1 .. n :
          files[j].url \in files[i].listed => files[j].depth <= files[i].depth + 1
    BY DEF Ways, ShortestWay, n
  <2> QED  BY <1>2, <1>3, <1>4, <1>5, <1>6, <1>7, <2>1
<1>13. \A i \in Followed', j \in 1 .. Len(queue) :
          queue[j].url \in files'[i].listed => queue[j].depth <= files'[i].depth + 1
  <2>1. \A i \in Followed, j \in 1 .. Len(queue) :
          queue[j].url \in files[i].listed => queue[j].depth <= files[i].depth + 1
    BY DEF Ways, ShortestWay
  <2> QED  BY <1>2, <1>3, <1>4, <1>5, <1>6, <1>7, <2>1
<1>14. ShortestWay'
  BY <1>1, <1>2, <1>11, <1>12, <1>13 DEF ShortestWay, Source
<1>15. Near'
  <2> SUFFICES ASSUME NEW i \in Followed', NEW u \in files'[i].listed \ seenFiles'
               PROVE  /\ next = "files" /\ \E k \in 1 .. Len(rest) : rest[k].url = u
                      /\ \A k \in 1 .. Len(rest) : rest[k].depth <= files'[i].depth + 1
    BY <1>1 DEF Near
  <2>1. i = n /\ o = "index"
    BY <1>1, <1>4, <1>5, <1>8
  <2>2. u \in l /\ Current.depth = files'[i].depth /\ files'[i].depth \in Nat
    <3>1. files[n].depth \in Nat
      BY <1>3, Parts DEF n
    <3> QED  BY <1>2, <1>3, <2>1, <3>1
  <2> QED  BY <2>1, <2>2
<1>16. (pc = "files" => \A k \in 1 .. Len(todo) : Source(todo[k]))'
  <2>1. CASE o = "index"
    <3>1. n \in Followed' /\ files'[n].listed = l /\ files'[n].depth = Current.depth
      BY <1>2, <1>3, <2>1 DEF Followed
    <3> QED  BY <1>1, <2>1, <3>1 DEF Source
  <2>2. CASE o # "index"
    BY <1>1, <2>2
  <2> QED  BY <2>1, <2>2
<1>17. Fresh'
  BY <1>1 DEF Fresh
<1> QED  BY <1>11, <1>14, <1>15, <1>16, <1>17 DEF Ways, Sourced

(* Shortest ways, and what they rest on.                                   *)
LEMMA WaysInvariant == Spec => []Ways
<1>1. Init => Ways
  <2> SUFFICES ASSUME Init PROVE Ways
    OBVIOUS
  <2>1. Len(files) = 0 /\ Len(queue) = 0 /\ pc = "files" /\ Followed = {}
    BY DEF Init, Followed
  <2>2. \A k \in 1 .. Len(todo) : todo[k].depth = 0
    <3>1. Len(Seeds) \in Nat
      BY DocsAssumption, LenProperties
    <3> QED  BY <3>1 DEF Init
  <2> QED  BY <2>1, <2>2 DEF Ways, ShortestWay, Near, Sourced, Source, Fresh
<1>2. SitemapsTypeOK /\ Reading /\ Ordered /\ Ways /\ [Next]_vars => Ways'
  <2> SUFFICES ASSUME SitemapsTypeOK, Reading, Ordered, Ways, [Next]_vars
               PROVE  Ways'
    OBVIOUS
  <2>1. CASE FetchFails
    <3>1. PICK o \in Failures \cup Usable : o # "index" /\ Fetched(o, {}, FALSE, "files", <<>>)
      BY <2>1 DEF FetchFails, Failures
    <3>2. Len(<<>>) = 0
      BY EmptySeq
    <3> QED  BY <3>1, <3>2, WaysFetched
  <2>2. ASSUME NEW doc \in IndexDocs, NEW t \in BOOLEAN, FetchIndex(doc, t) PROVE Ways'
    <3> DEFINE d == Current.depth + 1
               r == Refs(doc, d)
    <3>1. doc \in Seq(Files) /\ Listed(doc) \in SUBSET (Files \cup Pages)
      BY DocsAssumption, ListedType
    <3>2. d \in Nat
      <4>1. files \in Seq(File) /\ files # <<>>
        BY <2>2 DEF FetchIndex, SitemapsTypeOK, Reading
      <4>2. Len(files) \in 1 .. Len(files)
        BY <4>1, EmptySeq, LenProperties
      <4> QED  BY <4>2, Parts DEF Current
    <3>3. Len(r) = Len(doc) /\ \A k \in 1 .. Len(doc) : r[k].url = doc[k] /\ r[k].depth = d
      BY <3>1, <3>2, RefsType
    <3> HIDE DEF d, r
    <3>4. /\ \A u \in Listed(doc) : \E k \in 1 .. Len(r) : r[k].url = u
          /\ \A k \in 1 .. Len(r) : r[k].url \in Listed(doc) /\ r[k].depth = d
      BY <3>3 DEF Listed
    <3>5. CASE Fetched("too-deep", Listed(doc), t, "files", <<>>)
      <4>1. Len(<<>>) = 0
        BY EmptySeq
      <4> QED  BY <3>1, <3>5, <4>1, WaysFetched DEF Usable
    <3>6. CASE Fetched("index", Listed(doc), t, "files", r)
      BY <3>1, <3>4, <3>6, WaysFetched DEF Usable, d
    <3> QED  BY <2>2, <3>5, <3>6 DEF FetchIndex, d, r
  <2>3. ASSUME NEW doc \in PageDocs, NEW t \in BOOLEAN, FetchPages(doc, t) PROVE Ways'
    <3>1. Listed(doc) \in SUBSET (Files \cup Pages)
      BY DocsAssumption, ListedType
    <3> QED  BY <2>3, <3>1, WaysFetched DEF FetchPages, Usable
  <2>4. CASE UNCHANGED <<files, queue, seenFiles>> /\ pc \notin {"files", "fetch"}
             /\ pc' \notin {"files", "fetch"}
    BY <2>4 DEF Ways, ShortestWay, Near, Sourced, Source, Fresh, Followed
  <2>5. CASE UNCHANGED <<files, queue, seenFiles, pc, todo>>
    BY <2>5 DEF Ways, ShortestWay, Near, Sourced, Source, Fresh, Followed, Current
  <2>6. CASE AddPage
    BY <2>4, <2>6 DEF AddPage
  <2>7. CASE Finish
    <3>1. Len(todo) = 0 /\ UNCHANGED <<files, queue, seenFiles>> /\ pc' = "done"
          /\ pc # "fetch"
      BY <2>7, EmptySeq DEF Finish, AtLoop
    <3>2. \A i \in Followed : files[i].listed \subseteq seenFiles
      BY <3>1 DEF Ways, Near
    <3> QED  BY <3>1, <3>2 DEF Ways, ShortestWay, Near, Sourced, Source, Fresh, Followed
  <2> QED
    BY <2>1, <2>2, <2>3, <2>5, <2>6, <2>7, WaysAdd, WaysTake DEF Next, Cancel, vars
<1> QED  BY <1>1, <1>2, OrderInvariant, PTL DEF Spec

(* Every file counts with its shortest way from the seeds, whatever the    *)
(* documents list: nesting limits cut off nothing that an index within     *)
(* the limit references.                                                   *)
THEOREM WaysAreShortest == Spec => []ShortestWay
<1>1. Ways => ShortestWay
  BY DEF Ways
<1> QED  BY <1>1, WaysInvariant, PTL

-----------------------------------------------------------------------------
(* What a collection read. *)

\* A seed is known, or still to come.
SeedsSeen ==
    \A i \in 1 .. Len(Seeds) :
        Seeds[i].url \in seenFiles \/ (pc = "files" /\ \E k \in 1 .. Len(todo) : todo[k].url = Seeds[i].url)
Emptied == pc = "done" /\ ~canceled => queue = <<>>

PagesOf == UNION {files[i].listed : i \in {j \in 1 .. Len(files) : files[j].outcome = "urlset"}}

\* The URLs come from the lists, and what is not among them is still to come.
Recorded ==
    /\ urls \subseteq PagesOf
    /\ pc = "pages" => \A k \in 1 .. Len(todo) : todo[k] \in PagesOf
    /\ urlsSkipped = 0 => \A p \in PagesOf \cap InScope :
          p \in urls \/ (pc = "pages" /\ \E k \in 1 .. Len(todo) : todo[k] = p)

(* Taking the first entry: what is to come is the rest. *)
LEMMA OneLess ==
    ASSUME NEW S, todo \in Seq(S), todo # <<>>, todo' = Rest
    PROVE  /\ Head(todo) \in S /\ \E k \in 1 .. Len(todo) : todo[k] = Head(todo)
           /\ \A k \in 1 .. Len(todo) :
                 todo[k] = Head(todo) \/ \E m \in 1 .. Len(todo') : todo'[m] = todo[k]
           /\ \A m \in 1 .. Len(todo') : \E k \in 1 .. Len(todo) : todo'[m] = todo[k]
<1>1. /\ Head(todo) \in S /\ Head(todo) = todo[1] /\ Len(todo) \in Nat
      /\ Len(todo) > 0 /\ Len(todo') = Len(todo) - 1
      /\ \A k \in 1 .. Len(todo') : todo'[k] = todo[k + 1]
  BY RestCases
<1>2. /\ 1 \in 1 .. Len(todo)
      /\ \A k \in 1 .. Len(todo') : k + 1 \in 1 .. Len(todo)
      /\ \A k \in 1 .. Len(todo) : k = 1 \/ (k - 1 \in 1 .. Len(todo') /\ todo'[k - 1] = todo[k])
  BY <1>1
<1> QED  BY <1>1, <1>2

(* No seed is forgotten. *)
LEMMA SeedsStep ==
    ASSUME SitemapsTypeOK, SeedsSeen, [Next]_vars
    PROVE  SeedsSeen'
<1>1. CASE AddFile
  <2>1. todo \in Seq(Ref) /\ todo # <<>> /\ todo' = Rest /\ pc' = "files"
        /\ seenFiles' = seenFiles \cup {Head(todo).url}
    BY <1>1 DEF AddFile, Enqueue, SitemapsTypeOK
  <2> SUFFICES ASSUME NEW i \in 1 .. Len(Seeds), Seeds[i].url \notin seenFiles'
               PROVE  \E k \in 1 .. Len(todo') : todo'[k].url = Seeds[i].url
    BY <2>1 DEF SeedsSeen
  <2>2. PICK k \in 1 .. Len(todo) : todo[k].url = Seeds[i].url
    BY <2>1 DEF SeedsSeen
  <2>3. PICK m \in 1 .. Len(todo') : todo'[m] = todo[k]
    BY <2>1, <2>2, OneLess
  <2> QED  BY <2>2, <2>3
<1>2. CASE UNCHANGED <<seenFiles, pc, todo>>
  BY <1>2 DEF SeedsSeen
<1>3. CASE seenFiles' = seenFiles /\ (pc = "files" => Len(todo) = 0)
  BY <1>3 DEF SeedsSeen
<1>4. (TakeFile \/ Finish) => seenFiles' = seenFiles /\ (pc = "files" => Len(todo) = 0)
  BY EmptySeq DEF TakeFile, Finish, AtLoop
<1> QED
  BY <1>1, <1>2, <1>3, <1>4
     DEF Next, AddPage, FetchFails, FetchIndex, FetchPages, Fetched, Cancel, vars

(* A collection that was not cut off ends with an empty queue. *)
LEMMA EmptiedStep ==
    ASSUME Emptied, [Next]_vars
    PROVE  Emptied'
  BY DEF Emptied, Next, AddFile, AddPage, TakeFile, FetchFails, FetchIndex, FetchPages,
         Fetched, Finish, AtLoop, Cancel, vars

(* A file that is added brings no pages yet. *)
LEMMA SamePages ==
    ASSUME Len(files) \in Nat, Len(files') = Len(files) + 1,
           \A i \in 1 .. Len(files) : files'[i] = files[i],
           files'[Len(files) + 1].outcome # "urlset"
    PROVE  PagesOf' = PagesOf
<1>1. \A i \in 1 .. Len(files') : i \in 1 .. Len(files) \/ i = Len(files) + 1
  OBVIOUS
<1>2. \A i \in 1 .. Len(files) : i \in 1 .. Len(files')
  OBVIOUS
<1> QED  BY <1>1, <1>2 DEF PagesOf

(* Recording a document adds its pages, if it is a list of pages. *)
LEMMA PagesFetched ==
    ASSUME SitemapsTypeOK, Reading, Fresh,
           NEW o \in Failures \cup Usable, NEW l \in SUBSET (Files \cup Pages),
           NEW t \in BOOLEAN, NEW next, NEW rest, Fetched(o, l, t, next, rest)
    PROVE  PagesOf' = IF o = "urlset" THEN PagesOf \cup l ELSE PagesOf
<1> DEFINE n == Len(files)
<1>1. pc = "fetch"
  BY DEF Fetched
<1>2. /\ Len(files') = n /\ n \in Nat \ {0}
      /\ \A i \in 1 .. n : i # n => files'[i] = files[i]
      /\ files'[n].outcome = o /\ files'[n].listed = l
  BY <1>1, FetchedFiles DEF Fetched
<1>3. n \in 1 .. n /\ files[n].outcome # "urlset"
  BY <1>1, <1>2 DEF Fresh, Current
<1> DEFINE lists == {j \in 1 .. n : files[j].outcome = "urlset"}
<1>4. {j \in 1 .. n : files'[j].outcome = "urlset"} = IF o = "urlset" THEN lists \cup {n} ELSE lists
  BY <1>2, <1>3
<1>5. \A i \in lists : files'[i].listed = files[i].listed
  BY <1>2, <1>3
<1>6. PagesOf = UNION {files[i].listed : i \in lists}
  BY DEF PagesOf
<1>7. PagesOf' = UNION {files'[i].listed : i \in {j \in 1 .. n : files'[j].outcome = "urlset"}}
  BY <1>2 DEF PagesOf
<1> HIDE DEF lists, n
<1> QED  BY <1>2, <1>4, <1>5, <1>6, <1>7

(* The URLs of the result are those of the lists. *)
LEMMA RecordedStep ==
    ASSUME SitemapsTypeOK, Reading, Fresh, Recorded, [Next]_vars
    PROVE  Recorded'
<1>1. CASE AddFile
  <2>1. Head(todo) \in Ref /\ Enqueue(Head(todo)) /\ pc = "files" /\ pc' = "files"
        /\ UNCHANGED <<urls, urlsSkipped>>
    BY <1>1, HeadTailProperties DEF AddFile, counts, SitemapsTypeOK
  <2>2. PagesOf' = PagesOf
    <3>1. UNCHANGED files => PagesOf' = PagesOf
      BY DEF PagesOf
    <3>2. Len(files) \in Nat
      BY Parts
    <3> QED  BY <2>1, <3>1, <3>2, EnqueueCases, SamePages
  <2> QED  BY <2>1, <2>2 DEF Recorded
<1>2. CASE AddPage
  <2> DEFINE h == Head(todo)
  <2>1. todo \in Seq(Pages) /\ todo # <<>> /\ todo' = Rest /\ pc = "pages" /\ pc' = "pages"
    BY <1>2 DEF AddPage, SitemapsTypeOK
  <2>2. /\ h \in Pages /\ \E k \in 1 .. Len(todo) : todo[k] = h
        /\ \A k \in 1 .. Len(todo) : todo[k] = h \/ \E m \in 1 .. Len(todo') : todo'[m] = todo[k]
        /\ \A m \in 1 .. Len(todo') : \E k \in 1 .. Len(todo) : todo'[m] = todo[k]
    BY <2>1, OneLess
  <2>3. PagesOf' = PagesOf
    BY <1>2 DEF AddPage, PagesOf
  <2>4. h \in PagesOf /\ \A m \in 1 .. Len(todo') : todo'[m] \in PagesOf
    BY <2>1, <2>2 DEF Recorded
  <2>5. urls' \subseteq urls \cup {h} /\ urls \subseteq urls' /\ urlsSkipped' >= urlsSkipped
    BY <1>2 DEF AddPage, counts, SitemapsTypeOK
  <2>6. urlsSkipped' = 0 /\ h \in InScope => urlsSkipped = 0 /\ h \in urls'
    BY <1>2, DocsAssumption DEF AddPage, counts, SitemapsTypeOK
  <2>7. urlsSkipped' = 0 => urlsSkipped = 0
    BY <2>5 DEF SitemapsTypeOK
  <2> HIDE DEF h
  <2>8. ASSUME urlsSkipped' = 0, NEW p \in PagesOf \cap InScope
        PROVE  p \in urls' \/ \E m \in 1 .. Len(todo') : todo'[m] = p
    <3>1. p \in urls \/ \E k \in 1 .. Len(todo) : todo[k] = p
      BY <2>7, <2>8 DEF Recorded
    <3> QED  BY <2>2, <2>5, <2>6, <2>8, <3>1
  <2> QED  BY <2>1, <2>3, <2>4, <2>5, <2>8 DEF Recorded
<1>3. CASE TakeFile
  <2>1. PagesOf' = PagesOf
    <3>1. Len(files) \in Nat
      BY Parts
    <3> QED  BY <1>3, <3>1, TakeCases, SamePages
  <2>2. Len(todo) = 0 /\ pc' = "fetch" /\ UNCHANGED <<urls, urlsSkipped>>
    BY <1>3, EmptySeq DEF TakeFile, AtLoop, counts
  <2> QED  BY <2>1, <2>2 DEF Recorded
<1>4. CASE Finish
  <2>1. Len(todo) = 0 /\ pc' = "done" /\ UNCHANGED <<urls, urlsSkipped, files>>
    BY <1>4, EmptySeq DEF Finish, AtLoop, counts
  <2> QED  BY <2>1 DEF Recorded, PagesOf
<1>5. ASSUME NEW o \in Failures \cup Usable, NEW l \in SUBSET (Files \cup Pages),
             NEW t \in BOOLEAN, NEW next, NEW rest, Fetched(o, l, t, next, rest),
             next # "pages", o # "urlset"
      PROVE  Recorded'
  <2>1. PagesOf' = PagesOf
    BY <1>5, PagesFetched
  <2> QED  BY <1>5, <2>1 DEF Fetched, Recorded, counts
<1>6. CASE FetchFails
  BY <1>5, <1>6 DEF FetchFails, Failures
<1>7. ASSUME NEW doc \in IndexDocs, NEW t \in BOOLEAN, FetchIndex(doc, t) PROVE Recorded'
  <2>1. Listed(doc) \in SUBSET (Files \cup Pages)
    BY DocsAssumption, ListedType
  <2> QED  BY <1>5, <1>7, <2>1 DEF FetchIndex, Usable
<1>8. ASSUME NEW doc \in PageDocs, NEW t \in BOOLEAN, FetchPages(doc, t) PROVE Recorded'
  <2>1. Listed(doc) \in SUBSET (Files \cup Pages)
    BY DocsAssumption, ListedType
  <2>2. PagesOf' = PagesOf \cup Listed(doc)
    BY <1>8, <2>1, PagesFetched DEF FetchPages, Usable
  <2>3. pc = "fetch" /\ pc' = "pages" /\ todo' = doc /\ UNCHANGED <<urls, urlsSkipped>>
    BY <1>8 DEF FetchPages, Fetched, counts
  <2> QED  BY <2>2, <2>3 DEF Recorded, Listed
<1>9. CASE Cancel \/ UNCHANGED vars
  BY <1>9 DEF Cancel, vars, counts, Recorded, PagesOf
<1> QED  BY <1>1, <1>2, <1>3, <1>4, <1>6, <1>7, <1>8, <1>9 DEF Next

(* A collection that was not cut off, and skipped nothing, read all that   *)
(* there is.                                                               *)
THEOREM AllIsCollected == Spec => []Collected
<1> DEFINE Inv == SeedsSeen /\ Emptied /\ Recorded
<1>1. Init => Inv
  <2> SUFFICES ASSUME Init PROVE Inv
    OBVIOUS
  <2>1. Len(files) = 0 /\ pc = "files" /\ urls = {} /\ PagesOf = {}
    BY DEF Init, PagesOf
  <2>2. SeedsSeen
    <3>1. Len(Seeds) \in Nat
      BY DocsAssumption, LenProperties
    <3>2. Len(todo) = Len(Seeds) /\ \A i \in 1 .. Len(Seeds) : todo[i].url = Seeds[i].url
      BY <3>1 DEF Init
    <3> QED  BY <2>1, <3>2 DEF SeedsSeen
  <2> QED  BY <2>1, <2>2 DEF Emptied, Recorded
<1>2. SitemapsTypeOK /\ Reading /\ Ways /\ Inv /\ [Next]_vars => Inv'
  BY SeedsStep, EmptiedStep, RecordedStep DEF Ways
<1>3. SitemapsTypeOK /\ FilesBounded /\ IsFiniteSet(seenFiles) /\ Ways /\ Inv => Collected
  <2> SUFFICES ASSUME SitemapsTypeOK, FilesBounded, IsFiniteSet(seenFiles), Ways, Inv,
                      pc = "done", ~canceled
               PROVE  Collected
    BY DEF Collected
  <2>1. UrlsOf(queue) = {}
    <3>1. Len(queue) = 0
      BY EmptySeq DEF Emptied
    <3> QED  BY <3>1 DEF UrlsOf
  <2>2. filesSkipped = 0 => seenFiles = UrlsOf(files)
    <3>1. IsFiniteSet(seenFiles \ Known)
      BY FS_Subset
    <3>2. filesSkipped = 0 => seenFiles \ Known = {}
      BY <3>1, FS_EmptySet DEF FilesBounded
    <3> QED  BY <2>1, <3>2 DEF FilesBounded, Known
  <2>3. \A i \in 1 .. Len(Seeds) : Seeds[i].url \in seenFiles
    BY DEF SeedsSeen
  <2>4. \A i \in Followed : files[i].listed \subseteq seenFiles
    BY DEF Ways, Near
  <2>5. urls \subseteq PagesOf /\ (urlsSkipped = 0 => PagesOf \cap InScope \subseteq urls)
    BY DEF Recorded
  <2> QED  BY <2>2, <2>3, <2>4, <2>5 DEF Collected, PagesOf
<1> QED  BY <1>1, <1>2, <1>3, Typing, FilesInvariant, WaysInvariant, PTL DEF Spec

(* The limits on files and URLs hold while a collection goes on.          *)
THEOREM CollectionIsBounded == Spec => []WithinLimits
<1>1. SitemapsTypeOK /\ FilesBounded /\ URLsBounded => WithinLimits
  BY DEF WithinLimits
<1> QED
  BY <1>1, SitemapsTypeCorrect, FilesAreBounded, URLsAreBounded, PTL
=============================================================================
