---------------------------- MODULE ManifestStore ----------------------------
(***************************************************************************)
(* The manifests of one repository: the handlers that put, get and delete  *)
(* a manifest, and the directory of the filesystem store they share.       *)
(*                                                                         *)
(* A manifest put under a tag is written twice, to the file of the tag and *)
(* to the file of its digest.  Each time os.WriteFile truncates or creates *)
(* <name>.tmp and writes it with one call, and os.Rename moves it to       *)
(* <name>; every put of a name uses the same temporary name, and nothing   *)
(* removes it when a step fails.  Before that the handler looks for the    *)
(* blobs the manifest names, one after the other.                          *)
(*                                                                         *)
(* A Manifest is a document as the handler has parsed and completed it: a  *)
(* body without a media type gets that of the Content-Type header.  The    *)
(* digest is of the bytes that were sent, so that two manifests may have   *)
(* one digest, DigestOf[m].  What the store keeps is what json.Marshal     *)
(* makes of the document, Marshal[m].                                      *)
(***************************************************************************)
EXTENDS Naturals, Sequences

CONSTANTS
  Tag,        \* references that are tags
  Digest,     \* references that are digests
  Manifest,   \* documents, with the media type of the request in them
  DigestOf,   \* [Manifest -> Digest]: of the body as it was received
  Byte,       \* what a file is made of
  Marshal,    \* [Manifest -> Seq(Byte)]: the document as it is stored
  Blob,       \* digests of blobs
  Layers,     \* [Manifest -> Seq(Blob)]: its config and its layers
  Request,    \* puts that clients send: pairs of a reference and a document
  Writer,     \* goroutines that serve PUT
  Reader,     \* goroutines that serve GET
  Inode,      \* files (bound)
  None        \* no file, no manifest

ASSUME MarshalAssumption == Marshal \in [Manifest -> Seq(Byte)]
ASSUME LayersAssumption == Layers \in [Manifest -> Seq(Blob)]
ASSUME DigestAssumption == DigestOf \in [Manifest -> Digest]
ASSUME ReferenceAssumption == Tag \cap Digest = {}
ASSUME NoneAssumption == None \notin Inode \cup Manifest

Ref == Tag \cup Digest

ASSUME RequestAssumption == Request \subseteq Ref \X Manifest

VARIABLES
  content,   \* [Inode -> Seq(Byte)]
  final,     \* [Ref -> Inode or None]: the file named after the reference
  temp,      \* [Ref -> Inode or None]: the same with .tmp
  blobs,     \* blobs the store has
  pc,        \* [Writer -> WriterState]
  doc,       \* [Writer -> Manifest]: the body of the request
  checked,   \* [Writer -> Nat]: how many of its blobs were found
  name,      \* [Writer -> Ref]: the reference of the request, later the name being written
  fd,        \* [Writer -> Inode or None]: the file being written
  asked,     \* [Reader -> Ref]
  rfd        \* [Reader -> Inode or None]: the file being read

(* History, for the properties. *)
VARIABLES
  alone,     \* [Writer -> BOOLEAN]: no other put of the name since the file was opened
  by,        \* [Ref -> Manifest or None]: what a put that ran alone installed
  spoilt,    \* digests under which a write broke off, different documents met, another
             \* body's was written or the file was deleted, and no put alone came since
  robbed,    \* writers one of whose blobs was deleted after they had found it
  bereft,    \* references whose manifest lost a blob that its put had found
  expected   \* [Reader -> Manifest or None]: what by said when the file was opened

dirVars == <<content, final, temp>>
requestVars == <<doc, checked>>
readerVars == <<asked, rfd, expected>>
history == <<alone, by, spoilt, robbed, bereft>>
vars == <<dirVars, blobs, pc, requestVars, name, fd, readerVars, history>>

WriterState == {"idle", "check", "open", "write", "rename"}

TypeOK ==
  /\ content \in [Inode -> Seq(Byte)]
  /\ final \in [Ref -> Inode \cup {None}] /\ temp \in [Ref -> Inode \cup {None}]
  /\ blobs \in SUBSET Blob
  /\ pc \in [Writer -> WriterState]
  /\ name \in [Writer -> Ref]
  /\ doc \in [Writer -> Manifest]
  /\ checked \in [Writer -> Nat]
  /\ \A w \in Writer : checked[w] <= Len(Layers[doc[w]])
  /\ fd \in [Writer -> Inode \cup {None}]
  /\ asked \in [Reader -> Ref]
  /\ rfd \in [Reader -> Inode \cup {None}]
  /\ alone \in [Writer -> BOOLEAN]
  /\ by \in [Ref -> Manifest \cup {None}]
  /\ spoilt \in SUBSET Digest
  /\ robbed \in SUBSET Writer /\ bereft \in SUBSET Ref
  /\ expected \in [Reader -> Manifest \cup {None}]

Init ==
  /\ content = [i \in Inode |-> <<>>]
  /\ final = [n \in Ref |-> None] /\ temp = [n \in Ref |-> None]
  /\ blobs = {}
  /\ pc = [w \in Writer |-> "idle"]
  /\ name \in [Writer -> Ref]
  /\ doc \in [Writer -> Manifest]
  /\ checked = [w \in Writer |-> 0]
  /\ fd = [w \in Writer |-> None]
  /\ asked \in [Reader -> Ref]
  /\ rfd = [r \in Reader |-> None]
  /\ alone = [w \in Writer |-> TRUE]
  /\ by = [n \in Ref |-> None]
  /\ spoilt = {} /\ robbed = {} /\ bereft = {}
  /\ expected = [r \in Reader |-> None]

Goto(w, label) == pc' = [pc EXCEPT ![w] = label]

(* w is between the opening of n's temporary file and its renaming. *)
Writing(w, n) == pc[w] \in {"write", "rename"} /\ name[w] = n

(* w has come to the writing of n. *)
Storing(w, n) == pc[w] \in {"open", "write", "rename"} /\ name[w] = n

(* The file has no name and nobody has it open. *)
Free(i) ==
  /\ \A n \in Ref : final[n] # i /\ temp[n] # i
  /\ \A w \in Writer : fd[w] # i
  /\ \A r \in Reader : rfd[r] # i

(* A file of these contents after new was written from its beginning. *)
Overwrite(old, new) == new \o SubSeq(old, Len(new) + 1, Len(old))
------------------------------------------------------------------------------
(* Slips for the properties below to catch; no action uses them. *)

(* The last layer is not looked for. *)
CheckBlobAllButLast(w) ==
  /\ pc[w] = "check"
  /\ IF checked[w] + 1 >= Len(Layers[doc[w]])
     THEN Goto(w, "open") /\ UNCHANGED checked
     ELSE IF Layers[doc[w]][checked[w] + 1] \in blobs
          THEN checked' = [checked EXCEPT ![w] = @ + 1] /\ UNCHANGED pc
          ELSE Goto(w, "idle") /\ UNCHANGED checked
  /\ UNCHANGED <<dirVars, blobs, doc, name, fd, readerVars, history>>

(* It is looked for once too often. *)
CheckBlobBeyond(w) ==
  /\ pc[w] = "check"
  /\ IF checked[w] > Len(Layers[doc[w]])
     THEN Goto(w, "open") /\ UNCHANGED checked
     ELSE checked' = [checked EXCEPT ![w] = @ + 1] /\ UNCHANGED pc
  /\ UNCHANGED <<dirVars, blobs, doc, name, fd, readerVars, history>>

(* The file is written in place when it exists. *)
TempFileInPlace(n) ==
  IF final[n] # None THEN final[n]
  ELSE IF temp[n] # None THEN temp[n]
  ELSE CHOOSE i \in Inode : Free(i)

(* Success is reported after the tag was written. *)
RenameTagOnly(w) ==
  LET n == name[w] IN
  /\ pc[w] = "rename"
  /\ temp[n] # None
  /\ final' = [final EXCEPT ![n] = temp[n]]
  /\ temp' = [temp EXCEPT ![n] = None]
  /\ by' = [by EXCEPT ![n] = IF alone[w] THEN doc[w] ELSE None]
  /\ bereft' = IF w \in robbed THEN bereft \cup {n} ELSE bereft \ {n}
  /\ Goto(w, "idle")
  /\ UNCHANGED <<content, blobs, requestVars, name, fd, readerVars, alone, spoilt, robbed>>
------------------------------------------------------------------------------
(* PUT: the body was read and parsed, and its media type completed. *)
BeginPut(w, n, m) ==
  /\ pc[w] = "idle"
  /\ Goto(w, "check")
  /\ doc' = [doc EXCEPT ![w] = m]
  /\ checked' = [checked EXCEPT ![w] = 0]
  /\ name' = [name EXCEPT ![w] = n]
  /\ robbed' = robbed \ {w}
  /\ UNCHANGED <<dirVars, blobs, fd, readerVars, alone, by, spoilt, bereft>>

(* verifyManifestBlobs looks for the next blob: 400 if it is not there. *)
CheckBlob(w) ==
  LET rest == SubSeq(Layers[doc[w]], checked[w] + 1, Len(Layers[doc[w]])) IN
  /\ pc[w] = "check"
  /\ \/ /\ rest = <<>>
        /\ Goto(w, "open")
        /\ UNCHANGED checked
     \/ /\ rest # <<>> /\ Head(rest) \in blobs
        /\ checked' = [checked EXCEPT ![w] = @ + 1]
        /\ UNCHANGED pc
     \/ /\ rest # <<>> /\ Head(rest) \notin blobs
        /\ Goto(w, "idle")
        /\ UNCHANGED checked
  /\ UNCHANGED <<dirVars, blobs, doc, name, fd, readerVars, history>>

(* The file that os.WriteFile(tempPath) truncates or creates. *)
TempFile(n) == IF temp[n] # None THEN temp[n] ELSE CHOOSE i \in Inode : Free(i)

OpenTemp(w) ==
  LET n == name[w]
      others == {v \in Writer \ {w} : Writing(v, n)}
  IN
  /\ pc[w] = "open"
  /\ temp[n] # None \/ \E i \in Inode : Free(i)
  /\ Goto(w, "write")
  /\ temp' = [temp EXCEPT ![n] = TempFile(n)]
  /\ fd' = [fd EXCEPT ![w] = TempFile(n)]
  /\ content' = [content EXCEPT ![TempFile(n)] = <<>>]
  /\ alone' = [v \in Writer |-> CASE v = w -> others = {}
                                  [] v \in others -> FALSE
                                  [] OTHER -> alone[v]]
  /\ spoilt' = IF n \in Digest /\ (DigestOf[doc[w]] # n \/ \E v \in others : doc[v] # doc[w])
                THEN spoilt \cup {n} ELSE spoilt
  /\ UNCHANGED <<final, blobs, requestVars, name, readerVars, by, robbed, bereft>>

Write(w) ==
  /\ pc[w] = "write"
  /\ Goto(w, "rename")
  /\ content' = [content EXCEPT ![fd[w]] = Overwrite(@, Marshal[doc[w]])]
  /\ fd' = [fd EXCEPT ![w] = None]
  /\ UNCHANGED <<final, temp, blobs, requestVars, name, readerVars, history>>

(* The disk is full after k bytes: 500, and the temporary file stays. *)
WriteFails(w) ==
  /\ pc[w] = "write"
  /\ Goto(w, "idle")
  /\ \E k \in 0 .. Len(Marshal[doc[w]]) - 1 :
       content' = [content EXCEPT ![fd[w]] = Overwrite(@, SubSeq(Marshal[doc[w]], 1, k))]
  /\ fd' = [fd EXCEPT ![w] = None]
  /\ spoilt' = spoilt \cup (Digest \cap {name[w]})
  /\ UNCHANGED <<final, temp, blobs, requestVars, name, readerVars, alone, by, robbed, bereft>>

(* Whatever file has the temporary name takes the place of the last one;   *)
(* 500 if there is none.  After the tag comes the digest; after the digest *)
(* 201.                                                                    *)
Rename(w) ==
  LET n == name[w] IN
  /\ pc[w] = "rename"
  /\ \/ /\ temp[n] = None
        /\ Goto(w, "idle")
        /\ UNCHANGED <<final, temp, name, by, spoilt, bereft>>
     \/ /\ temp[n] # None
        /\ final' = [final EXCEPT ![n] = temp[n]]
        /\ temp' = [temp EXCEPT ![n] = None]
        /\ by' = [by EXCEPT ![n] = IF alone[w] THEN doc[w] ELSE None]
        /\ Goto(w, IF n \in Tag THEN "open" ELSE "idle")
        /\ name' = [name EXCEPT ![w] = IF n \in Tag THEN DigestOf[doc[w]] ELSE n]
        /\ spoilt' = IF alone[w] /\ n = DigestOf[doc[w]] THEN spoilt \ {n} ELSE spoilt
        /\ bereft' = IF w \in robbed THEN bereft \cup {n} ELSE bereft \ {n}
  /\ UNCHANGED <<content, blobs, requestVars, fd, readerVars, alone, robbed>>

(* DELETE of a reference that is there: the one file of that name. *)
DeleteManifest(n) ==
  /\ final[n] # None
  /\ final' = [final EXCEPT ![n] = None]
  /\ by' = [by EXCEPT ![n] = None]
  /\ spoilt' = spoilt \cup (Digest \cap {n})
  /\ UNCHANGED <<content, temp, blobs, pc, requestVars, name, fd, readerVars, alone, robbed,
                 bereft>>

(* os.ReadFile opens the file, ... *)
OpenManifest(r, n) ==
  /\ rfd[r] = None
  /\ final[n] # None
  /\ asked' = [asked EXCEPT ![r] = n]
  /\ rfd' = [rfd EXCEPT ![r] = final[n]]
  /\ expected' = [expected EXCEPT ![r] = by[n]]
  /\ UNCHANGED <<dirVars, blobs, pc, requestVars, name, fd, history>>

(* ... and reads it; what does not parse is answered 500. *)
ReadManifest(r) ==
  /\ rfd[r] # None
  /\ rfd' = [rfd EXCEPT ![r] = None]
  /\ expected' = [expected EXCEPT ![r] = None]
  /\ UNCHANGED <<dirVars, blobs, pc, requestVars, name, fd, asked, history>>

(* The blob store, as far as manifests depend on it. *)
BlobArrives(b) ==
  /\ b \notin blobs
  /\ blobs' = blobs \cup {b}
  /\ UNCHANGED <<dirVars, pc, requestVars, name, fd, readerVars, history>>

BlobDeleted(b) ==
  /\ b \in blobs
  /\ blobs' = blobs \ {b}
  /\ robbed' = robbed \cup {w \in Writer : \E k \in 1 .. checked[w] : Layers[doc[w]][k] = b}
  /\ bereft' = bereft \cup {n \in Ref : /\ by[n] # None
                                       /\ \E k \in 1 .. Len(Layers[by[n]]) : Layers[by[n]][k] = b}
  /\ UNCHANGED <<dirVars, pc, requestVars, name, fd, readerVars, alone, by, spoilt>>

(* The process dies: requests are gone, files and names stay. *)
Crash ==
  /\ \/ \E w \in Writer : pc[w] # "idle"
     \/ \E r \in Reader : rfd[r] # None
  /\ pc' = [w \in Writer |-> "idle"]
  /\ fd' = [w \in Writer |-> None]
  /\ rfd' = [r \in Reader |-> None]
  /\ expected' = [r \in Reader |-> None]
  /\ spoilt' = spoilt \cup {d \in Digest : \E w \in Writer : Storing(w, d)}
  /\ UNCHANGED <<dirVars, blobs, requestVars, name, asked, alone, by, robbed, bereft>>

Next ==
  \/ \E w \in Writer, q \in Request : BeginPut(w, q[1], q[2])
  \/ \E w \in Writer : CheckBlob(w) \/ OpenTemp(w) \/ Write(w) \/ WriteFails(w) \/ Rename(w)
  \/ \E n \in Ref : DeleteManifest(n)
  \/ \E r \in Reader, n \in Ref : OpenManifest(r, n)
  \/ \E r \in Reader : ReadManifest(r)
  \/ \E b \in Blob : BlobArrives(b) \/ BlobDeleted(b)
  \/ Crash

Spec == Init /\ [][Next]_vars
------------------------------------------------------------------------------
(* A GET that opened a manifest which a put installed without another put  *)
(* of the reference around reads it whole, whatever overlapped, failed or  *)
(* crashed since, and even if the reference is put again or deleted before *)
(* the read (writeManifestFile, store.go:233-251; GetManifest, 186).       *)
SoloGet ==
  \A r \in Reader : expected[r] # None => content[rfd[r]] = Marshal[expected[r]]

(* "If storing by tag, also store by digest for retrieval" (store.go:221): *)
(* once nobody is writing there, the digest of a tag's manifest has a      *)
(* file, with a whole manifest of that digest (of the same body; another   *)
(* request may have given it another media type, manifests.go:152).  So it *)
(* is even if puts of the manifest overlapped and some failed at the       *)
(* rename - unless, since the last put of the digest that had no rival, a  *)
(* write there broke off, overlapping puts brought different documents,    *)
(* another body was put there, or the digest was deleted.                  *)
TagHasManifest ==
  \A t \in Tag : by[t] # None => LET d == DigestOf[by[t]] IN
     /\ d \notin spoilt
     /\ \A w \in Writer : ~Storing(w, d)
     => /\ final[d] # None
        /\ \E m \in Manifest : DigestOf[m] = d /\ content[final[d]] = Marshal[m]

(* A manifest that can be pulled has its config and all its layers, unless *)
(* a DELETE took one of them after the put had found it: each is looked    *)
(* for before anything is written (verifyManifestBlobs,                    *)
(* manifests.go:164-168).  Blobs that were gone before that are missed.    *)
ManifestComplete ==
  \A n \in Ref \ bereft : by[n] # None =>
     \A k \in 1 .. Len(Layers[by[n]]) : Layers[by[n]][k] \in blobs

(* "writeManifestFile writes manifest data to a file atomically"           *)
(* (store.go:232): a file with the name of a reference is a whole          *)
(* manifest.                                                               *)
WrittenAtomically ==
  \A n \in Ref : final[n] # None => \E m \in Manifest : content[final[n]] = Marshal[m]

(* What of the files can be relied on, and what the requests are about to do. *)
Got == [n \in Ref |-> IF by[n] # None THEN content[final[n]] ELSE None]
Reading == [r \in Reader |-> IF expected[r] # None THEN content[rfd[r]] ELSE None]
Wanted == {<<name[w], doc[w]>> : w \in {v \in Writer : pc[v] # "idle"}}

Table == INSTANCE ManifestTable
         WITH Stored <- Marshal, Nothing <- None, table <- Got, wanted <- Wanted,
              reading <- Reading

(* The two writes and renames of a put, and the open and read of a get,    *)
(* are like steps of a table: under a reference there is what a put asked  *)
(* for, from its rename on, and a get that found it answers with it, as    *)
(* long as no puts of the reference overlap, and however others fail, are  *)
(* deleted or crash (PutManifest, GetManifest, DeleteManifest, store.go).  *)
ImplementsManifestTable == Table!Spec

(* The environment in which no two puts of one reference ever overlap. *)
SerialSpec == Init /\ [][Next /\ \A w \in Writer : alone'[w]]_vars
=============================================================================
