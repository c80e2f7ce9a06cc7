------------------------------ MODULE BlobStore ------------------------------
(***************************************************************************)
(* The blob half of the filesystem store, one action per system call that  *)
(* another request can observe.                                            *)
(*                                                                         *)
(* PutBlob writes <path>.tmp, a name every writer of the digest shares,    *)
(* and renames it to <path>.  os.Create truncates whatever file has that   *)
(* name, each writer keeps a descriptor with an offset of its own, and     *)
(* what a writer hashes is the stream it was given, not the file.  A       *)
(* deferred os.Remove(<path>.tmp) ends every call, successful or not.      *)
(* Files are inodes, so that a file can be written or read after its name  *)
(* was renamed, reused or removed.                                         *)
(*                                                                         *)
(* A digest is identified with the bytes it is the hash of: the hash of a  *)
(* stream equals d exactly when the stream is d.  The names of different   *)
(* digests never meet.  A crash is a crash of the process: file contents   *)
(* and names survive it.                                                   *)
(***************************************************************************)
EXTENDS Integers, Files

CONSTANTS
  Digest,   \* digests, as the sequences of bytes they are the hash of
  Writer,   \* goroutines that call PutBlob
  Reader,   \* goroutines that serve GET /v2/{name}/blobs/{digest}
  Inode,    \* files of the blobs/ tree (bound: one per name and descriptor)
  None,     \* no file
  MaxLen    \* bound on the number of chunks in a stream

ASSUME DigestAssumption == Digest \subseteq Seq(Byte)
ASSUME NoneAssumption == None \notin Inode
ASSUME MaxLenAssumption == MaxLen \in Nat

VARIABLES
  data,      \* [Inode -> Seq(Byte)]: file contents
  final,     \* [Digest -> Inode or None]: the file named <path>
  temp,      \* [Digest -> Inode or None]: the file named <path>.tmp
  wpc,       \* [Writer -> WriterState]: where PutBlob is
  want,      \* [Writer -> Digest]: its digest argument
  fd,        \* [Writer -> Inode or None]: tempFile, None once closed
  received,  \* [Writer -> Seq(Byte)]: bytes copied so far; its length is the fd's offset
  rpc,       \* [Reader -> ReaderState]: where the GET handler is
  asked,     \* [Reader -> Digest]: the digest it serves
  rfd,       \* [Reader -> Inode or None]: the file it has open
  rsize,     \* [Reader -> Nat]: the Content-Length it promised
  sent       \* [Reader -> Seq(Byte)]: the body so far

(* History: read by the properties, never by the code's actions. *)
VARIABLES
  alone,     \* [Writer -> BOOLEAN]: no other put of the digest overlapped this call so far
  sound,     \* digests whose current file was installed by a call that ran alone
  fouled,    \* digests where an overlapped put broke off since the last put that ran alone
  leftover,  \* digests with a <path>.tmp that a crash left behind
  trusted    \* [Reader -> BOOLEAN]: the digest was sound at the reader's open and stat

fileVars == <<data, final, temp>>
writerVars == <<wpc, want, fd, received>>
readerVars == <<rpc, asked, rfd, rsize, sent, trusted>>
putHistory == <<alone, sound, fouled, leftover>>
vars == <<fileVars, writerVars, readerVars, putHistory>>

WriterState == {"idle", "copy", "rename", "cleanup"}
ReaderState == {"idle", "open", "size", "body"}

TypeOK ==
  /\ data \in [Inode -> Seq(Byte)]
  /\ final \in [Digest -> Inode \cup {None}]
  /\ temp \in [Digest -> Inode \cup {None}]
  /\ wpc \in [Writer -> WriterState]
  /\ want \in [Writer -> Digest]
  /\ fd \in [Writer -> Inode \cup {None}]
  /\ received \in [Writer -> Seq(Byte)]
  /\ rpc \in [Reader -> ReaderState]
  /\ asked \in [Reader -> Digest]
  /\ rfd \in [Reader -> Inode \cup {None}]
  /\ rsize \in [Reader -> Nat]
  /\ sent \in [Reader -> Seq(Byte)]
  /\ alone \in [Writer -> BOOLEAN]
  /\ sound \in SUBSET Digest
  /\ fouled \in SUBSET Digest
  /\ leftover \in SUBSET Digest
  /\ trusted \in [Reader -> BOOLEAN]

Init ==
  /\ data = [i \in Inode |-> <<>>]
  /\ final = [d \in Digest |-> None]
  /\ temp = [d \in Digest |-> None]
  /\ wpc = [w \in Writer |-> "idle"]
  /\ want \in [Writer -> Digest]
  /\ fd = [w \in Writer |-> None]
  /\ received = [w \in Writer |-> <<>>]
  /\ rpc = [r \in Reader |-> "idle"]
  /\ asked \in [Reader -> Digest]
  /\ rfd = [r \in Reader |-> None]
  /\ rsize = [r \in Reader |-> 0]
  /\ sent = [r \in Reader |-> <<>>]
  /\ alone = [w \in Writer |-> TRUE]
  /\ sound = {}
  /\ fouled = {}
  /\ leftover = {}
  /\ trusted = [r \in Reader |-> FALSE]

(* w is inside a PutBlob of d. *)
Putting(w, d) == wpc[w] # "idle" /\ want[w] = d

(* No name and no descriptor refers to the file: the filesystem reuses it. *)
Free(i) ==
  /\ \A d \in Digest : final[d] # i /\ temp[d] # i
  /\ \A w \in Writer : fd[w] # i
  /\ \A r \in Reader : rfd[r] # i

------------------------------------------------------------------------------
(* Slips of the kind the properties below are there to catch; no action    *)
(* uses them.                                                              *)

(* The content is written to <path> itself once there is such a file. *)
TempFileIsBlob(d) ==
  IF final[d] # None THEN final[d] ELSE CHOOSE i \in Inode : Free(i)

(* An error return before the deferred cleanup was registered. *)
BreakOffUnclean(w) ==
  /\ wpc' = [wpc EXCEPT ![w] = "idle"]
  /\ fouled' = IF alone[w] THEN fouled ELSE fouled \cup {want[w]}

(* The digest of the stream is not compared. *)
CloseUnverified(w) ==
  /\ wpc[w] = "copy"
  /\ fd' = [fd EXCEPT ![w] = None]
  /\ wpc' = [wpc EXCEPT ![w] = "rename"]
  /\ UNCHANGED <<fileVars, want, received, readerVars, putHistory>>

(* Instead of the rename, the bytes are copied into the file at <path>. *)
RenameByCopy(w) ==
  LET d == want[w] IN
  /\ wpc[w] = "rename"
  /\ wpc' = [wpc EXCEPT ![w] = "cleanup"]
  /\ IF temp[d] # None /\ final[d] # None
     THEN data' = [data EXCEPT ![final[d]] = data[temp[d]]] /\ UNCHANGED final
     ELSE final' = [final EXCEPT ![d] = temp[d]] /\ UNCHANGED data
  /\ temp' = [temp EXCEPT ![d] = None]
  /\ sound' = IF alone[w] THEN sound \cup {d} ELSE sound \ {d}
  /\ UNCHANGED <<want, fd, received, readerVars, alone, fouled, leftover>>

(* The Content-Length is the last position of the file. *)
SizeBlobToLast(r) ==
  LET d == asked[r] IN
  /\ rpc[r] = "size"
  /\ final[d] # None
  /\ rpc' = [rpc EXCEPT ![r] = "body"]
  /\ rsize' = [rsize EXCEPT ![r] = Len(data[final[d]]) - 1]
  /\ trusted' = [trusted EXCEPT ![r] = @ /\ d \in sound]
  /\ UNCHANGED <<fileVars, writerVars, asked, rfd, sent, putHistory>>

------------------------------------------------------------------------------
(* The file os.Create(tempPath) opens: the one of that name, or a new one  *)
(* (files are interchangeable, so any free one stands for all).            *)
TempFile(d) ==
  IF temp[d] # None THEN temp[d] ELSE CHOOSE i \in Inode : Free(i)

Create(w, d) ==
  LET others == {v \in Writer \ {w} : Putting(v, d)} IN
  /\ wpc[w] = "idle"
  /\ temp[d] # None \/ \E i \in Inode : Free(i)
  /\ temp' = [temp EXCEPT ![d] = TempFile(d)]
  /\ fd' = [fd EXCEPT ![w] = TempFile(d)]
  /\ data' = [data EXCEPT ![TempFile(d)] = <<>>]
  /\ wpc' = [wpc EXCEPT ![w] = "copy"]
  /\ want' = [want EXCEPT ![w] = d]
  /\ received' = [received EXCEPT ![w] = <<>>]
  /\ alone' = [v \in Writer |-> CASE v = w -> others = {}
                                  [] v \in others -> FALSE
                                  [] OTHER -> alone[v]]
  /\ leftover' = leftover \ {d}
  /\ UNCHANGED <<final, sound, fouled, readerVars>>

(* io.Copy moves a chunk to the file and to the hasher. *)
Copy(w, b) ==
  /\ wpc[w] = "copy"
  /\ Len(received[w]) < MaxLen
  /\ data' = [data EXCEPT ![fd[w]] = WriteAt(@, Len(received[w]), b)]
  /\ received' = [received EXCEPT ![w] = Append(@, b)]
  /\ UNCHANGED <<final, temp, wpc, want, fd, readerVars, putHistory>>

(* The call breaks off after some of its bytes reached the file. *)
BreakOff(w) ==
  /\ wpc' = [wpc EXCEPT ![w] = "cleanup"]
  /\ fouled' = IF alone[w] THEN fouled ELSE fouled \cup {want[w]}

(* The reader of the content fails, or a write does. *)
CopyFails(w) ==
  /\ wpc[w] = "copy"
  /\ BreakOff(w)
  /\ UNCHANGED <<fileVars, want, fd, received, readerVars, alone, sound, leftover>>

(* End of the stream: close the file, compare the stream's digest. *)
CloseAndVerify(w) ==
  /\ wpc[w] = "copy"
  /\ fd' = [fd EXCEPT ![w] = None]
  /\ IF received[w] = want[w]
     THEN /\ wpc' = [wpc EXCEPT ![w] = "rename"]
          /\ UNCHANGED fouled
     ELSE BreakOff(w)
  /\ UNCHANGED <<fileVars, want, received, readerVars, alone, sound, leftover>>

(* os.Rename(tempPath, path): it moves whatever file has the name now, and *)
(* fails when there is none.                                               *)
Rename(w) ==
  LET d == want[w] IN
  /\ wpc[w] = "rename"
  /\ wpc' = [wpc EXCEPT ![w] = "cleanup"]
  /\ IF temp[d] = None
     THEN UNCHANGED <<final, temp, sound, fouled>>
     ELSE /\ final' = [final EXCEPT ![d] = temp[d]]
          /\ temp' = [temp EXCEPT ![d] = None]
          /\ sound' = IF alone[w] THEN sound \cup {d} ELSE sound \ {d}
          /\ fouled' = IF alone[w] THEN fouled \ {d} ELSE fouled
  /\ UNCHANGED <<data, want, fd, received, readerVars, alone, leftover>>

(* The deferred tempFile.Close and os.Remove(tempPath); PutBlob returns. *)
Cleanup(w) ==
  /\ wpc[w] = "cleanup"
  /\ wpc' = [wpc EXCEPT ![w] = "idle"]
  /\ fd' = [fd EXCEPT ![w] = None]
  /\ temp' = [temp EXCEPT ![want[w]] = None]
  /\ received' = [received EXCEPT ![w] = <<>>]
  /\ alone' = [alone EXCEPT ![w] = TRUE]
  /\ UNCHANGED <<data, final, want, readerVars, sound, fouled, leftover>>

(* DELETE /v2/{name}/blobs/{digest}: os.Remove(path) after the handler saw *)
(* the blob.                                                               *)
DeleteBlob(d) ==
  /\ final[d] # None
  /\ final' = [final EXCEPT ![d] = None]
  /\ UNCHANGED <<data, temp, writerVars, readerVars, putHistory>>
------------------------------------------------------------------------------
(* GET: os.Stat, os.Open, os.Stat again for the Content-Length, then the   *)
(* body is read through the descriptor.                                    *)

(* BlobExists answered true (a 404 changes nothing). *)
StatBlob(r, d) ==
  /\ rpc[r] = "idle"
  /\ final[d] # None
  /\ rpc' = [rpc EXCEPT ![r] = "open"]
  /\ asked' = [asked EXCEPT ![r] = d]
  /\ UNCHANGED <<fileVars, writerVars, rfd, rsize, sent, trusted, putHistory>>

(* GetBlob: the handler answers 500 when the file is gone by now. *)
OpenBlob(r) ==
  LET d == asked[r] IN
  /\ rpc[r] = "open"
  /\ rpc' = [rpc EXCEPT ![r] = IF final[d] = None THEN "idle" ELSE "size"]
  /\ rfd' = [rfd EXCEPT ![r] = final[d]]
  /\ trusted' = [trusted EXCEPT ![r] = d \in sound /\ final[d] # None]
  /\ UNCHANGED <<fileVars, writerVars, asked, rsize, sent, putHistory>>

(* GetBlobSize looks the name up again, and may meet another file. *)
SizeBlob(r) ==
  LET d == asked[r] IN
  /\ rpc[r] = "size"
  /\ IF final[d] = None
     THEN /\ rpc' = [rpc EXCEPT ![r] = "idle"]
          /\ rfd' = [rfd EXCEPT ![r] = None]
          /\ trusted' = [trusted EXCEPT ![r] = FALSE]
          /\ UNCHANGED rsize
     ELSE /\ rpc' = [rpc EXCEPT ![r] = "body"]
          /\ rsize' = [rsize EXCEPT ![r] = Len(data[final[d]])]
          /\ trusted' = [trusted EXCEPT ![r] = @ /\ d \in sound]
          /\ UNCHANGED rfd
  /\ UNCHANGED <<fileVars, writerVars, asked, sent, putHistory>>

(* io.Copy(w, reader) reads on from the descriptor's offset. *)
SendChunk(r) ==
  LET file == data[rfd[r]] IN
  /\ rpc[r] = "body"
  /\ Len(sent[r]) < Len(file)
  /\ sent' = [sent EXCEPT ![r] = Append(@, file[Len(@) + 1])]
  /\ UNCHANGED <<fileVars, writerVars, rpc, asked, rfd, rsize, trusted, putHistory>>

(* End of the file, or the client went away: the descriptor is closed. *)
EndBody(r) ==
  /\ rpc[r] = "body"
  /\ rpc' = [rpc EXCEPT ![r] = "idle"]
  /\ rfd' = [rfd EXCEPT ![r] = None]
  /\ sent' = [sent EXCEPT ![r] = <<>>]
  /\ rsize' = [rsize EXCEPT ![r] = 0]
  /\ trusted' = [trusted EXCEPT ![r] = FALSE]
  /\ UNCHANGED <<fileVars, writerVars, asked, putHistory>>

(* The process dies and is restarted: goroutines and descriptors are gone, *)
(* files and names stay.                                                   *)
Crash ==
  /\ \/ \E w \in Writer : wpc[w] # "idle"
     \/ \E r \in Reader : rpc[r] # "idle"
  /\ wpc' = [w \in Writer |-> "idle"]
  /\ fd' = [w \in Writer |-> None]
  /\ rpc' = [r \in Reader |-> "idle"]
  /\ rfd' = [r \in Reader |-> None]
  /\ rsize' = [r \in Reader |-> 0]
  /\ sent' = [r \in Reader |-> <<>>]
  /\ trusted' = [r \in Reader |-> FALSE]
  /\ fouled' = fouled \cup {want[w] : w \in {v \in Writer : wpc[v] = "copy" /\ ~alone[v]}}
  /\ leftover' = {d \in Digest : temp[d] # None}
  /\ received' = [w \in Writer |-> <<>>]
  /\ alone' = [w \in Writer |-> TRUE]
  /\ UNCHANGED <<fileVars, want, asked, sound>>

Next ==
  \/ \E w \in Writer, d \in Digest : Create(w, d)
  \/ \E w \in Writer, b \in Byte : Copy(w, b)
  \/ \E w \in Writer : CopyFails(w)
  \/ \E w \in Writer : CloseAndVerify(w)
  \/ \E w \in Writer : Rename(w)
  \/ \E w \in Writer : Cleanup(w)
  \/ \E d \in Digest : DeleteBlob(d)
  \/ \E r \in Reader, d \in Digest : StatBlob(r, d)
  \/ \E r \in Reader : OpenBlob(r)
  \/ \E r \in Reader : SizeBlob(r)
  \/ \E r \in Reader : SendChunk(r)
  \/ \E r \in Reader : EndBody(r)
  \/ Crash

Spec == Init /\ [][Next]_vars
------------------------------------------------------------------------------
(* A put that ran alone installs the digest's bytes and nothing damages    *)
(* the file later: not a later writer that shares the temporary name, not  *)
(* one that breaks off, not a file a crash left behind (PutBlob,           *)
(* store.go:113-141).                                                      *)
SoloPutIntegrity ==
  \A d \in sound : final[d] # None => data[final[d]] = d

(* A put that verified its stream and ran alone so far finds its own       *)
(* file under the temporary name, complete: its rename cannot fail and     *)
(* cannot move foreign bytes (store.go:133-141).                           *)
SoloPutSucceeds ==
  \A w \in Writer : wpc[w] = "rename" /\ alone[w] =>
     /\ temp[want[w]] # None
     /\ data[temp[want[w]]] = want[w]

(* Overlapping puts of one digest may expose a torn file for a while, but  *)
(* once they are over the blob is whole, unless one of those that          *)
(* overlapped broke off: the last truncation of any file is followed by    *)
(* the whole stream of the writer that truncated it.                       *)
QuietBlobIntact ==
  \A d \in Digest \ fouled :
     final[d] # None /\ (\A w \in Writer : ~Putting(w, d)) => data[final[d]] = d

(* No temporary file outlives the calls that use it, except across a       *)
(* crash, until the next put of the digest (deferred os.Remove,            *)
(* store.go:115-118).                                                      *)
NoStrayTemp ==
  \A d \in Digest : temp[d] # None =>
     d \in leftover \/ \E w \in Writer : Putting(w, d)

(* A GET that opened a blob installed by a put that ran alone sends its    *)
(* bytes and no others, under the right Content-Length, even if the blob   *)
(* is deleted or put again meanwhile (handlers/blobs.go:47-75).            *)
TrustedBody ==
  \A r \in Reader : rpc[r] = "body" /\ trusted[r] =>
     /\ data[rfd[r]] = asked[r]
     /\ rsize[r] = Len(asked[r])
     /\ sent[r] = SubSeq(asked[r], 1, Len(sent[r]))

(* The README's "Digest verification for all blob operations": what is     *)
(* found under a digest has that digest.  Overlapping puts refute it.      *)
BlobIntegrity ==
  \A d \in Digest : final[d] # None => data[final[d]] = d
------------------------------------------------------------------------------
(* What a GET of each digest would return. *)
Served == [d \in Digest |-> IF final[d] = None THEN None ELSE data[final[d]]]

(* The same of the blobs that a put that ran alone installed. *)
SoundContent == [d \in Digest |-> IF d \in sound THEN Served[d] ELSE None]

Abstract == INSTANCE ContentStore WITH Absent <- None, blobs <- SoundContent

(* The sound blobs form a content-addressed store: each appears at once    *)
(* and whole and is only ever replaced by itself or removed, whatever else *)
(* is put, breaks off, is deleted or crashes (PutBlob, DeleteBlob).        *)
ImplementsContentStore == Abstract!Spec

(* The environment in which no two puts of one digest ever overlap: there  *)
(* every blob is sound.                                                    *)
SerialSpec == Init /\ [][Next /\ \A w \in Writer : alone'[w]]_vars
=============================================================================
