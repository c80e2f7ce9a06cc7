---------------------------- MODULE UploadSession ----------------------------
(***************************************************************************)
(* Chunked uploads: the handlers of POST, PATCH, PUT and DELETE on an      *)
(* upload, the session table of the filesystem store and the file each     *)
(* session writes.                                                         *)
(*                                                                         *)
(* Each request is a goroutine.  PATCH reads the session's offset, compares *)
(* it with the one the client asked for, writes the body to the file and    *)
(* then sets the offset; nothing holds a lock from the first to the last.   *)
(* PUT writes a last chunk wherever its Content-Range says, then reads the *)
(* file from the start and stores what it read if the digest agrees.       *)
(* GET only reads the offset, and is left out.                             *)
(* A session lives in memory only: a restart forgets it and leaves its     *)
(* file.  As in BlobStore a digest is the sequence of bytes it is the hash *)
(* of; the store of finished blobs appears here by its promise, a set.     *)
(***************************************************************************)
EXTENDS Integers, Files

CONSTANTS
  Digest,    \* digests clients complete an upload with
  Session,   \* upload ids; uuid.New never returns one twice
  Request,   \* goroutines that serve PATCH and PUT
  MaxLen     \* bound on the length of a file

ASSUME DigestAssumption == Digest \subseteq Seq(Byte)
ASSUME MaxLenAssumption == MaxLen \in Nat

VARIABLES
  used,      \* ids handed out
  live,      \* ids in the uploads table
  named,     \* ids whose file is still in the uploads directory
  data,      \* [Session -> Seq(Byte)]: the file, which open descriptors outlive
  offset,    \* [Session -> Nat]: Upload.offset
  blobs,     \* digests of the blobs stored by completed uploads
  pc,        \* [Request -> RequestState]
  sid,       \* [Request -> Session]: the uuid of the request
  method,    \* [Request -> {"PATCH", "PUT"}]
  range,     \* [Request -> RangeHeader]: the Content-Range of a PUT's body
  at,        \* [Request -> Nat]: where the chunk is written
  body,      \* [Request -> Seq(Byte)]: bytes of the chunk written so far
  digest,    \* [Request -> Digest]: the digest parameter of a PUT
  got        \* [Request -> Seq(Byte)]: what PutBlob has read from the file

(* History, for the properties. *)
VARIABLES
  stored,    \* [Session -> Seq(Byte)]: the chunks written in full, while all is InOrder
  covered,   \* [Session -> SUBSET Nat]: positions that an accepted PATCH wrote
  overlapped,\* sessions on which two requests have overlapped
  misplaced, \* sessions to which a PUT wrote elsewhere than at the offset
  broken     \* sessions a chunk of which broke off

tableVars == <<used, live, named>>
fileVars == <<data, offset>>
requestVars == <<sid, method, range, digest>>
history == <<stored, covered, overlapped, misplaced, broken>>
vars == <<tableVars, fileVars, blobs, pc, requestVars, at, body, got, history>>

RequestState == {"idle", "open", "copy", "reply", "complete", "read", "finish"}
RangeHeader == {"none", "start", "malformed"}

TypeOK ==
  /\ used \in SUBSET Session /\ live \in SUBSET used /\ named \in SUBSET used
  /\ data \in [Session -> Seq(Byte)]
  /\ offset \in [Session -> Nat]
  /\ blobs \in SUBSET Digest
  /\ pc \in [Request -> RequestState]
  /\ sid \in [Request -> Session]
  /\ method \in [Request -> {"PATCH", "PUT"}]
  /\ range \in [Request -> RangeHeader]
  /\ at \in [Request -> Nat]
  /\ body \in [Request -> Seq(Byte)]
  /\ digest \in [Request -> Digest]
  /\ got \in [Request -> Seq(Byte)]
  /\ stored \in [Session -> Seq(Byte)]
  /\ covered \in [Session -> SUBSET Nat]
  /\ {overlapped, misplaced, broken} \subseteq SUBSET Session

Init ==
  /\ used = {} /\ live = {} /\ named = {} /\ blobs = {}
  /\ data = [s \in Session |-> <<>>]
  /\ offset = [s \in Session |-> 0]
  /\ pc = [r \in Request |-> "idle"]
  /\ sid \in [Request -> Session]
  /\ method = [r \in Request |-> "PATCH"]
  /\ range = [r \in Request |-> "none"]
  /\ at = [r \in Request |-> 0]
  /\ body = [r \in Request |-> <<>>]
  /\ digest \in [Request -> Digest]
  /\ got = [r \in Request |-> <<>>]
  /\ stored = [s \in Session |-> <<>>]
  /\ covered = [s \in Session |-> {}]
  /\ overlapped = {} /\ misplaced = {} /\ broken = {}

(* A request works on s. *)
Busy(s) == \E r \in Request : pc[r] # "idle" /\ sid[r] = s

(* The session was used as a client that waits for every answer and        *)
(* continues at the offset would.                                          *)
InOrder(s) == s \notin overlapped \cup misplaced

(* What r wrote, as positions of the file. *)
Positions(r) == {at[r] + k : k \in 0 .. Len(body[r]) - 1}

Goto(r, label) == pc' = [pc EXCEPT ![r] = label]

(* r is now a request on s. *)
Begin(r, s, m, label) ==
  /\ pc[r] = "idle"
  /\ s \in live
  /\ Goto(r, label)
  /\ sid' = [sid EXCEPT ![r] = s]
  /\ method' = [method EXCEPT ![r] = m]
  /\ body' = [body EXCEPT ![r] = <<>>]
  /\ got' = [got EXCEPT ![r] = <<>>]
  /\ overlapped' = IF Busy(s) THEN overlapped \cup {s} ELSE overlapped
------------------------------------------------------------------------------
(* Slips for the properties below to catch; no action uses them. *)

(* The offset a PATCH asks for is not compared with the session's. *)
BeginPatchUnchecked(r, s) ==
  /\ Begin(r, s, "PATCH", "open")
  /\ \E k \in 0 .. MaxLen : at' = [at EXCEPT ![r] = k]
  /\ UNCHANGED <<tableVars, fileVars, blobs, range, digest, stored, covered,
                 misplaced, broken>>

(* The file is opened with os.Create. *)
OpenFileTruncating(r) ==
  /\ pc[r] = "open"
  /\ IF sid[r] \in live \cap named
     THEN Goto(r, "copy") /\ data' = [data EXCEPT ![sid[r]] = <<>>]
     ELSE Goto(r, "idle") /\ UNCHANGED data
  /\ UNCHANGED <<tableVars, offset, blobs, requestVars, at, body, got, history>>

(* The bytes of a chunk that broke off are counted. *)
CopyFailsCounting(r) ==
  LET s == sid[r] IN
  /\ pc[r] = "copy"
  /\ Goto(r, "idle")
  /\ offset' = [offset EXCEPT ![s] = at[r] + Len(body[r])]
  /\ broken' = IF body[r] = <<>> THEN broken ELSE broken \cup {s}
  /\ UNCHANGED <<tableVars, data, blobs, requestVars, at, body, got, stored, covered,
                 overlapped, misplaced>>
------------------------------------------------------------------------------
(* POST /v2/{name}/blobs/uploads/, and a mount of a blob that is not here: *)
(* an empty file and an entry in the table.                                *)
CreateUpload(s) ==
  /\ s \notin used
  /\ used' = used \cup {s}
  /\ live' = live \cup {s}
  /\ named' = named \cup {s}
  /\ UNCHANGED <<fileVars, blobs, pc, requestVars, at, body, got, history>>

(* PATCH whose range starts at the offset the session has now; any other   *)
(* is answered 416, an unknown session 404, and neither has an effect.     *)
BeginPatch(r, s) ==
  /\ Begin(r, s, "PATCH", "open")
  /\ at' = [at EXCEPT ![r] = offset[s]]
  /\ UNCHANGED <<tableVars, fileVars, blobs, range, digest, stored, covered,
                 misplaced, broken>>

(* PUT without a body. *)
BeginPut(r, s, d) ==
  /\ Begin(r, s, "PUT", "complete")
  /\ digest' = [digest EXCEPT ![r] = d]
  /\ UNCHANGED <<tableVars, fileVars, blobs, range, at, stored, covered, misplaced, broken>>

(* PUT with a last chunk.  parseContentRange returns 0 for a header that   *)
(* is not there and whatever start the client names for one that is; the   *)
(* session's offset is used when the header does not parse.                *)
BeginPutChunk(r, s, d, header) ==
  /\ Begin(r, s, "PUT", "open")
  /\ digest' = [digest EXCEPT ![r] = d]
  /\ range' = [range EXCEPT ![r] = header]
  /\ \E k \in CASE header = "none" -> {0}
                [] header = "start" -> 0 .. MaxLen
                [] header = "malformed" -> {offset[s]} :
       /\ at' = [at EXCEPT ![r] = k]
       /\ misplaced' = IF k = offset[s] THEN misplaced ELSE misplaced \cup {s}
  /\ UNCHANGED <<tableVars, fileVars, blobs, stored, covered, broken>>

(* WriteUploadChunk looks the session up again and opens its file. *)
OpenFile(r) ==
  /\ pc[r] = "open"
  /\ Goto(r, IF sid[r] \in live \cap named THEN "copy" ELSE "idle")
  /\ UNCHANGED <<tableVars, fileVars, blobs, requestVars, at, body, got, history>>

(* io.Copy from the offset the descriptor was set to. *)
CopyByte(r, b) ==
  LET s == sid[r]
      pos == at[r] + Len(body[r])
  IN
  /\ pc[r] = "copy"
  /\ pos < MaxLen
  /\ data' = [data EXCEPT ![s] = WriteAt(@, pos, b)]
  /\ body' = [body EXCEPT ![r] = Append(@, b)]
  /\ UNCHANGED <<tableVars, offset, blobs, pc, requestVars, at, got, history>>

(* The body breaks off: 500, and what was written stays in the file. *)
CopyFails(r) ==
  /\ pc[r] = "copy"
  /\ Goto(r, "idle")
  /\ broken' = IF body[r] = <<>> THEN broken ELSE broken \cup {sid[r]}
  /\ UNCHANGED <<tableVars, fileVars, blobs, requestVars, at, body, got, stored, covered,
                 overlapped, misplaced>>

(* End of the body (a PUT has one only if it is not empty). *)
SetOffset(r) ==
  LET s == sid[r] IN
  /\ pc[r] = "copy"
  /\ method[r] = "PUT" => body[r] # <<>>
  /\ Goto(r, IF method[r] = "PATCH" THEN "reply" ELSE "complete")
  /\ offset' = [offset EXCEPT ![s] = at[r] + Len(body[r])]
  /\ stored' = IF InOrder(s) THEN [stored EXCEPT ![s] = @ \o body[r]] ELSE stored
  /\ UNCHANGED <<tableVars, data, blobs, requestVars, at, body, got, covered, overlapped,
                 misplaced, broken>>

(* PATCH reads the new offset for its answer: 202 if the session is still  *)
(* there, 500 if it is not.                                                *)
Reply(r) ==
  LET s == sid[r] IN
  /\ pc[r] = "reply"
  /\ Goto(r, "idle")
  /\ covered' = IF s \in live THEN [covered EXCEPT ![s] = @ \cup Positions(r)] ELSE covered
  /\ UNCHANGED <<tableVars, fileVars, blobs, requestVars, at, body, got, stored, overlapped,
                 misplaced, broken>>

(* CompleteUpload looks the session up and opens its file. *)
OpenForBlob(r) ==
  /\ pc[r] = "complete"
  /\ Goto(r, IF sid[r] \in live \cap named THEN "read" ELSE "idle")
  /\ UNCHANGED <<tableVars, fileVars, blobs, requestVars, at, body, got, history>>

(* PutBlob reads on. *)
ReadByte(r) ==
  LET file == data[sid[r]] IN
  /\ pc[r] = "read"
  /\ Len(got[r]) < Len(file)
  /\ got' = [got EXCEPT ![r] = Append(@, file[Len(@) + 1])]
  /\ UNCHANGED <<tableVars, fileVars, blobs, pc, requestVars, at, body, history>>

(* PutBlob is at the end of the file: the blob is stored, or the digest    *)
(* does not match and the answer is 400, which leaves the session alone.   *)
ReadEnd(r) ==
  LET match == got[r] = digest[r] IN
  /\ pc[r] = "read"
  /\ Len(got[r]) >= Len(data[sid[r]])
  /\ Goto(r, IF match THEN "finish" ELSE "idle")
  /\ blobs' = IF match THEN blobs \cup {digest[r]} ELSE blobs
  /\ UNCHANGED <<tableVars, fileVars, requestVars, at, body, got, history>>

(* PutBlob fails for want of disk, or of its own reasons. *)
ReadFails(r) ==
  /\ pc[r] = "read"
  /\ Goto(r, "idle")
  /\ UNCHANGED <<tableVars, fileVars, blobs, requestVars, at, body, got, history>>

(* CompleteUpload forgets the session and removes its file: 201. *)
Finish(r) ==
  /\ pc[r] = "finish"
  /\ Goto(r, "idle")
  /\ live' = live \ {sid[r]}
  /\ named' = named \ {sid[r]}
  /\ UNCHANGED <<used, fileVars, blobs, requestVars, at, body, got, history>>

(* DELETE on the upload. *)
CancelUpload(s) ==
  /\ s \in live
  /\ live' = live \ {s}
  /\ named' = named \ {s}
  /\ UNCHANGED <<used, fileVars, blobs, pc, requestVars, at, body, got, history>>

(* The process restarts: the table and the requests are gone. *)
Restart ==
  /\ live # {} \/ \E r \in Request : pc[r] # "idle"
  /\ live' = {}
  /\ pc' = [r \in Request |-> "idle"]
  /\ broken' = broken \cup {sid[r] : r \in {q \in Request : pc[q] = "copy"}}
  /\ UNCHANGED <<used, named, fileVars, blobs, requestVars, at, body, got, stored, covered,
                 overlapped, misplaced>>

Next ==
  \/ \E s \in Session : CreateUpload(s) \/ CancelUpload(s)
  \/ \E r \in Request, s \in Session : BeginPatch(r, s)
  \/ \E r \in Request, s \in Session, d \in Digest : BeginPut(r, s, d)
  \/ \E r \in Request, s \in Session, d \in Digest, h \in RangeHeader :
       BeginPutChunk(r, s, d, h)
  \/ \E r \in Request : OpenFile(r) \/ CopyFails(r) \/ SetOffset(r) \/ Reply(r)
  \/ \E r \in Request, b \in Byte : CopyByte(r, b)
  \/ \E r \in Request : OpenForBlob(r) \/ ReadByte(r) \/ ReadEnd(r) \/ ReadFails(r) \/ Finish(r)
  \/ Restart

Spec == Init /\ [][Next]_vars
------------------------------------------------------------------------------
Prefix(p, q) == Len(p) <= Len(q) /\ \A k \in 1 .. Len(p) : p[k] = q[k]

(* The offset a session reports, and tells its client to go on from, is    *)
(* never behind the end of its file: no sequence or overlap of chunks,     *)
(* late, short or broken off, makes a later chunk start behind a hole that *)
(* no client asked for (WriteUploadChunk, store.go:418-431).               *)
OffsetWithinFile == \A s \in Session : offset[s] <= Len(data[s])

(* What was stored in order is what the file begins with, and the offset   *)
(* is its length, whatever chunks broke off in between and while another   *)
(* one is being written: a client that resumes at the offset loses and     *)
(* repeats nothing (uploads.go:84-95, store.go:418-431).                   *)
ResumeKeepsPrefix ==
  \A s \in Session : InOrder(s) =>
     /\ offset[s] = Len(stored[s])
     /\ Prefix(stored[s], data[s])

(* Closing such an upload stores a blob that begins with what was          *)
(* accepted; if no chunk ever broke off, the blob is exactly that, and a   *)
(* digest that differs is refused (uploads.go:161-173, store.go:453-456).  *)
PublishesWhatWasAccepted ==
  \A r \in Request : LET s == sid[r] IN
     /\ pc[r] = "finish" /\ InOrder(s) => Prefix(stored[s], digest[r])
     /\ pc[r] \in {"read", "finish"} /\ InOrder(s) /\ s \notin broken =>
          /\ Prefix(got[r], stored[s])
          /\ pc[r] = "finish" => digest[r] = stored[s]

(* The positions of a chunk PATCH is about to accept are new. *)
AcceptsOnce(r) ==
  pc[r] = "reply" /\ sid[r] \in live => Positions(r) \cap covered[sid[r]] = {}

(* One request at a time, no byte position is accepted twice: a chunk that *)
(* is sent again after it was accepted is refused (uploads.go:87-95).      *)
SerialChunkOnce == \A r \in Request : InOrder(sid[r]) => AcceptsOnce(r)

(* "Return 416 Range Not Satisfiable for out-of-order or duplicate chunks" *)
(* (uploads.go:90), of sessions to which no PUT wrote out of place.        *)
(* Refuted: two PATCHes compare the offset before either moves it.         *)
ChunkOnce == \A r \in Request : sid[r] \notin misplaced => AcceptsOnce(r)
=============================================================================
