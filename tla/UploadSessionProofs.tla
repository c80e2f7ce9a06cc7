------------------------- MODULE UploadSessionProofs -------------------------
(***************************************************************************)
(* Proofs about UploadSession, for any number of sessions and requests,    *)
(* any digests and any bound on the files.                                 *)
(***************************************************************************)
EXTENDS UploadSession, SequenceTheorems, TLAPS

(* Writing inside, at the end of or behind a file leaves a file. *)
LEMMA WriteAtType ==
  ASSUME NEW s \in Seq(Byte), NEW off \in Nat, NEW b \in Byte
  PROVE  WriteAt(s, off, b) \in Seq(Byte)
<1> DEFINE n == IF off < Len(s) THEN Len(s) ELSE off + 1
           e(k) == IF k = off + 1 THEN b ELSE IF k <= Len(s) THEN s[k] ELSE Zero
<1>1. Len(s) \in Nat /\ n \in Nat
  BY LenProperties
<1>2. \A k \in 1 .. n : e(k) \in Byte
  BY <1>1, ElementOfSeq, ByteAssumption
<1> HIDE DEF n, e
<1>3. [k \in 1 .. n |-> e(k)] \in Seq(Byte)
  BY <1>1, <1>2, IsASeq
<1> QED
  BY <1>3 DEF WriteAt, n, e

(* How long a file is after a write, and what it holds then. *)
LEMMA WriteAtValue ==
  ASSUME NEW s \in Seq(Byte), NEW off \in Nat, NEW b \in Byte
  PROVE  /\ Len(WriteAt(s, off, b)) = IF off < Len(s) THEN Len(s) ELSE off + 1
         /\ WriteAt(s, off, b)[off + 1] = b
         /\ \A k \in 1 .. Len(s) : k # off + 1 => WriteAt(s, off, b)[k] = s[k]
<1> DEFINE n == IF off < Len(s) THEN Len(s) ELSE off + 1
           e(k) == IF k = off + 1 THEN b ELSE IF k <= Len(s) THEN s[k] ELSE Zero
<1>1. Len(s) \in Nat /\ n \in Nat
  BY LenProperties
<1>2. WriteAt(s, off, b) = [k \in 1 .. n |-> e(k)]
  BY DEF WriteAt
<1>3. off + 1 \in 1 .. n /\ \A k \in 1 .. Len(s) : k \in 1 .. n
  BY <1>1
<1>4. DOMAIN WriteAt(s, off, b) = 1 .. n
  BY <1>2
<1>5. Len(WriteAt(s, off, b)) = n
  <2>1. WriteAt(s, off, b) \in Seq(Byte)
    BY WriteAtType
  <2> HIDE DEF n
  <2>2. DOMAIN WriteAt(s, off, b) = 1 .. Len(WriteAt(s, off, b)) /\ Len(WriteAt(s, off, b)) \in Nat
    BY <2>1, LenProperties
  <2> QED
    BY <1>1, <1>4, <2>2
<1> QED
  BY <1>2, <1>3, <1>5

(* Whoever writes has not run ahead of the file. *)
ChunkWithinFile ==
  \A r \in Request :
     /\ pc[r] \in {"open", "copy"} /\ method[r] = "PATCH" => at[r] <= Len(data[sid[r]])
     /\ pc[r] = "open" => body[r] = <<>>
     /\ pc[r] = "copy" /\ body[r] # <<>> => at[r] + Len(body[r]) <= Len(data[sid[r]])

FileInv == TypeOK /\ OffsetWithinFile /\ ChunkWithinFile

(* Two requests on a session have been noticed. *)
OverlapNoticed ==
  \A q, r \in Request :
     q # r /\ pc[q] # "idle" /\ pc[r] # "idle" /\ sid[q] = sid[r] => sid[r] \in overlapped

(* The chunk being written lies at the offset, and so far is in the file. *)
ChunkInPlace ==
  \A r \in Request : InOrder(sid[r]) =>
     /\ pc[r] \in {"open", "copy"} => at[r] = offset[sid[r]]
     /\ pc[r] = "copy" => \A k \in 1 .. Len(body[r]) :
          at[r] + k <= Len(data[sid[r]]) /\ data[sid[r]][at[r] + k] = body[r][k]

ResumeInv == FileInv /\ OverlapNoticed /\ ChunkInPlace /\ ResumeKeepsPrefix

(* A session no chunk of which broke off: its file ends where the chunk    *)
(* being written does, or else at the offset.                              *)
NothingBehind ==
  \A s \in Session : InOrder(s) /\ s \notin broken =>
     /\ \A r \in Request : pc[r] = "copy" /\ sid[r] = s =>
          Len(data[s]) = offset[s] + Len(body[r])
     /\ (\A r \in Request : sid[r] = s => pc[r] # "copy") => Len(data[s]) = offset[s]

(* What PutBlob has read is the beginning of the file, or all of it. *)
ReadFromFile ==
  \A r \in Request : InOrder(sid[r]) =>
     /\ pc[r] = "complete" => got[r] = <<>>
     /\ pc[r] = "read" => Prefix(got[r], data[sid[r]])
     /\ pc[r] = "finish" => got[r] = data[sid[r]] /\ digest[r] = got[r]
     /\ pc[r] \in {"open", "copy"} => got[r] = <<>>

PublishInv == ResumeInv /\ NothingBehind /\ ReadFromFile

(* What was accepted lies before the offset, and before the chunk that is  *)
(* about to be accepted.                                                   *)
CoveredBehind ==
  /\ \A s \in Session : InOrder(s) => \A p \in covered[s] : p < offset[s]
  /\ \A r \in Request : InOrder(sid[r]) /\ pc[r] = "reply" =>
       /\ at[r] + Len(body[r]) = offset[sid[r]]
       /\ \A p \in covered[sid[r]] : p < at[r]

AcceptInv == ResumeInv /\ CoveredBehind
-----------------------------------------------------------------------------
LEMMA InitTypeOK == Init => TypeOK
  BY EmptySeq DEF Init, TypeOK, RequestState, RangeHeader

(* Every step keeps the variables in their types. *)
LEMMA NextTypeOK ==
  ASSUME TypeOK, [Next]_vars
  PROVE  TypeOK'
<1> USE DEF TypeOK, RequestState, RangeHeader, tableVars, fileVars, requestVars, history
<1>1. ASSUME NEW s \in Session, CreateUpload(s) PROVE TypeOK'
  BY <1>1 DEF CreateUpload
<1>2. ASSUME NEW s \in Session, CancelUpload(s) PROVE TypeOK'
  BY <1>2 DEF CancelUpload
<1>3. ASSUME NEW r \in Request, NEW s \in Session, BeginPatch(r, s) PROVE TypeOK'
  BY <1>3, EmptySeq DEF BeginPatch, Begin, Goto
<1>4. ASSUME NEW r \in Request, NEW s \in Session, NEW d \in Digest, BeginPut(r, s, d)
      PROVE  TypeOK'
  BY <1>4, EmptySeq DEF BeginPut, Begin, Goto
<1>5. ASSUME NEW r \in Request, NEW s \in Session, NEW d \in Digest, NEW h \in RangeHeader,
             BeginPutChunk(r, s, d, h)
      PROVE  TypeOK'
  <2>1. PICK k \in CASE h = "none" -> {0}
                     [] h = "start" -> 0 .. MaxLen
                     [] h = "malformed" -> {offset[s]} :
          /\ at' = [at EXCEPT ![r] = k]
          /\ misplaced' = IF k = offset[s] THEN misplaced ELSE misplaced \cup {s}
    BY <1>5 DEF BeginPutChunk
  <2>2. k \in Nat
    BY MaxLenAssumption
  <2> QED
    BY <1>5, <2>1, <2>2, EmptySeq DEF BeginPutChunk, Begin, Goto
<1>6. ASSUME NEW r \in Request, OpenFile(r) PROVE TypeOK'
  BY <1>6 DEF OpenFile, Goto
<1>7. ASSUME NEW r \in Request, CopyFails(r) PROVE TypeOK'
  BY <1>7 DEF CopyFails, Goto
<1>8. ASSUME NEW r \in Request, SetOffset(r) PROVE TypeOK'
  <2>1. at[r] + Len(body[r]) \in Nat
    BY LenProperties
  <2>2. stored[sid[r]] \o body[r] \in Seq(Byte)
    BY ConcatProperties
  <2> QED
    BY <1>8, <2>1, <2>2 DEF SetOffset, Goto
<1>9. ASSUME NEW r \in Request, Reply(r) PROVE TypeOK'
  <2>1. Positions(r) \subseteq Nat
    BY LenProperties DEF Positions
  <2> QED
    BY <1>9, <2>1 DEF Reply, Goto
<1>10. ASSUME NEW r \in Request, NEW b \in Byte, CopyByte(r, b) PROVE TypeOK'
  <2>1. at[r] + Len(body[r]) \in Nat
    BY LenProperties
  <2>2. WriteAt(data[sid[r]], at[r] + Len(body[r]), b) \in Seq(Byte)
    BY <2>1, WriteAtType
  <2>3. Append(body[r], b) \in Seq(Byte)
    BY AppendProperties
  <2> QED
    BY <1>10, <2>2, <2>3 DEF CopyByte
<1>11. ASSUME NEW r \in Request, OpenForBlob(r) PROVE TypeOK'
  BY <1>11 DEF OpenForBlob, Goto
<1>12. ASSUME NEW r \in Request, ReadByte(r) PROVE TypeOK'
  <2>1. Len(got[r]) \in Nat /\ Len(data[sid[r]]) \in Nat
    BY LenProperties
  <2>2. data[sid[r]][Len(got[r]) + 1] \in Byte
    BY <1>12, <2>1, ElementOfSeq DEF ReadByte
  <2>3. Append(got[r], data[sid[r]][Len(got[r]) + 1]) \in Seq(Byte)
    BY <2>2, AppendProperties
  <2> QED
    BY <1>12, <2>3 DEF ReadByte
<1>13. ASSUME NEW r \in Request, ReadEnd(r) PROVE TypeOK'
  BY <1>13 DEF ReadEnd, Goto
<1>14. ASSUME NEW r \in Request, ReadFails(r) PROVE TypeOK'
  BY <1>14 DEF ReadFails, Goto
<1>15. ASSUME NEW r \in Request, Finish(r) PROVE TypeOK'
  BY <1>15 DEF Finish, Goto
<1>16. CASE Restart
  BY <1>16 DEF Restart
<1>17. CASE UNCHANGED vars
  BY <1>17 DEF vars
<1> HIDE DEF TypeOK, RequestState, RangeHeader, tableVars, fileVars, requestVars, history
<1> QED
  BY <1>1, <1>2, <1>3, <1>4, <1>5, <1>6, <1>7, <1>8, <1>9, <1>10, <1>11, <1>12, <1>13,
     <1>14, <1>15, <1>16, <1>17 DEF Next

(* The variables of an upload always have their types. *)
THEOREM TypeCorrect == Spec => []TypeOK
<1>1. Init => TypeOK
  BY InitTypeOK
<1>2. TypeOK /\ [Next]_vars => TypeOK'
  BY NextTypeOK
<1> QED
  BY <1>1, <1>2, PTL DEF Spec
-----------------------------------------------------------------------------
(* What the three actions of a request that begins have in common. *)
Begins(r, s) ==
  \/ BeginPatch(r, s)
  \/ \E d \in Digest : BeginPut(r, s, d)
  \/ \E d \in Digest, h \in RangeHeader : BeginPutChunk(r, s, d, h)

(* A request writes a file only at CopyByte and an offset only at          *)
(* SetOffset, and starts to write only at the three actions above.         *)
Aside ==
  /\ UNCHANGED <<data, offset, sid, method, at, body, stored, overlapped, misplaced>>
  /\ \A q \in Request : pc'[q] # pc[q] => pc[q] # "idle" /\ pc'[q] \notin {"open", "copy"}

LEMMA StepKinds ==
  ASSUME TypeOK, [Next]_vars
  PROVE  \/ \E r \in Request, s \in Session : Begins(r, s)
         \/ \E r \in Request : OpenFile(r)
         \/ \E r \in Request, b \in Byte : CopyByte(r, b)
         \/ \E r \in Request : SetOffset(r)
         \/ Aside
<1> USE DEF fileVars, requestVars, history
<1>0. pc \in [Request -> RequestState]
  BY DEF TypeOK
<1>1. ASSUME NEW s \in Session, CreateUpload(s) \/ CancelUpload(s) PROVE Aside
  BY <1>1 DEF CreateUpload, CancelUpload, Aside
<1>2. ASSUME NEW r \in Request,
             CopyFails(r) \/ Reply(r) \/ OpenForBlob(r) \/ ReadEnd(r) \/ ReadFails(r) \/ Finish(r)
      PROVE  Aside
  BY <1>0, <1>2 DEF CopyFails, Reply, OpenForBlob, ReadEnd, ReadFails, Finish, Goto, Aside
<1>3. ASSUME NEW r \in Request, ReadByte(r) PROVE Aside
  BY <1>3 DEF ReadByte, Aside
<1>4. CASE Restart
  BY <1>4 DEF Restart, Aside
<1>5. CASE UNCHANGED vars
  BY <1>5 DEF vars, Aside
<1> HIDE DEF fileVars, requestVars, history
<1> QED
  BY <1>1, <1>2, <1>3, <1>4, <1>5 DEF Next, Begins
-----------------------------------------------------------------------------
LEMMA InitFileInv == Init => FileInv
<1> SUFFICES ASSUME Init PROVE OffsetWithinFile /\ ChunkWithinFile
  BY InitTypeOK DEF FileInv
<1>1. \A s \in Session : offset[s] = 0 /\ data[s] = <<>>
  BY DEF Init
<1> QED
  BY <1>1, EmptySeq DEF Init, OffsetWithinFile, ChunkWithinFile

LEMMA BeginEffect ==
  ASSUME TypeOK, NEW r \in Request, NEW s \in Session, Begins(r, s)
  PROVE  /\ UNCHANGED <<data, offset, stored>>
         /\ pc[r] = "idle" /\ pc'[r] \in {"open", "complete"}
         /\ sid'[r] = s /\ body'[r] = <<>> /\ got'[r] = <<>>
         /\ overlapped' = IF Busy(s) THEN overlapped \cup {s} ELSE overlapped
         /\ misplaced \subseteq misplaced'
         /\ pc'[r] = "open" /\ s \notin misplaced' => at'[r] = offset[s]
         /\ pc'[r] = "open" /\ method'[r] = "PATCH" => at'[r] = offset[s]
         /\ \A q \in Request \ {r} :
              /\ pc'[q] = pc[q] /\ sid'[q] = sid[q] /\ method'[q] = method[q]
              /\ at'[q] = at[q] /\ body'[q] = body[q] /\ got'[q] = got[q]
              /\ digest'[q] = digest[q]
         /\ UNCHANGED <<covered, broken>>
<1> USE DEF TypeOK, fileVars
<1>1. CASE BeginPatch(r, s)
  BY <1>1 DEF BeginPatch, Begin, Goto
<1>2. CASE \E d \in Digest : BeginPut(r, s, d)
  BY <1>2 DEF BeginPut, Begin, Goto
<1>3. CASE \E d \in Digest, h \in RangeHeader : BeginPutChunk(r, s, d, h)
  <2>1. PICK d \in Digest, h \in RangeHeader : BeginPutChunk(r, s, d, h)
    BY <1>3
  <2>2. PICK k \in CASE h = "none" -> {0}
                     [] h = "start" -> 0 .. MaxLen
                     [] h = "malformed" -> {offset[s]} :
          /\ at' = [at EXCEPT ![r] = k]
          /\ misplaced' = IF k = offset[s] THEN misplaced ELSE misplaced \cup {s}
    BY <2>1 DEF BeginPutChunk
  <2>3. /\ at'[r] = k /\ \A q \in Request \ {r} : at'[q] = at[q]
        /\ s \notin misplaced' => at'[r] = offset[s]
    BY <2>2
  <2> QED
    BY <2>1, <2>2, <2>3 DEF BeginPutChunk, Begin, Goto
<1> QED
  BY <1>1, <1>2, <1>3 DEF Begins

(* The step of a request that begins. *)
LEMMA FileInvBegin ==
  ASSUME FileInv, NEW r \in Request, NEW s \in Session, Begins(r, s)
  PROVE  OffsetWithinFile' /\ ChunkWithinFile'
<1> USE DEF FileInv, TypeOK
<1>1. /\ UNCHANGED <<data, offset>>
      /\ pc'[r] \in {"open", "complete"} /\ sid'[r] = s /\ body'[r] = <<>>
      /\ pc'[r] = "open" /\ method'[r] = "PATCH" => at'[r] = offset[s]
      /\ \A q \in Request \ {r} : pc'[q] = pc[q] /\ sid'[q] = sid[q] /\ method'[q] = method[q]
                                  /\ at'[q] = at[q] /\ body'[q] = body[q]
  BY BeginEffect
<1>2. OffsetWithinFile'
  BY <1>1 DEF OffsetWithinFile
<1>3. ASSUME NEW q \in Request
      PROVE  /\ pc'[q] \in {"open", "copy"} /\ method'[q] = "PATCH" => at'[q] <= Len(data'[sid'[q]])
             /\ pc'[q] = "open" => body'[q] = <<>>
             /\ pc'[q] = "copy" /\ body'[q] # <<>> => at'[q] + Len(body'[q]) <= Len(data'[sid'[q]])
  <2>1. CASE q = r
    BY <1>1, <2>1 DEF OffsetWithinFile
  <2>2. CASE q # r
    BY <1>1, <2>2 DEF ChunkWithinFile
  <2> QED
    BY <2>1, <2>2
<1> QED
  BY <1>2, <1>3 DEF ChunkWithinFile

(* Files only grow, and the byte just written is inside. *)
LEMMA FileInvCopyByte ==
  ASSUME FileInv, NEW r \in Request, NEW b \in Byte, CopyByte(r, b)
  PROVE  OffsetWithinFile' /\ ChunkWithinFile'
<1> USE DEF FileInv, TypeOK
<1> DEFINE f == sid[r]
           pos == at[r] + Len(body[r])
<1>1. pos \in Nat /\ Len(body[r]) \in Nat /\ \A s \in Session : Len(data[s]) \in Nat
  BY LenProperties
<1>2. /\ data' = [data EXCEPT ![f] = WriteAt(@, pos, b)]
      /\ body' = [body EXCEPT ![r] = Append(@, b)]
      /\ UNCHANGED <<offset, pc, sid, method, at>> /\ pc[r] = "copy"
  BY DEF CopyByte, requestVars
<1>3. Len(data'[f]) = IF pos < Len(data[f]) THEN Len(data[f]) ELSE pos + 1
  <2>1. data'[f] = WriteAt(data[f], pos, b) /\ data[f] \in Seq(Byte)
    BY <1>2
  <2> HIDE DEF pos, f, FileInv, TypeOK
  <2> QED
    BY <1>1, <2>1, WriteAtValue
<1>4. \A s \in Session : Len(data'[s]) \in Nat /\ Len(data[s]) <= Len(data'[s])
  BY <1>1, <1>2, <1>3
<1>5. Len(body'[r]) = Len(body[r]) + 1
  BY <1>2, AppendProperties
<1> HIDE DEF pos
<1>6. OffsetWithinFile'
  BY <1>1, <1>2, <1>4 DEF OffsetWithinFile
<1>7. at[r] + Len(body'[r]) <= Len(data'[f])
  BY <1>1, <1>3, <1>5 DEF pos
<1>8. ASSUME NEW q \in Request
      PROVE  /\ pc'[q] \in {"open", "copy"} /\ method'[q] = "PATCH" => at'[q] <= Len(data'[sid'[q]])
             /\ pc'[q] = "open" => body'[q] = <<>>
             /\ pc'[q] = "copy" /\ body'[q] # <<>> => at'[q] + Len(body'[q]) <= Len(data'[sid'[q]])
  <2>1. sid[q] \in Session /\ at[q] \in Nat /\ Len(body[q]) \in Nat
    BY LenProperties
  <2>2. CASE q = r
    BY <1>1, <1>2, <1>4, <1>7, <2>1, <2>2 DEF ChunkWithinFile
  <2>3. CASE q # r
    BY <1>1, <1>2, <1>4, <2>1, <2>3 DEF ChunkWithinFile
  <2> QED
    BY <2>2, <2>3
<1> QED
  BY <1>6, <1>8 DEF ChunkWithinFile

LEMMA NextFileInv ==
  ASSUME FileInv, [Next]_vars
  PROVE  FileInv'
<1>1. TypeOK'
  BY NextTypeOK DEF FileInv
<1> SUFFICES OffsetWithinFile' /\ ChunkWithinFile'
  BY <1>1 DEF FileInv
<1>2. ASSUME NEW r \in Request, OpenFile(r) PROVE OffsetWithinFile' /\ ChunkWithinFile'
  BY <1>2 DEF FileInv, TypeOK, OpenFile, Goto, fileVars, requestVars, OffsetWithinFile,
              ChunkWithinFile
<1>3. ASSUME NEW r \in Request, SetOffset(r) PROVE OffsetWithinFile' /\ ChunkWithinFile'
  <2> USE <1>3 DEF FileInv, TypeOK, SetOffset, Goto, requestVars
  <2>1. at[r] + Len(body[r]) <= Len(data[sid[r]])
    <3>1. CASE body[r] = <<>>
      <4>1. method[r] = "PATCH" /\ Len(body[r]) = 0
        BY <3>1, EmptySeq
      <4> QED
        BY <4>1 DEF ChunkWithinFile
    <3>2. CASE body[r] # <<>>
      BY <3>2 DEF ChunkWithinFile
    <3> QED
      BY <3>1, <3>2
  <2>2. OffsetWithinFile'
    BY <2>1 DEF OffsetWithinFile
  <2>3. ChunkWithinFile'
    BY DEF ChunkWithinFile
  <2> QED
    BY <2>2, <2>3
<1>4. CASE Aside
  BY <1>4 DEF FileInv, TypeOK, Aside, OffsetWithinFile, ChunkWithinFile
<1>5. ASSUME NEW r \in Request, NEW b \in Byte, CopyByte(r, b)
      PROVE  OffsetWithinFile' /\ ChunkWithinFile'
  BY <1>5, FileInvCopyByte
<1>6. ASSUME NEW r \in Request, NEW s \in Session, Begins(r, s)
      PROVE  OffsetWithinFile' /\ ChunkWithinFile'
  BY <1>6, FileInvBegin
<1>7. TypeOK
  BY DEF FileInv
<1> QED
  BY <1>2, <1>3, <1>4, <1>5, <1>6, <1>7, StepKinds

LEMMA FileInvariance == Spec => []FileInv
<1>1. FileInv /\ [Next]_vars => FileInv'
  BY NextFileInv
<1> QED
  BY <1>1, InitFileInv, PTL DEF Spec

(* No session ever offers to continue behind the end of its file. *)
THEOREM OffsetWithinFileInvariant == Spec => []OffsetWithinFile
<1>1. FileInv => OffsetWithinFile
  BY DEF FileInv
<1> QED
  BY <1>1, FileInvariance, PTL
-----------------------------------------------------------------------------
LEMMA InitResumeInv == Init => ResumeInv
<1> SUFFICES ASSUME Init PROVE OverlapNoticed /\ ChunkInPlace /\ ResumeKeepsPrefix
  BY InitFileInv DEF ResumeInv
<1>1. \A s \in Session : offset[s] = 0 /\ stored[s] = <<>> /\ data[s] = <<>>
  BY DEF Init
<1>2. \A r \in Request : pc[r] = "idle"
  BY DEF Init
<1> QED
  BY <1>1, <1>2, EmptySeq DEF OverlapNoticed, ChunkInPlace, ResumeKeepsPrefix, Prefix

(* A request that begins on a session where another one is at work puts it *)
(* out of order; otherwise its chunk goes to the offset.                   *)
LEMMA ResumeInvBegin ==
  ASSUME ResumeInv, NEW r \in Request, NEW s \in Session, Begins(r, s)
  PROVE  OverlapNoticed' /\ ChunkInPlace' /\ ResumeKeepsPrefix'
<1>1. TypeOK
  BY DEF ResumeInv, FileInv
<1>2. /\ UNCHANGED <<data, offset, stored>>
      /\ pc[r] = "idle" /\ pc'[r] \in {"open", "complete"} /\ sid'[r] = s /\ body'[r] = <<>>
      /\ overlapped' = IF Busy(s) THEN overlapped \cup {s} ELSE overlapped
      /\ misplaced \subseteq misplaced'
      /\ pc'[r] = "open" /\ s \notin misplaced' => at'[r] = offset[s]
      /\ \A q \in Request \ {r} : pc'[q] = pc[q] /\ sid'[q] = sid[q] /\ at'[q] = at[q]
                                  /\ body'[q] = body[q]
  BY <1>1, BeginEffect
<1>3. \A t : InOrder(t)' => InOrder(t)
  BY <1>2 DEF InOrder
<1>4. OverlapNoticed'
  <2> SUFFICES ASSUME NEW p \in Request, NEW q \in Request, p # q,
                      pc'[p] # "idle", pc'[q] # "idle", sid'[p] = sid'[q]
               PROVE  sid'[q] \in overlapped'
    BY DEF OverlapNoticed
  <2>1. CASE p # r /\ q # r
    BY <1>2, <2>1 DEF ResumeInv, OverlapNoticed
  <2>2. CASE p = r
    BY <1>2, <2>2 DEF Busy
  <2>3. CASE q = r
    BY <1>2, <2>3 DEF Busy
  <2> QED
    BY <2>1, <2>2, <2>3
<1>5. ChunkInPlace'
  <2> SUFFICES ASSUME NEW q \in Request, sid'[q] \notin overlapped' \cup misplaced'
               PROVE  /\ pc'[q] \in {"open", "copy"} => at'[q] = offset'[sid'[q]]
                      /\ pc'[q] = "copy" => \A k \in 1 .. Len(body'[q]) :
                           /\ at'[q] + k <= Len(data'[sid'[q]])
                           /\ data'[sid'[q]][at'[q] + k] = body'[q][k]
    BY DEF ChunkInPlace, InOrder
  <2>1. CASE q = r
    BY <1>2, <2>1 DEF InOrder
  <2>2. CASE q # r
    <3>1. pc'[q] = pc[q] /\ sid'[q] = sid[q] /\ at'[q] = at[q] /\ body'[q] = body[q]
      BY <1>2, <2>2
    <3>2. InOrder(sid[q])
      BY <1>2, <3>1 DEF InOrder
    <3> QED
      BY <1>2, <3>1, <3>2 DEF ResumeInv, ChunkInPlace
  <2> QED
    BY <2>1, <2>2
<1>6. ResumeKeepsPrefix'
  BY <1>2, <1>3 DEF ResumeInv, ResumeKeepsPrefix
<1> QED
  BY <1>4, <1>5, <1>6

(* A byte of a chunk in order goes behind what was stored. *)
LEMMA ResumeInvCopyByte ==
  ASSUME ResumeInv, NEW r \in Request, NEW b \in Byte, CopyByte(r, b)
  PROVE  OverlapNoticed' /\ ChunkInPlace' /\ ResumeKeepsPrefix'
<1> USE DEF ResumeInv, FileInv, TypeOK
<1> DEFINE f == sid[r]
           pos == at[r] + Len(body[r])
<1>1. /\ pos \in Nat /\ Len(body[r]) \in Nat
      /\ \A s \in Session : Len(data[s]) \in Nat /\ Len(stored[s]) \in Nat
  BY LenProperties
<1>2. /\ data' = [data EXCEPT ![f] = WriteAt(@, pos, b)]
      /\ body' = [body EXCEPT ![r] = Append(@, b)]
      /\ UNCHANGED <<offset, pc, sid, at, stored, overlapped, misplaced>> /\ pc[r] = "copy"
  BY DEF CopyByte, requestVars, history
<1>3. /\ Len(data'[f]) = IF pos < Len(data[f]) THEN Len(data[f]) ELSE pos + 1
      /\ data'[f][pos + 1] = b
      /\ \A k \in 1 .. Len(data[f]) : k # pos + 1 => data'[f][k] = data[f][k]
      /\ pos + 1 <= Len(data'[f]) /\ Len(data[f]) <= Len(data'[f])
  <2>1. data'[f] = WriteAt(data[f], pos, b) /\ data[f] \in Seq(Byte)
    BY <1>2
  <2> HIDE DEF pos, f, ResumeInv, FileInv, TypeOK
  <2>2. pos \in Nat /\ Len(data[f]) \in Nat
    BY <1>1, <2>1, LenProperties
  <2>3. /\ Len(WriteAt(data[f], pos, b)) = IF pos < Len(data[f]) THEN Len(data[f]) ELSE pos + 1
        /\ WriteAt(data[f], pos, b)[pos + 1] = b
        /\ \A k \in 1 .. Len(data[f]) :
             k # pos + 1 => WriteAt(data[f], pos, b)[k] = data[f][k]
    BY <2>1, <2>2, WriteAtValue
  <2>4. /\ pos + 1 <= Len(WriteAt(data[f], pos, b))
        /\ Len(data[f]) <= Len(WriteAt(data[f], pos, b))
    BY <2>2, <2>3
  <2> QED
    BY <2>1, <2>3, <2>4
<1>4. /\ Len(body'[r]) = Len(body[r]) + 1
      /\ \A k \in 1 .. Len(body[r]) : body'[r][k] = body[r][k]
      /\ body'[r][Len(body[r]) + 1] = b
  BY <1>2, AppendProperties
<1>5. OverlapNoticed'
  BY <1>2 DEF OverlapNoticed
<1>6. \A q \in Request \ {r} : InOrder(sid[q]) /\ pc[q] # "idle" => sid[q] # f
  BY <1>2 DEF OverlapNoticed, InOrder
<1>7. ASSUME NEW q \in Request, InOrder(sid[q]), pc[q] \in {"open", "copy"}
      PROVE  at[q] = offset[sid[q]]
  BY <1>7 DEF ChunkInPlace
<1>8. ASSUME NEW q \in Request, InOrder(sid[q]), pc[q] = "copy", NEW k \in 1 .. Len(body'[q])
      PROVE  at[q] + k <= Len(data'[sid[q]]) /\ data'[sid[q]][at[q] + k] = body'[q][k]
  <2>1. CASE q # r
    BY <1>2, <1>6, <1>8, <2>1 DEF ChunkInPlace
  <2>2. CASE q = r /\ k \in 1 .. Len(body[r])
    <3>1. at[r] + k <= Len(data[f]) /\ data[f][at[r] + k] = body[r][k] /\ at[r] \in Nat
      BY <1>8, <2>2 DEF ChunkInPlace
    <3>2. at[r] + k \in 1 .. Len(data[f]) /\ at[r] + k # pos + 1
      BY <1>1, <2>2, <3>1, SMTT(30)
    <3>3. data'[f][at[r] + k] = data[f][at[r] + k] /\ body'[r][k] = body[r][k]
      BY <1>3, <1>4, <2>2, <3>2
    <3>4. Len(data[f]) <= Len(data'[f])
      BY <1>3
    <3> QED
      BY <1>1, <1>3, <2>2, <3>1, <3>2, <3>3, <3>4
  <2>3. CASE q = r /\ k = Len(body[r]) + 1
    <3>1. at[r] + k = pos + 1
      BY <1>1, <2>3
    <3>2. data'[f][at[r] + k] = b /\ body'[r][k] = b
      BY <1>3, <1>4, <2>3, <3>1
    <3>3. pos + 1 <= Len(data'[f])
      BY <1>3
    <3> QED
      BY <2>3, <3>1, <3>2, <3>3
  <2> QED
    BY <1>1, <1>4, <2>1, <2>2, <2>3
<1>9. ChunkInPlace'
  <2> HIDE DEF ResumeInv, FileInv, TypeOK, f, pos
  <2>1. \A q \in Request : InOrder(sid[q])' <=> InOrder(sid[q])
    BY <1>2 DEF InOrder
  <2> QED
    BY <1>2, <1>7, <1>8, <2>1 DEF ChunkInPlace
<1>10. ASSUME NEW s \in Session, InOrder(s)
       PROVE  offset[s] = Len(stored[s]) /\ Prefix(stored[s], data'[s])
  <2>1. offset[s] = Len(stored[s]) /\ Prefix(stored[s], data[s])
    BY <1>10 DEF ResumeKeepsPrefix
  <2>2. CASE s # f
    BY <1>2, <2>1, <2>2
  <2>3. CASE s = f
    <3>1. at[r] = Len(stored[f])
      BY <1>2, <1>10, <2>1, <2>3 DEF ChunkInPlace
    <3>2. \A k \in 1 .. Len(stored[f]) : k \in 1 .. Len(data[f]) /\ k # pos + 1
      BY <1>1, <2>1, <2>3, <3>1 DEF Prefix
    <3> QED
      BY <1>1, <1>3, <2>1, <2>3, <3>2 DEF Prefix
  <2> QED
    BY <2>2, <2>3
<1>11. ResumeKeepsPrefix'
  BY <1>2, <1>10 DEF ResumeKeepsPrefix, InOrder
<1> QED
  BY <1>5, <1>9, <1>11

(* The chunk that is complete is what the file goes on with. *)
LEMMA ResumeInvSetOffset ==
  ASSUME ResumeInv, NEW r \in Request, SetOffset(r)
  PROVE  OverlapNoticed' /\ ChunkInPlace' /\ ResumeKeepsPrefix'
<1> USE DEF ResumeInv, FileInv, TypeOK
<1> DEFINE f == sid[r]
<1>1. /\ pc[r] = "copy" /\ pc'[r] \in {"reply", "complete"}
      /\ \A q \in Request \ {r} : pc'[q] = pc[q]
      /\ offset' = [offset EXCEPT ![f] = at[r] + Len(body[r])]
      /\ stored' = IF InOrder(f) THEN [stored EXCEPT ![f] = @ \o body[r]] ELSE stored
      /\ UNCHANGED <<data, sid, at, body, overlapped, misplaced>>
  BY DEF SetOffset, Goto, requestVars
<1>2. OverlapNoticed'
  BY <1>1 DEF OverlapNoticed
<1>3. \A q \in Request \ {r} : InOrder(sid[q]) /\ pc[q] # "idle" => sid[q] # f
  BY <1>1 DEF OverlapNoticed, InOrder
<1>4. ChunkInPlace'
  <2>1. \A q \in Request : InOrder(sid[q])' <=> InOrder(sid[q])
    BY <1>1 DEF InOrder
  <2>2. \A q \in Request \ {r} : InOrder(sid[q]) /\ pc[q] # "idle" => offset'[sid[q]] = offset[sid[q]]
    BY <1>1, <1>3
  <2>3. ChunkInPlace
    OBVIOUS
  <2> HIDE DEF ResumeInv, FileInv, TypeOK, f
  <2> QED
    BY <1>1, <2>1, <2>2, <2>3 DEF ChunkInPlace
<1>5. ASSUME NEW s \in Session, InOrder(s)
      PROVE  offset'[s] = Len(stored'[s]) /\ Prefix(stored'[s], data[s])
  <2>1. offset[s] = Len(stored[s]) /\ Prefix(stored[s], data[s])
    BY <1>5 DEF ResumeKeepsPrefix
  <2>2. CASE s # f
    BY <1>1, <2>1, <2>2
  <2>3. CASE s = f
    <3>1. /\ Len(stored[f]) \in Nat /\ Len(body[r]) \in Nat
          /\ Len(stored[f] \o body[r]) = Len(stored[f]) + Len(body[r])
          /\ \A k \in 1 .. Len(stored[f]) + Len(body[r]) :
               (stored[f] \o body[r])[k] = IF k <= Len(stored[f]) THEN stored[f][k]
                                           ELSE body[r][k - Len(stored[f])]
      BY ConcatProperties, LenProperties
    <3>2. /\ at[r] = Len(stored[f])
          /\ \A k \in 1 .. Len(body[r]) :
               at[r] + k <= Len(data[f]) /\ data[f][at[r] + k] = body[r][k]
      BY <1>1, <1>5, <2>1, <2>3 DEF ChunkInPlace
    <3>3. stored'[f] = stored[f] \o body[r] /\ offset'[f] = at[r] + Len(body[r])
      BY <1>1, <1>5, <2>3
    <3>4. Len(stored[f] \o body[r]) <= Len(data[f])
      <4>1. CASE body[r] = <<>>
        BY <2>1, <2>3, <3>1, <4>1, EmptySeq DEF Prefix
      <4>2. CASE body[r] # <<>>
        BY <1>1, <3>1, <3>2, <4>2 DEF ChunkWithinFile
      <4> QED
        BY <4>1, <4>2
    <3>5. ASSUME NEW k \in 1 .. Len(stored[f] \o body[r])
          PROVE  (stored[f] \o body[r])[k] = data[f][k]
      <4>1. CASE k <= Len(stored[f])
        BY <2>1, <2>3, <3>1, <3>5, <4>1 DEF Prefix
      <4>2. CASE k > Len(stored[f])
        <5> DEFINE j == k - Len(stored[f])
        <5>1. j \in 1 .. Len(body[r]) /\ at[r] + j = k
          BY <3>1, <3>2, <3>5, <4>2
        <5>2. (stored[f] \o body[r])[k] = body[r][j]
          BY <3>1, <3>5, <4>2
        <5> HIDE DEF j
        <5> QED
          BY <3>2, <5>1, <5>2
      <4> QED
        BY <3>1, <3>5, <4>1, <4>2
    <3> QED
      BY <2>3, <3>1, <3>2, <3>3, <3>4, <3>5 DEF Prefix
  <2> QED
    BY <2>2, <2>3
<1>6. ResumeKeepsPrefix'
  BY <1>1, <1>5 DEF ResumeKeepsPrefix, InOrder
<1> QED
  BY <1>2, <1>4, <1>6

LEMMA NextResumeInv ==
  ASSUME ResumeInv, [Next]_vars
  PROVE  ResumeInv'
<1>1. FileInv' /\ TypeOK
  BY NextFileInv DEF ResumeInv, FileInv
<1> SUFFICES OverlapNoticed' /\ ChunkInPlace' /\ ResumeKeepsPrefix'
  BY <1>1 DEF ResumeInv
<1>2. ASSUME NEW r \in Request, OpenFile(r)
      PROVE  OverlapNoticed' /\ ChunkInPlace' /\ ResumeKeepsPrefix'
  <2>1. /\ UNCHANGED <<data, offset, sid, at, body, stored, overlapped, misplaced>>
        /\ pc[r] = "open" /\ \A q \in Request \ {r} : pc'[q] = pc[q]
    BY <1>1, <1>2 DEF OpenFile, Goto, TypeOK, fileVars, requestVars, history
  <2>2. body[r] = <<>>
    BY <2>1 DEF ResumeInv, FileInv, ChunkWithinFile
  <2>3. OverlapNoticed' /\ ResumeKeepsPrefix'
    BY <2>1 DEF ResumeInv, OverlapNoticed, ResumeKeepsPrefix, InOrder
  <2>4. ChunkInPlace'
    BY <2>1, <2>2, EmptySeq DEF ResumeInv, ChunkInPlace, InOrder
  <2> QED
    BY <2>3, <2>4
<1>3. CASE Aside
  BY <1>3 DEF Aside, ResumeInv, OverlapNoticed, ChunkInPlace, ResumeKeepsPrefix, InOrder
<1> QED
  BY <1>1, <1>2, <1>3, StepKinds, ResumeInvBegin, ResumeInvCopyByte, ResumeInvSetOffset

LEMMA ResumeInvariance == Spec => []ResumeInv
<1>1. ResumeInv /\ [Next]_vars => ResumeInv'
  BY NextResumeInv
<1> QED
  BY <1>1, InitResumeInv, PTL DEF Spec

(* A client that resumes at the offset of a session used in order loses    *)
(* nothing and repeats nothing.                                            *)
THEOREM ResumeKeepsPrefixInvariant == Spec => []ResumeKeepsPrefix
<1>1. ResumeInv => ResumeKeepsPrefix
  BY DEF ResumeInv
<1> QED
  BY <1>1, ResumeInvariance, PTL
-----------------------------------------------------------------------------
(* A step that changes neither files nor offsets nor who copies. *)
LEMMA NothingBehindFrame ==
  ASSUME NothingBehind, UNCHANGED <<data, offset>>,
         \A s \in Session : InOrder(s)' /\ s \notin broken' => InOrder(s) /\ s \notin broken,
         \A q \in Request : /\ pc'[q] = "copy" <=> pc[q] = "copy"
                            /\ pc[q] = "copy" => sid'[q] = sid[q] /\ body'[q] = body[q]
  PROVE  NothingBehind'
<1> SUFFICES ASSUME NEW s \in Session, InOrder(s)', s \notin broken'
             PROVE  /\ \A r \in Request : pc'[r] = "copy" /\ sid'[r] = s =>
                         Len(data[s]) = offset[s] + Len(body'[r])
                    /\ (\A r \in Request : sid'[r] = s => pc'[r] # "copy") =>
                         Len(data[s]) = offset[s]
  BY DEF NothingBehind
<1>1. InOrder(s) /\ s \notin broken
  OBVIOUS
<1> QED
  BY <1>1 DEF NothingBehind

(* The steps of a request that writes. *)
LEMMA NothingBehindWrite ==
  ASSUME ResumeInv, NothingBehind, NEW r \in Request,
         \/ OpenFile(r) \/ CopyFails(r) \/ SetOffset(r)
         \/ \E b \in Byte : CopyByte(r, b)
  PROVE  NothingBehind'
<1> DEFINE f == sid[r]
<1>1. TypeOK
  BY DEF ResumeInv, FileInv
<1>2. /\ UNCHANGED <<sid, overlapped, misplaced>> /\ broken \subseteq broken'
      /\ pc[r] \in {"open", "copy"} /\ \A q \in Request \ {r} : pc'[q] = pc[q] /\ body'[q] = body[q]
      /\ \A s \in Session \ {f} : data'[s] = data[s] /\ offset'[s] = offset[s]
  BY <1>1 DEF OpenFile, CopyFails, SetOffset, CopyByte, Goto, TypeOK, requestVars, history,
              fileVars
<1>3. ASSUME NEW q \in Request, q # r, sid[q] = f, InOrder(f)
      PROVE  pc[q] # "copy"
  BY <1>2, <1>3 DEF ResumeInv, OverlapNoticed, InOrder
<1>4. ASSUME InOrder(f), f \notin broken'
      PROVE  IF pc'[r] = "copy" THEN Len(data'[f]) = offset'[f] + Len(body'[r])
             ELSE Len(data'[f]) = offset'[f]
  <2>1. /\ f \in Session /\ offset[f] \in Nat /\ Len(body[r]) \in Nat /\ Len(data[f]) \in Nat
        /\ f \notin broken
    BY <1>1, <1>2, <1>4, LenProperties DEF TypeOK
  <2>2. pc[r] = "copy" => Len(data[f]) = offset[f] + Len(body[r])
    BY <1>4, <2>1 DEF NothingBehind
  <2>3. pc[r] = "open" => Len(data[f]) = offset[f]
    BY <1>3, <1>4, <2>1 DEF NothingBehind
  <2>4. at[r] = offset[f]
    BY <1>2, <1>4 DEF ResumeInv, ChunkInPlace
  <2>5. CASE OpenFile(r)
    <3>1. body[r] = <<>> /\ Len(body[r]) = 0
      BY <2>5, EmptySeq DEF OpenFile, ResumeInv, FileInv, ChunkWithinFile
    <3> QED
      BY <2>1, <2>3, <2>5, <3>1 DEF OpenFile, fileVars
  <2>6. CASE CopyFails(r)
    <3>1. body[r] = <<>>
      BY <1>1, <1>4, <2>6 DEF CopyFails, TypeOK
    <3>2. pc'[r] = "idle" /\ pc[r] = "copy" /\ UNCHANGED <<data, offset>>
      BY <1>1, <2>6 DEF CopyFails, Goto, TypeOK, fileVars
    <3> QED
      BY <2>1, <2>2, <3>1, <3>2, EmptySeq
  <2>7. CASE SetOffset(r)
    <3>1. pc'[r] # "copy" /\ pc[r] = "copy" /\ data' = data /\ offset'[f] = at[r] + Len(body[r])
      BY <1>1, <2>7 DEF SetOffset, Goto, TypeOK
    <3> QED
      BY <2>2, <2>4, <3>1
  <2>8. ASSUME NEW b \in Byte, CopyByte(r, b)
        PROVE  pc'[r] = "copy" /\ Len(data'[f]) = offset'[f] + Len(body'[r])
    <3> DEFINE pos == at[r] + Len(body[r])
    <3>1. /\ pc'[r] = "copy" /\ pc[r] = "copy" /\ offset' = offset
          /\ data'[f] = WriteAt(data[f], pos, b) /\ body'[r] = Append(body[r], b)
      BY <1>1, <2>8 DEF CopyByte, TypeOK
    <3>2. pos = Len(data[f]) /\ pos \in Nat
      BY <2>1, <2>2, <2>4, <3>1
    <3>3. data[f] \in Seq(Byte) /\ body[r] \in Seq(Byte)
      BY <1>1 DEF TypeOK
    <3> HIDE DEF pos
    <3>4. Len(data'[f]) = pos + 1
      <4>1. Len(WriteAt(data[f], pos, b)) = IF pos < Len(data[f]) THEN Len(data[f]) ELSE pos + 1
        BY <3>2, <3>3, WriteAtValue
      <4> QED
        BY <3>1, <3>2, <4>1
    <3>5. Len(body'[r]) = Len(body[r]) + 1
      BY <3>1, <3>3, AppendProperties
    <3> QED
      BY <2>1, <2>2, <3>1, <3>2, <3>4, <3>5, SMTT(30)
  <2> QED
    BY <2>5, <2>6, <2>7, <2>8
<1> SUFFICES ASSUME NEW s \in Session, InOrder(s), s \notin broken'
             PROVE  /\ \A q \in Request : pc'[q] = "copy" /\ sid[q] = s =>
                         Len(data'[s]) = offset'[s] + Len(body'[q])
                    /\ (\A q \in Request : sid[q] = s => pc'[q] # "copy") =>
                         Len(data'[s]) = offset'[s]
  BY <1>2 DEF NothingBehind, InOrder
<1>5. CASE s # f
  <2>1. s \notin broken
    BY <1>2
  <2>2. \A q \in Request : sid[q] = s => pc'[q] = pc[q] /\ body'[q] = body[q]
    BY <1>2, <1>5
  <2> QED
    BY <1>2, <1>5, <2>1, <2>2 DEF NothingBehind
<1>6. CASE s = f
  BY <1>2, <1>3, <1>4, <1>6
<1> QED
  BY <1>5, <1>6

LEMMA NothingBehindNext ==
  ASSUME ResumeInv, NothingBehind, [Next]_vars
  PROVE  NothingBehind'
<1>1. TypeOK
  BY DEF ResumeInv, FileInv
<1>2. ASSUME NEW r \in Request, NEW s \in Session, Begins(r, s) PROVE NothingBehind'
  <2>1. /\ UNCHANGED <<data, offset, broken>> /\ overlapped \subseteq overlapped'
        /\ misplaced \subseteq misplaced' /\ pc[r] = "idle" /\ pc'[r] \in {"open", "complete"}
        /\ \A q \in Request \ {r} : pc'[q] = pc[q] /\ sid'[q] = sid[q] /\ body'[q] = body[q]
    BY <1>1, <1>2, BeginEffect
  <2> QED
    BY <2>1, NothingBehindFrame DEF InOrder
<1>3. ASSUME UNCHANGED <<data, offset, broken, sid, body, overlapped, misplaced>>,
             \A q \in Request : pc'[q] = "copy" <=> pc[q] = "copy"
      PROVE  NothingBehind'
  BY <1>3, NothingBehindFrame DEF InOrder
<1> USE DEF fileVars, requestVars, history
<1>4. ASSUME NEW s \in Session, CreateUpload(s) \/ CancelUpload(s) PROVE NothingBehind'
  BY <1>3, <1>4 DEF CreateUpload, CancelUpload
<1>5. ASSUME NEW r \in Request,
             Reply(r) \/ OpenForBlob(r) \/ ReadByte(r) \/ ReadEnd(r) \/ ReadFails(r) \/ Finish(r)
      PROVE  NothingBehind'
  BY <1>1, <1>3, <1>5 DEF Reply, OpenForBlob, ReadByte, ReadEnd, ReadFails, Finish, Goto, TypeOK
<1>6. CASE Restart
  <2>1. /\ UNCHANGED <<data, offset, sid, overlapped, misplaced>> /\ broken \subseteq broken'
        /\ \A q \in Request : pc'[q] = "idle"
        /\ \A q \in Request : pc[q] = "copy" => sid[q] \in broken'
    BY <1>6 DEF Restart
  <2> QED
    BY <2>1 DEF NothingBehind, InOrder
<1>7. CASE UNCHANGED vars
  BY <1>3, <1>7 DEF vars
<1> QED
  BY <1>2, <1>4, <1>5, <1>6, <1>7, NothingBehindWrite DEF Next, Begins
-----------------------------------------------------------------------------
LEMMA PrefixOfAll ==
  ASSUME NEW p \in Seq(Byte), NEW q \in Seq(Byte), Prefix(p, q), Len(p) >= Len(q)
  PROVE  p = q
<1>1. Len(p) \in Nat /\ Len(q) \in Nat
  BY LenProperties
<1>2. Len(p) = Len(q)
  BY <1>1 DEF Prefix
<1> QED
  BY <1>2, SeqEqual DEF Prefix

(* The claims of ReadFromFile about one request. *)
ReadsFile(r) ==
  InOrder(sid[r]) =>
     /\ pc[r] = "complete" => got[r] = <<>>
     /\ pc[r] = "read" => Prefix(got[r], data[sid[r]])
     /\ pc[r] = "finish" => got[r] = data[sid[r]] /\ digest[r] = got[r]
     /\ pc[r] \in {"open", "copy"} => got[r] = <<>>

LEMMA ReadsFileBegin ==
  ASSUME TypeOK, ReadFromFile, NEW r \in Request, NEW s \in Session, Begins(r, s),
         NEW q \in Request
  PROVE  ReadsFile(q)'
<1>1. /\ pc'[r] \in {"open", "complete"} /\ got'[r] = <<>> /\ data' = data
      /\ overlapped \subseteq overlapped' /\ misplaced \subseteq misplaced'
  BY BeginEffect
<1>2. q # r => /\ pc'[q] = pc[q] /\ sid'[q] = sid[q] /\ got'[q] = got[q]
               /\ digest'[q] = digest[q]
  BY BeginEffect
<1>3. CASE q = r
  BY <1>1, <1>3 DEF ReadsFile
<1>4. CASE q # r
  BY <1>1, <1>2, <1>4 DEF ReadFromFile, ReadsFile, InOrder
<1> QED
  BY <1>3, <1>4

(* A file that is being read in order is not being written. *)
LEMMA ReadsFileCopyByte ==
  ASSUME ResumeInv, ReadFromFile, NEW r \in Request, NEW b \in Byte, CopyByte(r, b),
         NEW q \in Request
  PROVE  ReadsFile(q)'
<1>1. /\ pc[r] = "copy" /\ UNCHANGED <<pc, sid, got, digest, overlapped, misplaced>>
      /\ \A s \in Session \ {sid[r]} : data'[s] = data[s]
  BY DEF CopyByte, requestVars, history, ResumeInv, FileInv, TypeOK
<1>2. sid[q] \in Session
  BY DEF ResumeInv, FileInv, TypeOK
<1>3. CASE sid[q] = sid[r] /\ q # r /\ pc[q] # "idle"
  BY <1>1, <1>3 DEF ResumeInv, OverlapNoticed, ReadsFile, InOrder
<1>4. CASE q = r \/ pc[q] = "idle"
  BY <1>1, <1>4 DEF ReadFromFile, ReadsFile, InOrder
<1>5. CASE sid[q] # sid[r]
  BY <1>1, <1>2, <1>5 DEF ReadFromFile, ReadsFile, InOrder
<1> QED
  BY <1>3, <1>4, <1>5

LEMMA ReadsFileRead ==
  ASSUME TypeOK, ReadFromFile, NEW r \in Request, OpenForBlob(r) \/ ReadByte(r) \/ ReadEnd(r),
         NEW q \in Request
  PROVE  ReadsFile(q)'
<1> DEFINE file == data[sid[r]]
<1>1. /\ UNCHANGED <<data, sid, digest, overlapped, misplaced>>
      /\ \A p \in Request \ {r} : pc'[p] = pc[p] /\ got'[p] = got[p]
  BY DEF OpenForBlob, ReadByte, ReadEnd, Goto, TypeOK, fileVars, requestVars, history
<1>2. CASE q # r
  BY <1>1, <1>2 DEF ReadFromFile, ReadsFile, InOrder
<1>3. got[r] \in Seq(Byte) /\ file \in Seq(Byte)
  BY DEF TypeOK
<1>4. Len(got[r]) \in Nat /\ Len(file) \in Nat
  BY <1>3, LenProperties
<1>5. ASSUME OpenForBlob(r), InOrder(sid[r])
      PROVE  pc'[r] \in {"read", "idle"} /\ Prefix(got'[r], file)
  <2>1. got'[r] = <<>> /\ pc'[r] \in {"read", "idle"}
    BY <1>5 DEF OpenForBlob, Goto, TypeOK, ReadFromFile
  <2> QED
    BY <1>4, <2>1, EmptySeq DEF Prefix
<1>6. ASSUME ReadByte(r), InOrder(sid[r])
      PROVE  pc'[r] = "read" /\ Prefix(got'[r], file)
  <2>1. /\ pc[r] = "read" /\ pc' = pc /\ Len(got[r]) < Len(file)
        /\ got'[r] = Append(got[r], file[Len(got[r]) + 1])
    BY <1>6 DEF ReadByte, TypeOK
  <2>2. Prefix(got[r], file)
    BY <1>6, <2>1 DEF ReadFromFile
  <2>3. file[Len(got[r]) + 1] \in Byte
    BY <1>3, <1>4, <2>1, ElementOfSeq
  <2> HIDE DEF file
  <2>4. /\ Len(got'[r]) = Len(got[r]) + 1
        /\ \A k \in 1 .. Len(got[r]) : got'[r][k] = got[r][k]
        /\ got'[r][Len(got[r]) + 1] = file[Len(got[r]) + 1]
    BY <1>3, <2>1, <2>3, AppendProperties
  <2>5. ASSUME NEW k \in 1 .. Len(got[r]) + 1 PROVE got'[r][k] = file[k]
    BY <1>4, <2>2, <2>4 DEF Prefix
  <2> QED
    BY <1>4, <2>1, <2>4, <2>5 DEF Prefix
<1>7. ASSUME ReadEnd(r), InOrder(sid[r])
      PROVE  /\ pc'[r] \in {"finish", "idle"}
             /\ pc'[r] = "finish" => got'[r] = file /\ digest[r] = got'[r]
  <2>1. /\ pc[r] = "read" /\ Len(got[r]) >= Len(file) /\ got' = got
        /\ pc'[r] = IF got[r] = digest[r] THEN "finish" ELSE "idle"
    BY <1>7 DEF ReadEnd, Goto, TypeOK
  <2>2. Prefix(got[r], file)
    BY <1>7, <2>1 DEF ReadFromFile
  <2>3. got[r] = file
    BY <1>3, <2>1, <2>2, PrefixOfAll
  <2> QED
    BY <2>1, <2>3
<1>8. CASE q = r
  BY <1>1, <1>5, <1>6, <1>7, <1>8 DEF ReadsFile, InOrder
<1> QED
  BY <1>2, <1>8

LEMMA ReadFromFileNext ==
  ASSUME ResumeInv, ReadFromFile, [Next]_vars
  PROVE  ReadFromFile'
<1>1. TypeOK
  BY DEF ResumeInv, FileInv
<1> SUFFICES ASSUME NEW q \in Request PROVE ReadsFile(q)'
  BY DEF ReadFromFile, ReadsFile
<1>2. ASSUME UNCHANGED <<data, sid, got, digest, overlapped, misplaced>>,
             \/ pc'[q] = pc[q] \/ pc'[q] \in {"idle", "reply"}
             \/ pc[q] \in {"open", "copy"} /\ pc'[q] \in {"copy", "complete"}
      PROVE  ReadsFile(q)'
  BY <1>2 DEF ReadFromFile, ReadsFile, InOrder
<1> USE DEF fileVars, requestVars, history
<1>3. ASSUME NEW s \in Session, CreateUpload(s) \/ CancelUpload(s) PROVE ReadsFile(q)'
  BY <1>2, <1>3 DEF CreateUpload, CancelUpload
<1>4. ASSUME NEW r \in Request,
             OpenFile(r) \/ CopyFails(r) \/ SetOffset(r) \/ Reply(r) \/ ReadFails(r) \/ Finish(r)
      PROVE  ReadsFile(q)'
  BY <1>1, <1>2, <1>4 DEF OpenFile, CopyFails, SetOffset, Reply, ReadFails, Finish, Goto, TypeOK
<1>5. CASE Restart
  BY <1>2, <1>5 DEF Restart
<1>6. CASE UNCHANGED vars
  BY <1>2, <1>6 DEF vars
<1> QED
  BY <1>1, <1>3, <1>4, <1>5, <1>6, ReadsFileBegin, ReadsFileCopyByte, ReadsFileRead
     DEF Next, Begins

LEMMA PublishInvariance == Spec => []PublishInv
<1>1. Init => PublishInv
  <2> SUFFICES ASSUME Init PROVE NothingBehind /\ ReadFromFile
    BY InitResumeInv DEF PublishInv
  <2>1. \A s \in Session : offset[s] = 0 /\ data[s] = <<>>
    BY DEF Init
  <2>2. \A r \in Request : pc[r] = "idle"
    BY DEF Init
  <2> QED
    BY <2>1, <2>2, EmptySeq DEF NothingBehind, ReadFromFile
<1>2. PublishInv /\ [Next]_vars => PublishInv'
  BY NextResumeInv, NothingBehindNext, ReadFromFileNext DEF PublishInv
<1> QED
  BY <1>1, <1>2, PTL DEF Spec

(* Closing an upload used in order stores exactly what was accepted. *)
THEOREM PublishesWhatWasAcceptedInvariant == Spec => []PublishesWhatWasAccepted
<1>1. ASSUME PublishInv PROVE PublishesWhatWasAccepted
  <2> SUFFICES ASSUME NEW r \in Request, InOrder(sid[r]), pc[r] \in {"read", "finish"}
               PROVE  /\ pc[r] = "finish" => Prefix(stored[sid[r]], digest[r])
                      /\ sid[r] \notin broken =>
                           /\ Prefix(got[r], stored[sid[r]])
                           /\ pc[r] = "finish" => digest[r] = stored[sid[r]]
    BY DEF PublishesWhatWasAccepted
  <2> DEFINE s == sid[r]
  <2>1. /\ s \in Session /\ stored[s] \in Seq(Byte) /\ data[s] \in Seq(Byte)
    BY <1>1 DEF PublishInv, ResumeInv, FileInv, TypeOK
  <2>2. offset[s] = Len(stored[s]) /\ Prefix(stored[s], data[s])
    BY <1>1, <2>1 DEF PublishInv, ResumeInv, ResumeKeepsPrefix
  <2>3. pc[r] = "finish" => got[r] = data[s] /\ digest[r] = data[s]
    BY <1>1 DEF PublishInv, ReadFromFile
  <2>4. pc[r] = "read" => Prefix(got[r], data[s])
    BY <1>1 DEF PublishInv, ReadFromFile
  <2>5. ASSUME s \notin broken PROVE stored[s] = data[s]
    <3>1. \A q \in Request : sid[q] = s => pc[q] # "copy"
      BY <1>1 DEF PublishInv, ResumeInv, OverlapNoticed, InOrder
    <3>2. Len(data[s]) = offset[s]
      BY <1>1, <2>1, <2>5, <3>1 DEF PublishInv, NothingBehind
    <3>3. Len(data[s]) \in Nat
      BY <2>1, LenProperties
    <3> QED
      BY <2>1, <2>2, <3>2, <3>3, PrefixOfAll
  <2>6. Prefix(data[s], data[s])
    BY <2>1, LenProperties DEF Prefix
  <2> QED
    BY <2>2, <2>3, <2>4, <2>5, <2>6
<1> QED
  BY <1>1, PublishInvariance, PTL
-----------------------------------------------------------------------------
LEMMA CoveredBehindNext ==
  ASSUME ResumeInv, CoveredBehind, [Next]_vars
  PROVE  CoveredBehind'
<1>1. TypeOK
  BY DEF ResumeInv, FileInv
<1>2. ASSUME UNCHANGED <<covered, offset>>, \A s \in Session : InOrder(s)' => InOrder(s),
             \A q \in Request : pc'[q] = "reply" =>
               pc[q] = "reply" /\ sid'[q] = sid[q] /\ at'[q] = at[q] /\ body'[q] = body[q]
      PROVE  CoveredBehind'
  <2>1. \A q \in Request : sid[q] \in Session
    BY <1>1 DEF TypeOK
  <2>2. \A s \in Session : s \notin overlapped' \cup misplaced' => InOrder(s)
    BY <1>2 DEF InOrder
  <2>3. ASSUME NEW q \in Request, sid'[q] \notin overlapped' \cup misplaced', pc'[q] = "reply"
        PROVE  /\ at'[q] + Len(body'[q]) = offset'[sid'[q]]
               /\ \A p \in covered'[sid'[q]] : p < at'[q]
    BY <1>2, <2>1, <2>2, <2>3 DEF CoveredBehind
  <2>4. ASSUME NEW s \in Session, s \notin overlapped' \cup misplaced'
        PROVE  \A p \in covered'[s] : p < offset'[s]
    BY <1>2, <2>2, <2>4 DEF CoveredBehind
  <2> QED
    BY <2>3, <2>4 DEF CoveredBehind, InOrder
<1>3. ASSUME NEW r \in Request, NEW s \in Session, Begins(r, s) PROVE CoveredBehind'
  <2>1. /\ UNCHANGED <<offset, covered>> /\ overlapped \subseteq overlapped'
        /\ misplaced \subseteq misplaced' /\ pc'[r] \in {"open", "complete"}
        /\ \A q \in Request \ {r} : pc'[q] = pc[q] /\ sid'[q] = sid[q] /\ at'[q] = at[q]
                                    /\ body'[q] = body[q]
    BY <1>1, <1>3, BeginEffect
  <2> QED
    BY <1>2, <2>1 DEF InOrder
<1>4. ASSUME NEW r \in Request, SetOffset(r) PROVE CoveredBehind'
  <2> DEFINE f == sid[r]
  <2>1. /\ pc[r] = "copy" /\ \A q \in Request \ {r} : pc'[q] = pc[q]
        /\ offset' = [offset EXCEPT ![f] = at[r] + Len(body[r])]
        /\ UNCHANGED <<covered, sid, at, body, overlapped, misplaced>>
    BY <1>1, <1>4 DEF SetOffset, Goto, TypeOK, requestVars
  <2>2. \A q \in Request \ {r} : InOrder(sid[q]) /\ pc[q] # "idle" => sid[q] # f
    BY <2>1 DEF ResumeInv, OverlapNoticed, InOrder
  <2>3. ASSUME InOrder(f)
        PROVE  /\ at[r] = offset[f] /\ offset'[f] = at[r] + Len(body[r])
               /\ \A p \in covered[f] : p < at[r] /\ p < offset'[f]
    <3>1. at[r] = offset[f] /\ offset'[f] = at[r] + Len(body[r])
      BY <1>1, <2>1, <2>3 DEF ResumeInv, ChunkInPlace, TypeOK
    <3>2. at[r] \in Nat /\ Len(body[r]) \in Nat /\ covered[f] \in SUBSET Nat /\ f \in Session
      BY <1>1, LenProperties DEF TypeOK
    <3>3. \A p \in covered[f] : p < offset[f]
      BY <2>3, <3>2 DEF CoveredBehind
    <3> QED
      BY <3>1, <3>2, <3>3
  <2>4. ASSUME NEW s \in Session, InOrder(s) PROVE \A p \in covered[s] : p < offset'[s]
    BY <1>1, <2>1, <2>3, <2>4 DEF CoveredBehind, TypeOK
  <2>5. ASSUME NEW q \in Request, InOrder(sid[q]), pc'[q] = "reply"
        PROVE  at[q] + Len(body[q]) = offset'[sid[q]] /\ \A p \in covered[sid[q]] : p < at[q]
    <3>1. CASE q = r
      BY <2>3, <2>5, <3>1
    <3>2. CASE q # r
      BY <1>1, <2>1, <2>2, <2>5, <3>2 DEF CoveredBehind, TypeOK
    <3> QED
      BY <3>1, <3>2
  <2> QED
    BY <2>1, <2>4, <2>5 DEF CoveredBehind, InOrder
<1>5. ASSUME NEW r \in Request, Reply(r) PROVE CoveredBehind'
  <2> DEFINE f == sid[r]
  <2>1. /\ pc[r] = "reply" /\ pc'[r] = "idle" /\ \A q \in Request \ {r} : pc'[q] = pc[q]
        /\ \A s \in Session \ {f} : covered'[s] = covered[s]
        /\ covered'[f] \subseteq covered[f] \cup Positions(r)
        /\ UNCHANGED <<offset, sid, at, body, overlapped, misplaced>> /\ f \in Session
    BY <1>1, <1>5 DEF Reply, Goto, TypeOK, fileVars, requestVars
  <2>2. \A q \in Request \ {r} : InOrder(sid[q]) /\ pc[q] # "idle" => sid[q] # f
    BY <2>1 DEF ResumeInv, OverlapNoticed, InOrder
  <2>3. ASSUME InOrder(f), NEW p \in Positions(r) PROVE p < offset[f]
    <3>1. at[r] + Len(body[r]) = offset[f] /\ at[r] \in Nat /\ Len(body[r]) \in Nat
      BY <1>1, <2>1, <2>3, LenProperties DEF CoveredBehind, TypeOK
    <3> QED
      BY <2>3, <3>1 DEF Positions
  <2>4. ASSUME NEW s \in Session, InOrder(s) PROVE \A p \in covered'[s] : p < offset[s]
    BY <2>1, <2>3, <2>4 DEF CoveredBehind
  <2>5. ASSUME NEW q \in Request, InOrder(sid[q]), pc'[q] = "reply"
        PROVE  at[q] + Len(body[q]) = offset[sid[q]] /\ \A p \in covered'[sid[q]] : p < at[q]
    <3>1. q # r /\ pc[q] = "reply" /\ sid[q] # f /\ sid[q] \in Session
      BY <1>1, <2>1, <2>2, <2>5 DEF TypeOK
    <3> QED
      BY <2>1, <2>5, <3>1 DEF CoveredBehind
  <2> QED
    BY <2>1, <2>4, <2>5 DEF CoveredBehind, InOrder
<1> USE DEF fileVars, requestVars, history
<1>6. ASSUME NEW s \in Session, CreateUpload(s) \/ CancelUpload(s) PROVE CoveredBehind'
  BY <1>2, <1>6 DEF CreateUpload, CancelUpload, InOrder
<1>7. ASSUME NEW r \in Request,
             OpenFile(r) \/ CopyFails(r) \/ OpenForBlob(r) \/ ReadByte(r) \/ ReadEnd(r)
               \/ ReadFails(r) \/ Finish(r)
      PROVE  CoveredBehind'
  BY <1>1, <1>2, <1>7
     DEF OpenFile, CopyFails, OpenForBlob, ReadByte, ReadEnd, ReadFails, Finish, Goto, TypeOK,
         InOrder
<1>8. ASSUME NEW r \in Request, NEW b \in Byte, CopyByte(r, b) PROVE CoveredBehind'
  BY <1>1, <1>2, <1>8 DEF CopyByte, TypeOK, InOrder
<1>9. CASE Restart
  BY <1>2, <1>9 DEF Restart, InOrder
<1>10. CASE UNCHANGED vars
  BY <1>2, <1>10 DEF vars, InOrder
<1> QED
  BY <1>3, <1>4, <1>5, <1>6, <1>7, <1>8, <1>9, <1>10 DEF Next, Begins

(* One request at a time, no position of an upload is accepted twice. *)
THEOREM SerialChunkOnceInvariant == Spec => []SerialChunkOnce
<1>1. Init => AcceptInv
  <2> SUFFICES ASSUME Init PROVE CoveredBehind
    BY InitResumeInv DEF AcceptInv
  <2> QED
    BY DEF Init, CoveredBehind
<1>2. AcceptInv /\ [Next]_vars => AcceptInv'
  BY NextResumeInv, CoveredBehindNext DEF AcceptInv
<1>3. ASSUME AcceptInv PROVE SerialChunkOnce
  <2> SUFFICES ASSUME NEW r \in Request, InOrder(sid[r]), pc[r] = "reply",
                      NEW p \in Positions(r), p \in covered[sid[r]]
               PROVE  FALSE
    BY DEF SerialChunkOnce, AcceptsOnce
  <2>1. p < at[r] /\ at[r] \in Nat /\ Len(body[r]) \in Nat
    BY <1>3, LenProperties DEF AcceptInv, CoveredBehind, ResumeInv, FileInv, TypeOK
  <2> QED
    BY <2>1 DEF Positions
<1> QED
  BY <1>1, <1>2, <1>3, PTL DEF Spec
=============================================================================
