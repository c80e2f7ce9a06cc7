--------------------------- MODULE BlobStoreProofs ---------------------------
(***************************************************************************)
(* Proofs about BlobStore, for any number of writers, readers and files,   *)
(* any digests and any bound on the streams.                               *)
(***************************************************************************)
EXTENDS BlobStore, SequenceTheorems, TLAPS

(* Writing inside, at the end of or behind a file leaves a file. *)
LEMMA WriteAtType ==
  ASSUME NEW s \in Seq(Byte), NEW off \in Nat, NEW b \in Byte
  PROVE  WriteAt(s, off, b) \in Seq(Byte)
<1> DEFINE n == IF off < Len(s) THEN Len(s) ELSE off + 1
           e(k) == IF k = off + 1 THEN b ELSE IF k <= Len(s) THEN s[k] ELSE Zero
<1>1. Len(s) \in Nat /\ n \in Nat
  BY LenProperties
<1>2. \A k \in 1 .. n : e(k) \in Byte
  BY <1>1, ElementOfSeq, ByteAssumption
<1> HIDE DEF n, e
<1>3. [k \in 1 .. n |-> e(k)] \in Seq(Byte)
  BY <1>1, <1>2, IsASeq
<1> QED
  BY <1>3 DEF WriteAt, n, e

(* Writing at the end of a file appends to it. *)
LEMMA WriteAtEnd ==
  ASSUME NEW s \in Seq(Byte), NEW b \in Byte
  PROVE  WriteAt(s, Len(s), b) = Append(s, b)
<1>1. Len(s) \in Nat
  BY LenProperties
<1>2. WriteAt(s, Len(s), b) = [k \in 1 .. Len(s) + 1 |-> IF k = Len(s) + 1 THEN b ELSE s[k]]
  BY <1>1 DEF WriteAt
<1>3. Append(s, b) = [k \in 1 .. Len(s) + 1 |-> IF k = Len(s) + 1 THEN b ELSE s[k]]
  <2>1. Append(s, b) \in [1 .. Len(s) + 1 -> Byte]
    BY AppendProperties, LenProperties
  <2>2. \A k \in 1 .. Len(s) + 1 :
          Append(s, b)[k] = IF k = Len(s) + 1 THEN b ELSE s[k]
    BY <1>1, AppendProperties
  <2> QED
    BY <2>1, <2>2
<1> QED
  BY <1>2, <1>3

(* The file a put opens is a file. *)
LEMMA TempFileIsFile ==
  ASSUME TypeOK, NEW d \in Digest, temp[d] # None \/ \E i \in Inode : Free(i)
  PROVE  /\ TempFile(d) \in Inode
         /\ temp[d] # None => TempFile(d) = temp[d]
         /\ temp[d] = None => Free(TempFile(d))
  BY DEF TempFile, TypeOK

LEMMA InitTypeOK == Init => TypeOK
  BY EmptySeq DEF Init, TypeOK, WriterState, ReaderState

(* Whoever copies or sends has a file open. *)
OpenFiles ==
  /\ \A w \in Writer : wpc[w] = "copy" => fd[w] # None
  /\ \A r \in Reader : rpc[r] \in {"size", "body"} => rfd[r] # None

TypeInv == TypeOK /\ OpenFiles

(* Every step keeps the variables in their types. *)
LEMMA NextTypeOK ==
  ASSUME TypeInv, [Next]_vars
  PROVE  TypeOK'
<1> USE DEF TypeInv, TypeOK, WriterState, ReaderState
<1>1. ASSUME NEW w \in Writer, NEW d \in Digest, Create(w, d)
      PROVE  TypeOK'
  <2>1. TempFile(d) \in Inode
    BY <1>1, TempFileIsFile DEF Create
  <2>2. alone' \in [Writer -> BOOLEAN]
    BY <1>1 DEF Create
  <2> QED
    BY <1>1, <2>1, <2>2, EmptySeq DEF Create, readerVars
<1>2. ASSUME NEW w \in Writer, NEW b \in Byte, Copy(w, b)
      PROVE  TypeOK'
  <2>1. Len(received[w]) \in Nat
    BY LenProperties
  <2>2. ASSUME fd[w] \in Inode PROVE WriteAt(data[fd[w]], Len(received[w]), b) \in Seq(Byte)
    BY <2>1, <2>2, WriteAtType
  <2>3. Append(received[w], b) \in Seq(Byte)
    BY AppendProperties
  <2>4. data' \in [Inode -> Seq(Byte)]
    BY <1>2, <2>2 DEF Copy
  <2> QED
    BY <1>2, <2>3, <2>4 DEF Copy, readerVars, putHistory
<1>3. ASSUME NEW w \in Writer, CopyFails(w)
      PROVE  TypeOK'
  BY <1>3 DEF CopyFails, BreakOff, fileVars, readerVars
<1>4. ASSUME NEW w \in Writer, CloseAndVerify(w)
      PROVE  TypeOK'
  <2>1. wpc' \in [Writer -> WriterState]
    BY <1>4 DEF CloseAndVerify, BreakOff
  <2>2. fouled' \in SUBSET Digest
    BY <1>4 DEF CloseAndVerify, BreakOff
  <2> QED
    BY <1>4, <2>1, <2>2 DEF CloseAndVerify, fileVars, readerVars
<1>5. ASSUME NEW w \in Writer, Rename(w)
      PROVE  TypeOK'
  <2>1. final' \in [Digest -> Inode \cup {None}]
    BY <1>5 DEF Rename
  <2>2. temp' \in [Digest -> Inode \cup {None}]
    BY <1>5 DEF Rename
  <2>3. sound' \in SUBSET Digest /\ fouled' \in SUBSET Digest
    BY <1>5 DEF Rename
  <2> QED
    BY <1>5, <2>1, <2>2, <2>3 DEF Rename, readerVars
<1>6. ASSUME NEW w \in Writer, Cleanup(w)
      PROVE  TypeOK'
  BY <1>6, EmptySeq DEF Cleanup, readerVars
<1>7. ASSUME NEW d \in Digest, DeleteBlob(d)
      PROVE  TypeOK'
  BY <1>7 DEF DeleteBlob, writerVars, readerVars, putHistory
<1>8. ASSUME NEW r \in Reader, NEW d \in Digest, StatBlob(r, d)
      PROVE  TypeOK'
  BY <1>8 DEF StatBlob, fileVars, writerVars, putHistory
<1>9. ASSUME NEW r \in Reader, OpenBlob(r)
      PROVE  TypeOK'
  BY <1>9 DEF OpenBlob, fileVars, writerVars, putHistory
<1>10. ASSUME NEW r \in Reader, SizeBlob(r)
       PROVE  TypeOK'
  <2>1. CASE final[asked[r]] = None
    <3>1. /\ rpc' = [rpc EXCEPT ![r] = "idle"]
          /\ rfd' = [rfd EXCEPT ![r] = None]
          /\ trusted' = [trusted EXCEPT ![r] = FALSE]
          /\ UNCHANGED <<fileVars, writerVars, asked, rsize, sent, putHistory>>
      BY <1>10, <2>1 DEF SizeBlob
    <3> QED
      BY <3>1 DEF fileVars, writerVars, putHistory
  <2>2. CASE final[asked[r]] # None
    <3>1. Len(data[final[asked[r]]]) \in Nat
      BY <2>2, LenProperties
    <3>2. /\ rpc' = [rpc EXCEPT ![r] = "body"]
          /\ rsize' = [rsize EXCEPT ![r] = Len(data[final[asked[r]]])]
          /\ trusted' = [trusted EXCEPT ![r] = @ /\ asked[r] \in sound]
          /\ UNCHANGED <<fileVars, writerVars, asked, rfd, sent, putHistory>>
      BY <1>10, <2>2 DEF SizeBlob
    <3>3. rsize' \in [Reader -> Nat]
      BY <3>1, <3>2
    <3> QED
      BY <3>2, <3>3 DEF fileVars, writerVars, putHistory
  <2> QED
    BY <2>1, <2>2
<1>11. ASSUME NEW r \in Reader, SendChunk(r)
       PROVE  TypeOK'
  <2> DEFINE s == sent[r]
             f == data[rfd[r]]
  <2>1. s \in Seq(Byte) /\ f \in Seq(Byte)
    BY <1>11 DEF SendChunk, OpenFiles
  <2>2. Len(s) + 1 \in 1 .. Len(f)
    BY <1>11, <2>1, LenProperties DEF SendChunk
  <2>3. Append(s, f[Len(s) + 1]) \in Seq(Byte)
    BY <2>1, <2>2, ElementOfSeq, AppendProperties
  <2> QED
    BY <1>11, <2>3 DEF SendChunk, fileVars, writerVars, putHistory
<1>12. ASSUME NEW r \in Reader, EndBody(r)
       PROVE  TypeOK'
  BY <1>12, EmptySeq DEF EndBody, fileVars, writerVars, putHistory
<1>13. ASSUME Crash
       PROVE  TypeOK'
  BY <1>13, EmptySeq DEF Crash, fileVars
<1>14. ASSUME UNCHANGED vars
       PROVE  TypeOK'
  BY <1>14 DEF vars, fileVars, writerVars, readerVars, putHistory
<1> QED
  BY <1>1, <1>2, <1>3, <1>4, <1>5, <1>6, <1>7, <1>8, <1>9, <1>10, <1>11, <1>12, <1>13,
     <1>14 DEF Next, TypeInv
-----------------------------------------------------------------------------
LEMMA InitTypeInv == Init => TypeInv
  BY InitTypeOK DEF Init, TypeInv, OpenFiles

LEMMA NextTypeInv ==
  ASSUME TypeInv, [Next]_vars
  PROVE  TypeInv'
<1>1. TypeOK'
  BY NextTypeOK
<1> USE DEF TypeInv, OpenFiles, TypeOK, ReaderState, WriterState
<1>2. ASSUME NEW w \in Writer, NEW d \in Digest, Create(w, d)
      PROVE  OpenFiles'
  <2>1. TempFile(d) \in Inode
    BY <1>2, TempFileIsFile DEF Create
  <2> QED
    BY <1>2, <2>1, NoneAssumption DEF Create, readerVars
<1>3. ASSUME NEW w \in Writer, NEW b \in Byte, Copy(w, b)
      PROVE  OpenFiles'
  BY <1>3 DEF Copy, readerVars
<1>4. ASSUME NEW w \in Writer, CopyFails(w)
      PROVE  OpenFiles'
  BY <1>4 DEF CopyFails, BreakOff, readerVars
<1>5. ASSUME NEW w \in Writer, CloseAndVerify(w)
      PROVE  OpenFiles'
  <2>1. wpc'[w] # "copy" /\ \A v \in Writer \ {w} : wpc'[v] = wpc[v] /\ fd'[v] = fd[v]
    BY <1>5 DEF CloseAndVerify, BreakOff
  <2> QED
    BY <1>5, <2>1 DEF CloseAndVerify, readerVars
<1>6. ASSUME NEW w \in Writer, Rename(w)
      PROVE  OpenFiles'
  BY <1>6 DEF Rename, readerVars
<1>7. ASSUME NEW w \in Writer, Cleanup(w)
      PROVE  OpenFiles'
  BY <1>7 DEF Cleanup, readerVars
<1>8. ASSUME NEW d \in Digest, DeleteBlob(d)
      PROVE  OpenFiles'
  BY <1>8 DEF DeleteBlob, writerVars, readerVars
<1>9. ASSUME NEW r \in Reader, NEW d \in Digest, StatBlob(r, d)
      PROVE  OpenFiles'
  BY <1>9 DEF StatBlob, writerVars
<1>10. ASSUME NEW r \in Reader, OpenBlob(r)
       PROVE  OpenFiles'
  BY <1>10 DEF OpenBlob, writerVars
<1>11. ASSUME NEW r \in Reader, SizeBlob(r)
       PROVE  OpenFiles'
  BY <1>11 DEF SizeBlob, writerVars
<1>12. ASSUME NEW r \in Reader, SendChunk(r)
       PROVE  OpenFiles'
  BY <1>12 DEF SendChunk, writerVars
<1>13. ASSUME NEW r \in Reader, EndBody(r)
       PROVE  OpenFiles'
  BY <1>13 DEF EndBody, writerVars
<1>14. ASSUME Crash
       PROVE  OpenFiles'
  BY <1>14 DEF Crash
<1>15. ASSUME UNCHANGED vars
       PROVE  OpenFiles'
  BY <1>15 DEF vars, writerVars, readerVars
<1>16. OpenFiles'
  BY <1>2, <1>3, <1>4, <1>5, <1>6, <1>7, <1>8, <1>9, <1>10, <1>11, <1>12, <1>13, <1>14,
     <1>15 DEF Next
<1> QED
  BY <1>1, <1>16

LEMMA TypeInvariance == Spec => []TypeInv
<1>1. TypeInv /\ [Next]_vars => TypeInv'
  BY NextTypeInv
<1> QED
  BY InitTypeInv, <1>1, PTL DEF Spec

(* The variables always have their types (BlobStore.TypeOK). *)
THEOREM TypeCorrect == Spec => []TypeOK
<1>1. TypeInv => TypeOK
  BY DEF TypeInv
<1> QED
  BY TypeInvariance, <1>1, PTL

(* No temporary file outlives the puts that use it, except across a crash. *)
THEOREM NoStrayTempInvariant == Spec => []NoStrayTemp
<1>1. Init => NoStrayTemp
  BY DEF Init, NoStrayTemp
<1>2. ASSUME TypeInv, NoStrayTemp, [Next]_vars
      PROVE  NoStrayTemp'
  <2>1. SUFFICES ASSUME NEW d \in Digest, temp'[d] # None
                 PROVE  d \in leftover' \/ \E w \in Writer : Putting(w, d)'
    BY DEF NoStrayTemp
  <2> DEFINE Kept == d \in leftover' \/ \E w \in Writer : wpc'[w] # "idle" /\ want'[w] = d
  <2> USE <1>2 DEF Putting, TypeInv, TypeOK
  <2>2. ASSUME NEW v \in Writer, NEW e \in Digest, Create(v, e)
        PROVE  Kept
    <3>1. CASE d = e
      BY <2>2, <3>1 DEF Create
    <3>2. CASE d # e
      <4>1. temp[d] # None
        BY <2>1, <2>2, <3>2 DEF Create
      <4> QED
        BY <2>2, <3>2, <4>1 DEF Create, NoStrayTemp
    <3> QED
      BY <3>1, <3>2
  <2>3. ASSUME NEW v \in Writer, Cleanup(v)
        PROVE  Kept
    <3>1. d # want[v] /\ temp[d] # None
      BY <2>1, <2>3 DEF Cleanup
    <3> QED
      BY <2>3, <3>1 DEF Cleanup, NoStrayTemp
  <2>4. ASSUME NEW v \in Writer, CopyFails(v) \/ CloseAndVerify(v) \/ Rename(v)
        PROVE  Kept
    <3>1. temp[d] # None
      BY <2>1, <2>4 DEF CopyFails, CloseAndVerify, Rename, fileVars
    <3>2. want' = want /\ leftover' = leftover /\ wpc[v] # "idle" /\ wpc'[v] # "idle"
      BY <2>4 DEF CopyFails, CloseAndVerify, Rename, BreakOff
    <3>3. \A w \in Writer \ {v} : wpc'[w] = wpc[w]
      BY <2>4 DEF CopyFails, CloseAndVerify, Rename, BreakOff
    <3> QED
      BY <3>1, <3>2, <3>3 DEF NoStrayTemp
  <2>5. ASSUME UNCHANGED <<temp, wpc, want, leftover>>
        PROVE  Kept
    BY <2>1, <2>5 DEF NoStrayTemp
  <2>6. ASSUME Crash
        PROVE  d \in leftover'
    BY <2>1, <2>6 DEF Crash, fileVars
  <2> QED
    BY <1>2, <2>2, <2>3, <2>4, <2>5, <2>6
       DEF Next, vars, fileVars, writerVars, readerVars, putHistory, Copy, DeleteBlob,
           StatBlob, OpenBlob, SizeBlob, SendChunk, EndBody
<1> QED
  BY <1>1, <1>2, TypeInvariance, PTL DEF Spec
-----------------------------------------------------------------------------
(***************************************************************************)
(* Why a put that runs alone is safe.  Names partition the files: no two   *)
(* names refer to one file, and a writer that still copies may refer to a  *)
(* file of its own digest only, and never to one that is sound.  While a   *)
(* put runs alone its file is the one under the temporary name and holds   *)
(* what the put received.                                                  *)
(***************************************************************************)
NamesApart ==
  \A d \in Digest :
    /\ final[d] # None => \A e \in Digest : final[d] # temp[e] /\ (e # d => final[d] # final[e])
    /\ temp[d] # None => \A e \in Digest : e # d => temp[d] # temp[e]

CopiesApart ==
  \A w \in Writer : wpc[w] = "copy" =>
    \A d \in Digest :
      /\ fd[w] = temp[d] => d = want[w]
      /\ fd[w] = final[d] => d = want[w] /\ d \notin sound

AloneIsAlone ==
  \A w \in Writer : wpc[w] # "idle" /\ alone[w] =>
    \A v \in Writer : wpc[v] # "idle" /\ want[v] = want[w] => v = w

AloneOwnsTemp ==
  \A w \in Writer : wpc[w] \in {"copy", "rename"} /\ alone[w] =>
    /\ temp[want[w]] # None
    /\ data[temp[want[w]]] = received[w]
    /\ wpc[w] = "copy" => fd[w] = temp[want[w]]

RenamesVerified ==
  \A w \in Writer : wpc[w] = "rename" => received[w] = want[w]

SoloInv ==
  /\ TypeInv
  /\ NamesApart
  /\ CopiesApart
  /\ AloneIsAlone
  /\ AloneOwnsTemp
  /\ RenamesVerified
  /\ SoloPutIntegrity

(***************************************************************************)
(* The file a trusted reader has open can no longer be written: no name a  *)
(* writer opens refers to it, and no writer has it open.                   *)
(***************************************************************************)
ReadersApart ==
  \A r \in Reader :
    /\ rpc[r] # "body" => sent[r] = <<>>
    /\ rpc[r] \in {"size", "body"} /\ trusted[r] =>
         /\ data[rfd[r]] = asked[r]
         /\ \A d \in Digest : temp[d] # rfd[r]
         /\ \A w \in Writer : wpc[w] = "copy" => fd[w] # rfd[r]

ReadInv ==
  /\ SoloInv
  /\ ReadersApart
  /\ TrustedBody
-----------------------------------------------------------------------------
LEMMA SoloInvInit == Init => SoloInv
  BY InitTypeInv DEF Init, SoloInv, NamesApart, CopiesApart, AloneIsAlone, AloneOwnsTemp,
                     RenamesVerified, SoloPutIntegrity

(* Steps of readers leave everything the invariant speaks of alone. *)
LEMMA SoloInvFrame ==
  ASSUME SoloInv, TypeInv', UNCHANGED <<fileVars, writerVars, alone, sound>>
  PROVE  SoloInv'
  BY DEF SoloInv, NamesApart, CopiesApart, AloneIsAlone, AloneOwnsTemp, RenamesVerified,
         SoloPutIntegrity, fileVars, writerVars

LEMMA SoloInvCreate ==
  ASSUME SoloInv, TypeInv', NEW w \in Writer, NEW d \in Digest, Create(w, d)
  PROVE  SoloInv'
<1> DEFINE t == TempFile(d)
<1>1. /\ t \in Inode
      /\ temp[d] # None => t = temp[d]
      /\ temp[d] = None => Free(t)
  BY TempFileIsFile DEF SoloInv, TypeInv, Create
<1> USE DEF SoloInv, TypeInv, TypeOK
<1>2. /\ wpc[w] = "idle"
      /\ temp' = [temp EXCEPT ![d] = t]
      /\ fd' = [fd EXCEPT ![w] = t]
      /\ data' = [data EXCEPT ![t] = <<>>]
      /\ wpc' = [wpc EXCEPT ![w] = "copy"]
      /\ want' = [want EXCEPT ![w] = d]
      /\ received' = [received EXCEPT ![w] = <<>>]
      /\ UNCHANGED <<final, sound>>
  BY DEF Create
<1>3. /\ alone'[w] => \A v \in Writer \ {w} : ~Putting(v, d)
      /\ \A v \in Writer \ {w} : alone'[v] => alone[v] /\ ~Putting(v, d)
  BY DEF Create
<1> HIDE DEF t
(* The file is no blob, and is named or opened for d alone. *)
<1>4. \A e \in Digest : final[e] # t /\ (e # d => temp[e] # t)
  BY <1>1, NoneAssumption DEF NamesApart, Free
<1>5. \A v \in Writer : wpc[v] = "copy" /\ fd[v] = t => want[v] = d
  BY <1>1 DEF CopiesApart, Free
<1>6. NamesApart'
  BY <1>1, <1>2, <1>4, NoneAssumption DEF NamesApart
<1>7. CopiesApart'
  BY <1>1, <1>2, <1>4, <1>5 DEF CopiesApart
<1>8. AloneIsAlone'
  BY <1>2, <1>3 DEF AloneIsAlone, Putting
<1>9. AloneOwnsTemp'
  <2> SUFFICES ASSUME NEW v \in Writer, wpc'[v] \in {"copy", "rename"}, alone'[v]
               PROVE  /\ temp'[want'[v]] # None
                      /\ data'[temp'[want'[v]]] = received'[v]
                      /\ wpc'[v] = "copy" => fd'[v] = temp'[want'[v]]
    BY DEF AloneOwnsTemp
  <2>1. CASE v = w
    BY <1>1, <1>2, <2>1, NoneAssumption
  <2>2. CASE v # w
    <3>1. want'[v] = want[v] /\ wpc'[v] = wpc[v] /\ alone[v] /\ want[v] # d
      BY <1>2, <1>3, <2>2 DEF Putting
    <3> QED
      BY <1>2, <1>4, <2>2, <3>1 DEF AloneOwnsTemp
  <2> QED
    BY <2>1, <2>2
<1>10. RenamesVerified'
  BY <1>2 DEF RenamesVerified
<1>11. SoloPutIntegrity'
  BY <1>2, <1>4 DEF SoloPutIntegrity
<1> QED
  BY <1>6, <1>7, <1>8, <1>9, <1>10, <1>11

LEMMA SoloInvCopy ==
  ASSUME SoloInv, TypeInv', NEW w \in Writer, NEW b \in Byte, Copy(w, b)
  PROVE  SoloInv'
<1> USE DEF SoloInv, TypeInv, TypeOK
<1>1. /\ wpc[w] = "copy"
      /\ fd[w] \in Inode
      /\ data' = [data EXCEPT ![fd[w]] = WriteAt(data[fd[w]], Len(received[w]), b)]
      /\ received' = [received EXCEPT ![w] = Append(received[w], b)]
      /\ UNCHANGED <<final, temp, wpc, want, fd, alone, sound>>
  BY DEF Copy, putHistory, OpenFiles
<1>2. NamesApart' /\ CopiesApart' /\ AloneIsAlone'
  BY <1>1 DEF NamesApart, CopiesApart, AloneIsAlone
<1>3. AloneOwnsTemp'
  <2> SUFFICES ASSUME NEW v \in Writer, wpc[v] \in {"copy", "rename"}, alone[v]
               PROVE  /\ temp[want[v]] # None
                      /\ data'[temp[want[v]]] = received'[v]
                      /\ wpc[v] = "copy" => fd[v] = temp[want[v]]
    BY <1>1 DEF AloneOwnsTemp
  <2>1. CASE v = w
    <3>1. data[fd[w]] = received[w] /\ fd[w] = temp[want[w]]
      BY <1>1, <2>1 DEF AloneOwnsTemp
    <3>2. WriteAt(received[w], Len(received[w]), b) = Append(received[w], b)
      BY WriteAtEnd
    <3> QED
      BY <1>1, <2>1, <3>1, <3>2, NoneAssumption
  <2>2. CASE v # w
    <3>1. want[v] # want[w]
      BY <1>1, <2>2 DEF AloneIsAlone
    <3>2. temp[want[v]] # fd[w]
      BY <1>1, <3>1 DEF CopiesApart
    <3> QED
      BY <1>1, <2>2, <3>2 DEF AloneOwnsTemp
  <2> QED
    BY <2>1, <2>2
<1>4. RenamesVerified'
  BY <1>1 DEF RenamesVerified
<1>5. SoloPutIntegrity'
  <2> SUFFICES ASSUME NEW d \in sound, final[d] # None
               PROVE  data'[final[d]] = d
    BY <1>1 DEF SoloPutIntegrity
  <2>1. fd[w] # final[d]
    BY <1>1 DEF CopiesApart
  <2> QED
    BY <1>1, <2>1 DEF SoloPutIntegrity
<1> QED
  BY <1>2, <1>3, <1>4, <1>5

LEMMA SoloInvEnd ==
  ASSUME SoloInv, TypeInv', NEW w \in Writer, CopyFails(w) \/ CloseAndVerify(w)
  PROVE  SoloInv'
<1> USE DEF SoloInv, TypeInv, TypeOK
<1>1. /\ wpc[w] = "copy"
      /\ wpc'[w] \in {"rename", "cleanup"}
      /\ wpc'[w] = "rename" => received[w] = want[w]
      /\ \A v \in Writer \ {w} : wpc'[v] = wpc[v] /\ fd'[v] = fd[v]
      /\ UNCHANGED <<data, final, temp, want, received, alone, sound>>
  BY DEF CopyFails, CloseAndVerify, BreakOff, fileVars
<1>2. NamesApart' /\ SoloPutIntegrity'
  BY <1>1 DEF NamesApart, SoloPutIntegrity
<1>3. CopiesApart'
  <2> SUFFICES ASSUME NEW v \in Writer, wpc'[v] = "copy", NEW d \in Digest
               PROVE  /\ fd'[v] = temp[d] => d = want[v]
                      /\ fd'[v] = final[d] => d = want[v] /\ d \notin sound
    BY <1>1 DEF CopiesApart
  <2>1. wpc[v] = "copy" /\ fd'[v] = fd[v]
    BY <1>1
  <2> QED
    BY <2>1 DEF CopiesApart
<1>4. AloneIsAlone'
  BY <1>1 DEF AloneIsAlone
<1>5. AloneOwnsTemp'
  BY <1>1 DEF AloneOwnsTemp
<1>6. RenamesVerified'
  BY <1>1 DEF RenamesVerified
<1> QED
  BY <1>2, <1>3, <1>4, <1>5, <1>6

LEMMA SoloInvRename ==
  ASSUME SoloInv, TypeInv', NEW w \in Writer, Rename(w)
  PROVE  SoloInv'
<1> DEFINE d == want[w]
<1> USE DEF SoloInv, TypeInv, TypeOK
<1>1. /\ wpc[w] = "rename"
      /\ wpc' = [wpc EXCEPT ![w] = "cleanup"]
      /\ UNCHANGED <<data, want, fd, received, alone>>
  BY DEF Rename
<1>2. AloneIsAlone' /\ RenamesVerified'
  BY <1>1 DEF AloneIsAlone, RenamesVerified
<1>3. CASE temp[d] = None
  <2>1. UNCHANGED <<final, temp, sound>>
    BY <1>3 DEF Rename
  <2> QED
    BY <1>1, <1>2, <2>1 DEF NamesApart, CopiesApart, AloneOwnsTemp, SoloPutIntegrity
<1>4. CASE temp[d] # None
  <2>1. /\ final' = [final EXCEPT ![d] = temp[d]]
        /\ temp' = [temp EXCEPT ![d] = None]
        /\ sound' = IF alone[w] THEN sound \cup {d} ELSE sound \ {d}
    BY <1>4 DEF Rename
  <2>2. NamesApart'
    BY <1>4, <2>1 DEF NamesApart
  <2>3. AloneOwnsTemp'
    <3> SUFFICES ASSUME NEW v \in Writer, wpc'[v] \in {"copy", "rename"}, alone[v]
                 PROVE  want[v] # d
      BY <1>1, <2>1 DEF AloneOwnsTemp
    <3> QED
      BY <1>1 DEF AloneIsAlone
  <2>4. CopiesApart'
    <3> SUFFICES ASSUME NEW v \in Writer, wpc[v] = "copy", NEW e \in Digest
                 PROVE  /\ fd[v] = temp'[e] => e = want[v]
                        /\ fd[v] = final'[e] => e = want[v] /\ e \notin sound'
      BY <1>1 DEF CopiesApart
    <3>1. fd[v] # None
      BY DEF OpenFiles
    <3>2. CASE e # d
      BY <2>1, <3>2 DEF CopiesApart
    <3>3. CASE e = d
      <4>1. fd[v] # temp'[e]
        BY <2>1, <3>1, <3>3
      <4>2. ASSUME fd[v] = temp[d] PROVE want[v] = d /\ d \notin sound'
        <5>1. want[v] = d
          BY <4>2 DEF CopiesApart
        <5>2. ~alone[w]
          BY <1>1, <5>1 DEF AloneIsAlone
        <5> QED
          BY <2>1, <5>1, <5>2
      <4> QED
        BY <2>1, <3>3, <4>1, <4>2
    <3> QED
      BY <3>2, <3>3
  <2>5. SoloPutIntegrity'
    <3> SUFFICES ASSUME NEW e \in sound', final'[e] # None
                 PROVE  data[final'[e]] = e
      BY <1>1 DEF SoloPutIntegrity
    <3>1. CASE e # d
      BY <2>1, <3>1 DEF SoloPutIntegrity
    <3>2. CASE e = d
      <4>1. alone[w] /\ final'[e] = temp[d]
        BY <2>1, <3>2
      <4> QED
        BY <1>1, <3>2, <4>1 DEF AloneOwnsTemp, RenamesVerified
    <3> QED
      BY <3>1, <3>2
  <2> QED
    BY <1>2, <2>2, <2>3, <2>4, <2>5
<1> QED
  BY <1>3, <1>4

LEMMA SoloInvCleanup ==
  ASSUME SoloInv, TypeInv', NEW w \in Writer, Cleanup(w)
  PROVE  SoloInv'
<1> USE DEF SoloInv, TypeInv, TypeOK
<1>1. /\ wpc[w] = "cleanup"
      /\ wpc' = [wpc EXCEPT ![w] = "idle"]
      /\ fd' = [fd EXCEPT ![w] = None]
      /\ temp' = [temp EXCEPT ![want[w]] = None]
      /\ received' = [received EXCEPT ![w] = <<>>]
      /\ alone' = [alone EXCEPT ![w] = TRUE]
      /\ UNCHANGED <<data, final, want, sound>>
  BY DEF Cleanup
<1>2. NamesApart' /\ SoloPutIntegrity' /\ RenamesVerified'
  BY <1>1 DEF NamesApart, SoloPutIntegrity, RenamesVerified
<1>3. CopiesApart'
  BY <1>1 DEF CopiesApart, OpenFiles
<1>4. AloneIsAlone'
  BY <1>1 DEF AloneIsAlone
<1>5. AloneOwnsTemp'
  <2> SUFFICES ASSUME NEW v \in Writer \ {w}, wpc[v] \in {"copy", "rename"}, alone[v]
               PROVE  want[v] # want[w]
    BY <1>1 DEF AloneOwnsTemp
  <2> QED
    BY <1>1 DEF AloneIsAlone
<1> QED
  BY <1>2, <1>3, <1>4, <1>5

LEMMA SoloInvDeleteBlob ==
  ASSUME SoloInv, TypeInv', NEW d \in Digest, DeleteBlob(d)
  PROVE  SoloInv'
<1> USE DEF SoloInv, TypeInv, TypeOK
<1>1. final' = [final EXCEPT ![d] = None] /\ UNCHANGED <<data, temp, writerVars, alone, sound>>
  BY DEF DeleteBlob, putHistory
<1>2. NamesApart' /\ SoloPutIntegrity'
  BY <1>1 DEF NamesApart, SoloPutIntegrity
<1>3. CopiesApart'
  BY <1>1 DEF CopiesApart, OpenFiles, writerVars
<1>4. AloneIsAlone' /\ AloneOwnsTemp' /\ RenamesVerified'
  BY <1>1 DEF AloneIsAlone, AloneOwnsTemp, RenamesVerified, writerVars
<1> QED
  BY <1>2, <1>3, <1>4

LEMMA SoloInvCrash ==
  ASSUME SoloInv, TypeInv', Crash
  PROVE  SoloInv'
<1> USE DEF SoloInv, TypeInv, TypeOK
<1>1. wpc' = [w \in Writer |-> "idle"] /\ UNCHANGED <<data, final, temp, sound>>
  BY DEF Crash, fileVars
<1> QED
  BY <1>1 DEF NamesApart, CopiesApart, AloneIsAlone, AloneOwnsTemp, RenamesVerified,
              SoloPutIntegrity

LEMMA SoloInvNext ==
  ASSUME SoloInv, [Next]_vars
  PROVE  SoloInv'
<1>1. TypeInv'
  BY NextTypeInv DEF SoloInv
<1> USE <1>1
<1>2. ASSUME NEW r \in Reader, \/ \E d \in Digest : StatBlob(r, d)
                             \/ OpenBlob(r) \/ SizeBlob(r) \/ SendChunk(r) \/ EndBody(r)
      PROVE  SoloInv'
  BY <1>2, SoloInvFrame DEF StatBlob, OpenBlob, SizeBlob, SendChunk, EndBody, putHistory
<1>3. ASSUME UNCHANGED vars
      PROVE  SoloInv'
  BY <1>3, SoloInvFrame DEF vars, putHistory
<1> QED
  BY <1>2, <1>3, SoloInvCreate, SoloInvCopy, SoloInvEnd, SoloInvRename, SoloInvCleanup,
     SoloInvDeleteBlob, SoloInvCrash DEF Next

LEMMA SoloInvariance == Spec => []SoloInv
<1>1. SoloInv /\ [Next]_vars => SoloInv'
  BY SoloInvNext
<1> QED
  BY SoloInvInit, <1>1, PTL DEF Spec

(* A blob installed by a put that ran alone stays intact. *)
THEOREM SoloPutIntegrityInvariant == Spec => []SoloPutIntegrity
<1>1. SoloInv => SoloPutIntegrity
  BY DEF SoloInv
<1> QED
  BY SoloInvariance, <1>1, PTL

(* The rename of a put that ran alone succeeds and moves its own bytes. *)
THEOREM SoloPutSucceedsInvariant == Spec => []SoloPutSucceeds
<1>1. SoloInv => SoloPutSucceeds
  BY DEF SoloInv, SoloPutSucceeds, AloneOwnsTemp, RenamesVerified
<1> QED
  BY SoloInvariance, <1>1, PTL
-----------------------------------------------------------------------------
(* What a step must leave alone for a reader's body to stay what it was.   *)
LEMMA ReadInvFrame ==
  ASSUME ReadInv, SoloInv', UNCHANGED readerVars,
         \A r \in Reader : rpc[r] \in {"size", "body"} /\ trusted[r] =>
            /\ data'[rfd[r]] = data[rfd[r]]
            /\ \A d \in Digest : temp'[d] # rfd[r]
            /\ \A w \in Writer : wpc'[w] = "copy" => fd'[w] # rfd[r]
  PROVE  ReadInv'
<1>1. TrustedBody'
  BY DEF ReadInv, TrustedBody, readerVars
<1>2. ReadersApart'
  BY DEF ReadInv, ReadersApart, readerVars
<1> QED
  BY <1>1, <1>2 DEF ReadInv

LEMMA ReadInvWriters ==
  ASSUME ReadInv, SoloInv', NEW w \in Writer,
         \/ \E d \in Digest : Create(w, d)
         \/ \E b \in Byte : Copy(w, b)
         \/ CopyFails(w) \/ CloseAndVerify(w) \/ Rename(w) \/ Cleanup(w)
  PROVE  ReadInv'
<1> USE DEF ReadInv, SoloInv, TypeInv, TypeOK, OpenFiles
<1>1. SUFFICES ASSUME NEW r \in Reader, rpc[r] \in {"size", "body"}, trusted[r]
               PROVE  /\ data'[rfd[r]] = data[rfd[r]]
                      /\ \A d \in Digest : temp'[d] # rfd[r]
                      /\ \A v \in Writer : wpc'[v] = "copy" => fd'[v] # rfd[r]
  BY ReadInvFrame DEF Create, Copy, CopyFails, CloseAndVerify, Rename, Cleanup
<1>2. /\ rfd[r] \in Inode
      /\ \A d \in Digest : temp[d] # rfd[r]
      /\ \A v \in Writer : wpc[v] = "copy" => fd[v] # rfd[r]
  BY <1>1 DEF ReadersApart
<1>3. ASSUME NEW d \in Digest, Create(w, d)
      PROVE  /\ data'[rfd[r]] = data[rfd[r]]
             /\ \A e \in Digest : temp'[e] # rfd[r]
             /\ \A v \in Writer : wpc'[v] = "copy" => fd'[v] # rfd[r]
  <2>1. TempFile(d) \in Inode /\ TempFile(d) # rfd[r]
    <3>1. /\ TempFile(d) \in Inode
          /\ temp[d] # None => TempFile(d) = temp[d]
          /\ temp[d] = None => Free(TempFile(d))
      BY <1>3, TempFileIsFile DEF Create
    <3> QED
      BY <1>2, <3>1 DEF Free
  <2> QED
    BY <1>2, <1>3, <2>1 DEF Create
<1>4. ASSUME NEW b \in Byte, Copy(w, b)
      PROVE  /\ data'[rfd[r]] = data[rfd[r]]
             /\ \A e \in Digest : temp'[e] # rfd[r]
             /\ \A v \in Writer : wpc'[v] = "copy" => fd'[v] # rfd[r]
  BY <1>2, <1>4 DEF Copy
<1>5. ASSUME CopyFails(w) \/ CloseAndVerify(w)
      PROVE  /\ data'[rfd[r]] = data[rfd[r]]
             /\ \A e \in Digest : temp'[e] # rfd[r]
             /\ \A v \in Writer : wpc'[v] = "copy" => fd'[v] # rfd[r]
  <2>1. /\ data' = data /\ temp' = temp
        /\ wpc'[w] # "copy"
        /\ \A v \in Writer \ {w} : wpc'[v] = wpc[v] /\ fd'[v] = fd[v]
    BY <1>5 DEF CopyFails, CloseAndVerify, BreakOff, fileVars
  <2> QED
    BY <1>2, <2>1
<1>6. ASSUME Rename(w)
      PROVE  /\ data'[rfd[r]] = data[rfd[r]]
             /\ \A e \in Digest : temp'[e] # rfd[r]
             /\ \A v \in Writer : wpc'[v] = "copy" => fd'[v] # rfd[r]
  BY <1>2, <1>6, NoneAssumption DEF Rename
<1>7. ASSUME Cleanup(w)
      PROVE  /\ data'[rfd[r]] = data[rfd[r]]
             /\ \A e \in Digest : temp'[e] # rfd[r]
             /\ \A v \in Writer : wpc'[v] = "copy" => fd'[v] # rfd[r]
  BY <1>2, <1>7, NoneAssumption DEF Cleanup
<1> QED
  BY <1>3, <1>4, <1>5, <1>6, <1>7

LEMMA ReadInvReaders ==
  ASSUME ReadInv, SoloInv', NEW r \in Reader,
         \/ \E d \in Digest : StatBlob(r, d)
         \/ OpenBlob(r) \/ SizeBlob(r) \/ SendChunk(r) \/ EndBody(r)
  PROVE  ReadInv'
<1> USE DEF ReadInv, SoloInv, TypeInv, TypeOK, OpenFiles
<1> DEFINE Stays(q) == UNCHANGED <<rpc[q], asked[q], rfd[q], rsize[q], sent[q], trusted[q]>>
           Good(q) ==
             /\ rpc'[q] # "body" => sent'[q] = <<>>
             /\ rpc'[q] \in {"size", "body"} /\ trusted'[q] =>
                  /\ data[rfd'[q]] = asked'[q]
                  /\ \A d \in Digest : temp[d] # rfd'[q]
                  /\ \A w \in Writer : wpc[w] = "copy" => fd[w] # rfd'[q]
             /\ rpc'[q] = "body" /\ trusted'[q] =>
                  /\ rsize'[q] = Len(asked'[q])
                  /\ sent'[q] = SubSeq(asked'[q], 1, Len(sent'[q]))
<1>1. /\ UNCHANGED <<fileVars, writerVars>>
      /\ \A q \in Reader \ {r} : Stays(q)
  BY DEF StatBlob, OpenBlob, SizeBlob, SendChunk, EndBody
<1>2. \A q \in Reader \ {r} : Good(q)
  BY <1>1 DEF ReadersApart, TrustedBody
<1>3. Good(r)
  <2>1. ASSUME NEW d \in Digest, StatBlob(r, d)
        PROVE  Good(r)
    BY <2>1 DEF StatBlob, ReadersApart
  <2>2. ASSUME OpenBlob(r)
        PROVE  Good(r)
    <3> DEFINE d == asked[r]
    <3>1. /\ rpc'[r] # "body" /\ sent'[r] = <<>> /\ asked' = asked /\ rfd'[r] = final[d]
          /\ trusted'[r] => d \in sound /\ final[d] # None
      BY <2>2 DEF OpenBlob, ReadersApart
    <3>2. ASSUME trusted'[r]
          PROVE  /\ data[final[d]] = d
                 /\ \A e \in Digest : temp[e] # final[d]
                 /\ \A w \in Writer : wpc[w] = "copy" => fd[w] # final[d]
      <4>1. d \in Digest /\ d \in sound /\ final[d] # None
        BY <3>1, <3>2
      <4>2. data[final[d]] = d
        BY <4>1 DEF SoloPutIntegrity
      <4>3. \A e \in Digest : temp[e] # final[d]
        BY <4>1 DEF NamesApart
      <4>4. \A w \in Writer : wpc[w] = "copy" => fd[w] # final[d]
        BY <4>1 DEF CopiesApart
      <4> QED
        BY <4>2, <4>3, <4>4
    <3> QED
      BY <3>1, <3>2
  <2>3. ASSUME SizeBlob(r)
        PROVE  Good(r)
    <3> DEFINE d == asked[r]
    <3>1. rpc[r] = "size" /\ sent[r] = <<>> /\ asked' = asked /\ sent' = sent
      BY <2>3 DEF SizeBlob, ReadersApart
    <3>2. CASE final[d] = None
      BY <2>3, <3>1, <3>2 DEF SizeBlob
    <3>3. CASE final[d] # None
      <4>1. /\ rpc'[r] = "body" /\ rfd' = rfd
            /\ rsize'[r] = Len(data[final[d]])
            /\ trusted'[r] => trusted[r] /\ d \in sound
        BY <2>3, <3>3 DEF SizeBlob
      <4>2. trusted'[r] => rsize'[r] = Len(d)
        BY <3>3, <4>1 DEF SoloPutIntegrity
      <4>3. SubSeq(d, 1, Len(<<>>)) = <<>>
        BY EmptySeq, SubSeqEmpty
      <4> QED
        BY <3>1, <4>1, <4>2, <4>3 DEF ReadersApart
    <3> QED
      BY <3>2, <3>3
  <2>4. ASSUME SendChunk(r)
        PROVE  Good(r)
    <3> DEFINE d == asked[r]
               n == Len(sent[r])
    <3>1. /\ rpc[r] = "body" /\ n < Len(data[rfd[r]])
          /\ UNCHANGED <<rpc, asked, rfd, rsize, trusted>>
          /\ sent'[r] = Append(sent[r], data[rfd[r]][n + 1])
      BY <2>4 DEF SendChunk
    <3>2. ASSUME trusted[r]
          PROVE  sent'[r] = SubSeq(d, 1, Len(sent'[r]))
      <4>1. data[rfd[r]] = d /\ sent[r] = SubSeq(d, 1, n)
        BY <3>1, <3>2 DEF ReadersApart, TrustedBody
      <4>2. d \in Seq(Byte) /\ n \in Nat /\ n < Len(d) /\ Len(d) \in Nat
        BY <3>1, <4>1, DigestAssumption, LenProperties
      <4>3. sent'[r] = Append(SubSeq(d, 1, n), d[n + 1])
        BY <3>1, <4>1
      <4>4. d[n + 1] \in Byte
        BY <4>2, ElementOfSeq
      <4>5. Len(sent'[r]) = n + 1
        BY <3>1, <4>1, <4>4, AppendProperties
      <4>6. SubSeq(d, 1, n + 1) = Append(SubSeq(d, 1, n), d[n + 1])
        BY <4>2, SubSeqRecursiveSecond
      <4> QED
        BY <4>3, <4>5, <4>6
    <3> QED
      BY <3>1, <3>2 DEF ReadersApart, TrustedBody
  <2>5. ASSUME EndBody(r)
        PROVE  Good(r)
    BY <2>5 DEF EndBody
  <2> QED
    BY <2>1, <2>2, <2>3, <2>4, <2>5
<1>4. \A q \in Reader : Good(q)
  BY <1>2, <1>3
<1> QED
  BY <1>1, <1>4 DEF ReadersApart, TrustedBody, fileVars, writerVars

LEMMA ReadInvNext ==
  ASSUME ReadInv, [Next]_vars
  PROVE  ReadInv'
<1>1. SoloInv'
  BY SoloInvNext DEF ReadInv
<1> USE <1>1
<1>2. ASSUME NEW d \in Digest, DeleteBlob(d)
      PROVE  ReadInv'
  BY <1>2, ReadInvFrame
     DEF DeleteBlob, ReadInv, ReadersApart, writerVars
<1>3. ASSUME Crash
      PROVE  ReadInv'
  <2>1. rpc' = [r \in Reader |-> "idle"] /\ sent' = [r \in Reader |-> <<>>]
    BY <1>3 DEF Crash
  <2> QED
    BY <2>1 DEF ReadInv, ReadersApart, TrustedBody
<1>4. ASSUME UNCHANGED vars
      PROVE  ReadInv'
  BY <1>4, ReadInvFrame
     DEF vars, fileVars, writerVars, ReadInv, ReadersApart
<1> QED
  BY <1>2, <1>3, <1>4, ReadInvWriters, ReadInvReaders DEF Next

(* A GET of a blob whose put ran alone delivers its bytes. *)
THEOREM TrustedBodyInvariant == Spec => []TrustedBody
<1>1. Init => ReadInv
  BY SoloInvInit DEF Init, ReadInv, ReadersApart, TrustedBody
<1>2. ReadInv /\ [Next]_vars => ReadInv'
  BY ReadInvNext
<1>3. ReadInv => TrustedBody
  BY DEF ReadInv
<1> QED
  BY <1>1, <1>2, <1>3, PTL DEF Spec
-----------------------------------------------------------------------------
(***************************************************************************)
(* Every step of the files is a step of the content store of the sound     *)
(* blobs, or none: only a rename or a DELETE changes what a sound digest   *)
(* names, and no file that one names is written.                           *)
(***************************************************************************)
LEMMA StepRefines ==
  ASSUME SoloInv, [Next]_vars
  PROVE  [Abstract!Next]_SoundContent
<1> USE DEF SoloInv, TypeInv, TypeOK, Served
<1>1. ASSUME NEW w \in Writer, NEW d \in Digest, Create(w, d)
      PROVE  SoundContent' = SoundContent
  <2>1. /\ TempFile(d) \in Inode
        /\ temp[d] # None => TempFile(d) = temp[d]
        /\ temp[d] = None => Free(TempFile(d))
    BY <1>1, TempFileIsFile DEF Create
  <2>2. \A e \in Digest : final[e] # TempFile(d)
    BY <2>1, NoneAssumption DEF NamesApart, Free
  <2> QED
    BY <1>1, <2>1, <2>2 DEF Create, SoundContent
<1>2. ASSUME NEW w \in Writer, NEW b \in Byte, Copy(w, b)
      PROVE  SoundContent' = SoundContent
  <2>1. \A e \in sound : final[e] # None => final[e] # fd[w]
    BY <1>2 DEF Copy, CopiesApart
  <2> QED
    BY <1>2, <2>1 DEF Copy, SoundContent, putHistory
<1>3. ASSUME NEW w \in Writer, Rename(w)
      PROVE  \/ SoundContent' = SoundContent
             \/ \E d \in Digest : Abstract!Put(d) \/ Abstract!Remove(d)
  <2> DEFINE d == want[w]
  <2>1. CASE temp[d] = None
    BY <1>3, <2>1 DEF Rename, SoundContent
  <2>2. CASE temp[d] # None /\ alone[w]
    <3>1. data[temp[d]] = d
      BY <1>3, <2>2 DEF Rename, AloneOwnsTemp, RenamesVerified
    <3>2. /\ final' = [final EXCEPT ![d] = temp[d]] /\ data' = data
          /\ sound' = sound \cup {d}
      BY <1>3, <2>2 DEF Rename
    <3>3. SoundContent' = [SoundContent EXCEPT ![d] = d]
      BY <2>2, <3>1, <3>2 DEF SoundContent
    <3> QED
      BY <3>3 DEF Abstract!Put
  <2>3. CASE temp[d] # None /\ ~alone[w]
    <3>1. /\ final' = [final EXCEPT ![d] = temp[d]] /\ data' = data
          /\ sound' = sound \ {d}
      BY <1>3, <2>3 DEF Rename
    <3>2. SoundContent' = [SoundContent EXCEPT ![d] = None]
      BY <2>3, <3>1 DEF SoundContent
    <3> QED
      BY <3>2 DEF Abstract!Remove
  <2> QED
    BY <2>1, <2>2, <2>3
<1>4. ASSUME NEW d \in Digest, DeleteBlob(d)
      PROVE  Abstract!Remove(d)
  BY <1>4 DEF DeleteBlob, SoundContent, Abstract!Remove, putHistory
<1>5. ASSUME UNCHANGED <<data, final, sound>>
      PROVE  SoundContent' = SoundContent
  BY <1>5 DEF SoundContent
<1> QED
  BY <1>1, <1>2, <1>3, <1>4, <1>5
     DEF Next, Abstract!Next, vars, fileVars, putHistory, CopyFails, CloseAndVerify, Cleanup,
         StatBlob, OpenBlob, SizeBlob, SendChunk, EndBody, Crash

(* The sound blobs implement the content store, whatever overlaps.         *)
THEOREM Refinement == Spec => ImplementsContentStore
<1>1. Init => Abstract!Init
  BY DEF Init, Abstract!Init, SoundContent
<1>2. SoloInv /\ [Next]_vars => [Abstract!Next]_SoundContent
  BY StepRefines
<1> QED
  BY <1>1, <1>2, SoloInvariance, PTL DEF Spec, ImplementsContentStore, Abstract!Spec
-----------------------------------------------------------------------------
(***************************************************************************)
(* When puts of a digest never overlap, every installed blob was installed *)
(* by a put that ran alone: what is served is the content store.           *)
(***************************************************************************)
SerialNext == Next /\ \A w \in Writer : alone'[w]

AllSound == \A d \in Digest : final[d] # None => d \in sound

SerialInv ==
  /\ SoloInv
  /\ \A w \in Writer : alone[w]
  /\ AllSound

LEMMA SerialInvNext ==
  ASSUME SerialInv, [SerialNext]_vars
  PROVE  SerialInv'
<1>1. SoloInv' /\ \A w \in Writer : alone'[w]
  BY SoloInvNext DEF SerialInv, SerialNext, vars, putHistory
<1>2. ASSUME NEW w \in Writer, Rename(w)
      PROVE  AllSound'
  <2>1. alone[w] /\ want[w] \in Digest
    BY DEF SerialInv, SoloInv, TypeInv, TypeOK
  <2> QED
    BY <1>2, <2>1 DEF Rename, SerialInv, AllSound, SoloInv, TypeInv, TypeOK
<1>3. ASSUME NEW d \in Digest, DeleteBlob(d)
      PROVE  AllSound'
  BY <1>3 DEF DeleteBlob, putHistory, SerialInv, AllSound, SoloInv, TypeInv, TypeOK
<1>4. ASSUME UNCHANGED <<final, sound>>
      PROVE  AllSound'
  BY <1>4 DEF SerialInv, AllSound
<1>5. AllSound'
  BY <1>2, <1>3, <1>4
     DEF SerialNext, Next, vars, fileVars, putHistory, Create, Copy, CopyFails, CloseAndVerify,
         Cleanup, StatBlob, OpenBlob, SizeBlob, SendChunk, EndBody, Crash
<1> QED
  BY <1>1, <1>5 DEF SerialInv

(* Without overlapping puts a GET finds what the content store holds.      *)
THEOREM SerialServes == SerialSpec => [](Served = SoundContent)
<1>1. Init => SerialInv
  BY SoloInvInit DEF Init, SerialInv, AllSound
<1>2. SerialInv /\ [SerialNext]_vars => SerialInv'
  BY SerialInvNext
<1>3. SerialInv => Served = SoundContent
  BY DEF SerialInv, AllSound, Served, SoundContent
<1>4. SerialSpec <=> Init /\ [][SerialNext]_vars
  BY DEF SerialSpec, SerialNext
<1> QED
  BY <1>1, <1>2, <1>3, <1>4, PTL
-----------------------------------------------------------------------------
(***************************************************************************)
(* Why overlapping puts heal.  A file will be d when each position holds   *)
(* its byte already or a writer that has not reached it yet has the file   *)
(* open, or when some writer has left the track of d: that one's digest    *)
(* cannot match, and its end fouls d.                                      *)
(***************************************************************************)
OnTrack(w, d) ==
  /\ Len(received[w]) <= Len(d)
  /\ \A k \in 1 .. Len(received[w]) : received[w][k] = d[k]

Copying(w, i) == wpc[w] = "copy" /\ fd[w] = i

WillBe(i, d) ==
  \/ \E w \in Writer : Copying(w, i) /\ ~OnTrack(w, d)
  \/ /\ Len(data[i]) <= Len(d)
     /\ \A k \in 1 .. Len(d) :
          \/ k <= Len(data[i]) /\ data[i][k] = d[k]
          \/ \E w \in Writer : Copying(w, i) /\ Len(received[w]) < k

Underway(d) == \E w \in Writer : wpc[w] \in {"copy", "rename"} /\ want[w] = d

Heals ==
  \A d \in Digest \ fouled :
    /\ final[d] # None => WillBe(final[d], d)
    /\ temp[d] # None /\ Underway(d) => WillBe(temp[d], d)

HealInv == SoloInv /\ Heals

(* WillBe of a fixed file in the next state. *)
WillBeNext(i, d) ==
  \/ \E w \in Writer :
       /\ wpc'[w] = "copy" /\ fd'[w] = i
       /\ ~(/\ Len(received'[w]) <= Len(d)
            /\ \A k \in 1 .. Len(received'[w]) : received'[w][k] = d[k])
  \/ /\ Len(data'[i]) <= Len(d)
     /\ \A k \in 1 .. Len(d) :
          \/ k <= Len(data'[i]) /\ data'[i][k] = d[k]
          \/ \E w \in Writer : wpc'[w] = "copy" /\ fd'[w] = i /\ Len(received'[w]) < k

LEMMA HealsPrimed ==
  ASSUME \A d \in Digest \ fouled' :
            /\ final'[d] # None => WillBeNext(final'[d], d)
            /\ temp'[d] # None /\ (\E w \in Writer : wpc'[w] \in {"copy", "rename"} /\ want'[w] = d)
                 => WillBeNext(temp'[d], d)
  PROVE  Heals'
  BY DEF Heals, WillBe, WillBeNext, Underway, Copying, OnTrack

(* A file neither written nor opened nor closed by a copying writer. *)
LEMMA WillBeFrame ==
  ASSUME NEW i, NEW d, WillBe(i, d), data'[i] = data[i],
         \A w \in Writer : (wpc'[w] = "copy" /\ fd'[w] = i) <=> Copying(w, i),
         \A w \in Writer : Copying(w, i) => received'[w] = received[w]
  PROVE  WillBeNext(i, d)
  BY DEF WillBe, WillBeNext, Copying, OnTrack

LEMMA HealCreate ==
  ASSUME HealInv, NEW w \in Writer, NEW d \in Digest, Create(w, d)
  PROVE  Heals'
<1> DEFINE t == TempFile(d)
<1>1. /\ t \in Inode
      /\ temp[d] # None => t = temp[d]
      /\ temp[d] = None => Free(t)
  BY TempFileIsFile DEF HealInv, SoloInv, TypeInv, Create
<1> USE DEF HealInv, SoloInv, TypeInv, TypeOK
<1>2. /\ wpc[w] = "idle"
      /\ temp' = [temp EXCEPT ![d] = t]
      /\ fd' = [fd EXCEPT ![w] = t]
      /\ data' = [data EXCEPT ![t] = <<>>]
      /\ wpc' = [wpc EXCEPT ![w] = "copy"]
      /\ want' = [want EXCEPT ![w] = d]
      /\ received' = [received EXCEPT ![w] = <<>>]
      /\ UNCHANGED <<final, fouled>>
  BY DEF Create
<1> HIDE DEF t
<1>3. \A e \in Digest : final[e] # t /\ (e # d => temp[e] # t)
  BY <1>1, NoneAssumption DEF NamesApart, Free
<1>4. ASSUME NEW i, i # t, NEW e, WillBe(i, e)
      PROVE  WillBeNext(i, e)
  <2>1. data'[i] = data[i]
    BY <1>2, <1>4
  <2>2. \A v \in Writer : (wpc'[v] = "copy" /\ fd'[v] = i) <=> Copying(v, i)
    BY <1>2, <1>4 DEF Copying
  <2>3. \A v \in Writer : Copying(v, i) => received'[v] = received[v]
    BY <1>2 DEF Copying
  <2> QED
    BY <1>4, <2>1, <2>2, <2>3, WillBeFrame
<1>5. WillBeNext(t, d)
  <2>1. data'[t] = <<>> /\ Len(<<>>) = 0 /\ Len(d) \in Nat
    BY <1>1, <1>2, EmptySeq, LenProperties, DigestAssumption
  <2>2. wpc'[w] = "copy" /\ fd'[w] = t /\ received'[w] = <<>>
    BY <1>2
  <2> QED
    BY <2>1, <2>2 DEF WillBeNext
<1>6. ASSUME NEW e \in Digest \ fouled', final'[e] # None
      PROVE  WillBeNext(final'[e], e)
  BY <1>2, <1>3, <1>4, <1>6 DEF Heals
<1>7. ASSUME NEW e \in Digest \ fouled', temp'[e] # None,
             NEW v \in Writer, wpc'[v] \in {"copy", "rename"}, want'[v] = e
      PROVE  WillBeNext(temp'[e], e)
  <2>1. CASE e = d
    BY <1>2, <1>5, <2>1
  <2>2. CASE e # d
    <3>1. v # w /\ temp'[e] = temp[e] /\ Underway(e)
      BY <1>2, <1>7, <2>2 DEF Underway
    <3> QED
      BY <1>2, <1>3, <1>4, <1>7, <2>2, <3>1 DEF Heals
  <2> QED
    BY <2>1, <2>2
<1> QED
  BY <1>6, <1>7, HealsPrimed

(* Writing one more byte keeps a file on its way to d. *)
LEMMA WillBeCopy ==
  ASSUME TypeInv, NEW i \in Inode, NEW d \in Digest, WillBe(i, d),
         NEW w \in Writer, NEW b \in Byte, Copy(w, b)
  PROVE  WillBeNext(i, d)
<1> USE DEF TypeInv, TypeOK
<1> DEFINE n == Len(received[w])
           s == data[i]
<1>1. /\ wpc[w] = "copy" /\ fd[w] \in Inode
      /\ data' = [data EXCEPT ![fd[w]] = WriteAt(data[fd[w]], n, b)]
      /\ received' = [received EXCEPT ![w] = Append(received[w], b)]
      /\ UNCHANGED <<wpc, fd>>
  BY DEF Copy, OpenFiles
<1>2. CASE fd[w] # i
  <2>1. \A v \in Writer : Copying(v, i) => received'[v] = received[v]
    BY <1>1, <1>2 DEF Copying
  <2> QED
    BY <1>1, <1>2, <2>1, WillBeFrame DEF Copying
<1>3. CASE fd[w] = i
  <2>1. n \in Nat /\ Len(s) \in Nat /\ Len(d) \in Nat
    BY LenProperties, DigestAssumption
  <2>2. /\ Len(received'[w]) = n + 1
        /\ received'[w][n + 1] = b
        /\ \A k \in 1 .. n : received'[w][k] = received[w][k]
    BY <1>1, AppendProperties
  <2>3. data'[i] = WriteAt(s, n, b)
    BY <1>1, <1>3
  <2> DEFINE m == IF n < Len(s) THEN Len(s) ELSE n + 1
  <2>4. /\ m \in Nat
        /\ data'[i] = [k \in 1 .. m |-> IF k = n + 1 THEN b ELSE IF k <= Len(s) THEN s[k] ELSE Zero]
    BY <2>1, <2>3 DEF WriteAt
  <2>5. Len(data'[i]) = m
    <3>1. data'[i] \in Seq(Byte)
      BY <2>1, <2>3, WriteAtType
    <3>2. DOMAIN data'[i] = 1 .. Len(data'[i]) /\ Len(data'[i]) \in Nat
      BY <3>1, LenProperties
    <3>3. DOMAIN data'[i] = 1 .. m
      BY <2>4
    <3> HIDE DEF m
    <3> QED
      BY <2>4, <3>2, <3>3
  (* Another writer that is off the track still is; so is w. *)
  <2>6. CASE \E v \in Writer : Copying(v, i) /\ ~OnTrack(v, d)
    <3>1. PICK v \in Writer : Copying(v, i) /\ ~OnTrack(v, d)
      BY <2>6
    <3>2. CASE v # w
      BY <1>1, <3>1, <3>2 DEF Copying, OnTrack, WillBeNext
    <3>3. CASE v = w
      <4>1. ~(/\ Len(received'[w]) <= Len(d)
              /\ \A k \in 1 .. Len(received'[w]) : received'[w][k] = d[k])
        <5>1. CASE n > Len(d)
          BY <2>1, <2>2, <5>1
        <5>2. CASE \E k \in 1 .. n : received[w][k] # d[k]
          <6>1. PICK k \in 1 .. n : received[w][k] # d[k]
            BY <5>2
          <6>2. k \in 1 .. Len(received'[w]) /\ received'[w][k] # d[k]
            BY <2>1, <2>2, <6>1
          <6> QED
            BY <6>2
        <5>3. n > Len(d) \/ \E k \in 1 .. n : received[w][k] # d[k]
          BY <2>1, <3>1, <3>3 DEF OnTrack
        <5> QED
          BY <5>1, <5>2, <5>3
      <4> QED
        BY <1>1, <1>3, <4>1 DEF WillBeNext
    <3> QED
      BY <3>2, <3>3
  <2>7. CASE ~(\E v \in Writer : Copying(v, i) /\ ~OnTrack(v, d))
    <3>1. /\ Len(s) <= Len(d)
          /\ \A k \in 1 .. Len(d) :
               \/ k <= Len(s) /\ s[k] = d[k]
               \/ \E v \in Writer : Copying(v, i) /\ Len(received[v]) < k
      BY <2>7 DEF WillBe
    <3>2. CASE n + 1 <= Len(d) /\ b = d[n + 1]
      <4>1. Len(data'[i]) <= Len(d)
        BY <2>1, <2>5, <3>1, <3>2
      <4>2. ASSUME NEW k \in 1 .. Len(d)
            PROVE  \/ k <= Len(data'[i]) /\ data'[i][k] = d[k]
                   \/ \E v \in Writer : wpc'[v] = "copy" /\ fd'[v] = i /\ Len(received'[v]) < k
        <5>1. CASE k = n + 1
          BY <2>1, <2>4, <2>5, <3>2, <5>1
        <5>2. CASE k # n + 1 /\ k <= Len(s) /\ s[k] = d[k]
          BY <2>1, <2>4, <2>5, <5>2
        <5>3. CASE k # n + 1 /\ \E v \in Writer : Copying(v, i) /\ Len(received[v]) < k
          <6>1. PICK v \in Writer : Copying(v, i) /\ Len(received[v]) < k
            BY <5>3
          <6>2. Len(received'[v]) < k
            BY <1>1, <2>1, <2>2, <5>3, <6>1
          <6> QED
            BY <1>1, <6>1, <6>2 DEF Copying
        <5> QED
          BY <3>1, <5>1, <5>2, <5>3
      <4> QED
        BY <4>1, <4>2 DEF WillBeNext
    <3>3. CASE ~(n + 1 <= Len(d) /\ b = d[n + 1])
      <4>1. ~(/\ Len(received'[w]) <= Len(d)
              /\ \A k \in 1 .. Len(received'[w]) : received'[w][k] = d[k])
        <5>1. n + 1 \in 1 .. Len(received'[w])
          BY <2>1, <2>2
        <5>2. n + 1 <= Len(d) => received'[w][n + 1] # d[n + 1]
          BY <2>2, <3>3
        <5> QED
          BY <2>2, <5>1, <5>2
      <4> QED
        BY <1>1, <1>3, <4>1 DEF WillBeNext
    <3> QED
      BY <3>2, <3>3
  <2> QED
    BY <2>6, <2>7
<1> QED
  BY <1>2, <1>3

LEMMA HealCopy ==
  ASSUME HealInv, NEW w \in Writer, NEW b \in Byte, Copy(w, b)
  PROVE  Heals'
<1> USE DEF HealInv, SoloInv, TypeInv, TypeOK
<1>1. UNCHANGED <<final, temp, wpc, want, fouled>>
  BY DEF Copy, putHistory
<1>2. ASSUME NEW i \in Inode, NEW d \in Digest, WillBe(i, d)
      PROVE  WillBeNext(i, d)
  BY <1>2, WillBeCopy
<1>3. ASSUME NEW d \in Digest \ fouled', final'[d] # None
      PROVE  WillBeNext(final'[d], d)
  BY <1>1, <1>2, <1>3 DEF Heals
<1>4. ASSUME NEW d \in Digest \ fouled', temp'[d] # None,
             NEW v \in Writer, wpc'[v] \in {"copy", "rename"}, want'[v] = d
      PROVE  WillBeNext(temp'[d], d)
  BY <1>1, <1>2, <1>4 DEF Heals, Underway
<1> QED
  BY <1>3, <1>4, HealsPrimed

(* A writer that stops copying d on the track of d had reached its end; one
   that leaves off earlier fouls d, unless it ran alone: then its file is the
   one under the temporary name, and nobody else can rename it.            *)
LEMMA HealEnd ==
  ASSUME HealInv, NEW w \in Writer, CopyFails(w) \/ CloseAndVerify(w)
  PROVE  Heals'
<1> USE DEF HealInv, SoloInv, TypeInv, TypeOK
<1>1. /\ wpc[w] = "copy" /\ fd[w] \in Inode
      /\ wpc'[w] \in {"rename", "cleanup"}
      /\ \A v \in Writer \ {w} : wpc'[v] = wpc[v] /\ fd'[v] = fd[v]
      /\ UNCHANGED <<data, final, temp, want, received, alone>>
      /\ fouled \subseteq fouled'
  BY DEF CopyFails, CloseAndVerify, BreakOff, fileVars, OpenFiles
<1>2. wpc'[w] = "rename" => received[w] = want[w]
  BY DEF CopyFails, CloseAndVerify, BreakOff
<1>3. wpc'[w] = "cleanup" /\ ~alone[w] => want[w] \in fouled'
  BY DEF CopyFails, CloseAndVerify, BreakOff
(* A file w does not copy, or w wrote to its end. *)
<1>4. ASSUME NEW i, i # fd[w], NEW d, WillBe(i, d)
      PROVE  WillBeNext(i, d)
  <2>1. \A v \in Writer : (wpc'[v] = "copy" /\ fd'[v] = i) <=> Copying(v, i)
    BY <1>1, <1>4 DEF Copying
  <2> QED
    BY <1>1, <1>4, <2>1, WillBeFrame
<1>5. ASSUME NEW i, i = fd[w], received[w] = want[w], WillBe(i, want[w])
      PROVE  WillBeNext(i, want[w])
  <2> DEFINE d == want[w]
  <2>1. OnTrack(w, d) /\ Len(d) \in Nat
    BY <1>5, LenProperties, DigestAssumption DEF OnTrack
  <2>2. \A k \in 1 .. Len(d) : ~(Len(received[w]) < k)
    BY <1>5, <2>1
  <2>3. \A v \in Writer \ {w} : Copying(v, i) <=> wpc'[v] = "copy" /\ fd'[v] = i
    BY <1>1 DEF Copying
  <2>4. CASE \E v \in Writer : Copying(v, i) /\ ~OnTrack(v, d)
    <3>1. PICK v \in Writer \ {w} : Copying(v, i) /\ ~OnTrack(v, d)
      BY <2>1, <2>4
    <3> QED
      BY <1>1, <2>3, <3>1 DEF OnTrack, WillBeNext
  <2>5. CASE ~(\E v \in Writer : Copying(v, i) /\ ~OnTrack(v, d))
    <3>1. /\ Len(data[i]) <= Len(d)
          /\ \A k \in 1 .. Len(d) :
               \/ k <= Len(data[i]) /\ data[i][k] = d[k]
               \/ \E v \in Writer : Copying(v, i) /\ Len(received[v]) < k
      BY <1>5, <2>5 DEF WillBe
    <3>2. \A k \in 1 .. Len(d) :
               \/ k <= Len(data[i]) /\ data[i][k] = d[k]
               \/ \E v \in Writer \ {w} : Copying(v, i) /\ Len(received[v]) < k
      BY <2>2, <3>1
    <3> QED
      BY <1>1, <2>3, <3>1, <3>2 DEF WillBeNext
  <2> QED
    BY <2>4, <2>5
<1>6. ASSUME NEW d \in Digest \ fouled', final'[d] # None
      PROVE  WillBeNext(final'[d], d)
  <2>1. final'[d] = final[d] /\ WillBe(final[d], d)
    BY <1>1, <1>6 DEF Heals
  <2>2. CASE final[d] # fd[w]
    BY <1>4, <2>1, <2>2
  <2>3. CASE final[d] = fd[w]
    <3>1. d = want[w]
      BY <1>1, <2>3 DEF CopiesApart
    <3>2. ~alone[w]
      BY <1>1, <1>6, <2>1, <2>3, <3>1 DEF AloneOwnsTemp, NamesApart
    <3>3. received[w] = want[w]
      BY <1>1, <1>2, <1>3, <1>6, <3>1, <3>2
    <3> QED
      BY <1>5, <2>1, <2>3, <3>1, <3>3
  <2> QED
    BY <2>2, <2>3
<1>7. ASSUME NEW d \in Digest \ fouled', temp'[d] # None,
             NEW v \in Writer, wpc'[v] \in {"copy", "rename"}, want'[v] = d
      PROVE  WillBeNext(temp'[d], d)
  <2>1. Underway(d)
    BY <1>1, <1>7 DEF Underway
  <2>2. temp'[d] = temp[d] /\ WillBe(temp[d], d)
    BY <1>1, <1>7, <2>1 DEF Heals
  <2>3. CASE temp[d] # fd[w]
    BY <1>4, <2>2, <2>3
  <2>4. CASE temp[d] = fd[w]
    <3>1. d = want[w]
      BY <1>1, <2>4 DEF CopiesApart
    <3>2. CASE wpc'[w] = "rename"
      BY <1>2, <1>5, <2>2, <2>4, <3>1, <3>2
    <3>3. CASE wpc'[w] = "cleanup"
      <4>1. alone[w]
        BY <1>3, <1>7, <3>1, <3>3
      <4>2. v # w /\ wpc[v] # "idle" /\ want[v] = want[w]
        BY <1>1, <1>7, <3>1, <3>3
      <4> QED
        BY <1>1, <4>1, <4>2 DEF AloneIsAlone
    <3> QED
      BY <1>1, <3>2, <3>3
  <2> QED
    BY <2>3, <2>4
<1> QED
  BY <1>6, <1>7, HealsPrimed

LEMMA HealRename ==
  ASSUME HealInv, NEW w \in Writer, Rename(w)
  PROVE  Heals'
<1> DEFINE d == want[w]
<1> USE DEF HealInv, SoloInv, TypeInv, TypeOK
<1>1. /\ wpc[w] = "rename"
      /\ wpc' = [wpc EXCEPT ![w] = "cleanup"]
      /\ UNCHANGED <<data, want, fd, received>>
  BY DEF Rename
<1>2. ASSUME NEW i, NEW e, WillBe(i, e)
      PROVE  WillBeNext(i, e)
  <2>1. \A v \in Writer : (wpc'[v] = "copy" /\ fd'[v] = i) <=> Copying(v, i)
    BY <1>1 DEF Copying
  <2> QED
    BY <1>1, <1>2, <2>1, WillBeFrame
<1>3. \A e \in Digest : (\E v \in Writer : wpc'[v] \in {"copy", "rename"} /\ want'[v] = e)
                          => Underway(e)
  BY <1>1 DEF Underway
<1>4. CASE temp[d] = None
  <2>1. UNCHANGED <<final, temp, fouled>>
    BY <1>4 DEF Rename
  <2> QED
    BY <1>2, <1>3, <2>1, HealsPrimed DEF Heals
<1>5. CASE temp[d] # None
  <2>1. /\ final' = [final EXCEPT ![d] = temp[d]]
        /\ temp' = [temp EXCEPT ![d] = None]
        /\ fouled' = IF alone[w] THEN fouled \ {d} ELSE fouled
    BY <1>5 DEF Rename
  <2>2. ASSUME d \notin fouled'
        PROVE  WillBeNext(temp[d], d)
    <3>1. CASE d \notin fouled
      <4>1. Underway(d)
        BY <1>1 DEF Underway
      <4> QED
        BY <1>2, <1>5, <3>1, <4>1 DEF Heals
    <3>2. CASE d \in fouled
      <4>1. alone[w]
        BY <2>1, <2>2, <3>2
      <4>2. data'[temp[d]] = d
        BY <1>1, <4>1 DEF AloneOwnsTemp, RenamesVerified
      <4>3. Len(d) \in Nat
        BY LenProperties, DigestAssumption
      <4> QED
        BY <4>2, <4>3 DEF WillBeNext
    <3> QED
      BY <3>1, <3>2
  <2>3. ASSUME NEW e \in Digest \ fouled', final'[e] # None
        PROVE  WillBeNext(final'[e], e)
    <3>1. CASE e = d
      BY <2>1, <2>2, <2>3, <3>1
    <3>2. CASE e # d
      BY <1>2, <2>1, <2>3, <3>2 DEF Heals
    <3> QED
      BY <3>1, <3>2
  <2>4. ASSUME NEW e \in Digest \ fouled', temp'[e] # None, Underway(e)
        PROVE  WillBeNext(temp'[e], e)
    BY <1>2, <2>1, <2>4 DEF Heals
  <2> QED
    BY <1>3, <2>3, <2>4, HealsPrimed
<1> QED
  BY <1>4, <1>5

LEMMA HealCleanup ==
  ASSUME HealInv, NEW w \in Writer, Cleanup(w)
  PROVE  Heals'
<1> USE DEF HealInv, SoloInv, TypeInv, TypeOK
<1>1. /\ wpc[w] = "cleanup"
      /\ wpc' = [wpc EXCEPT ![w] = "idle"]
      /\ fd' = [fd EXCEPT ![w] = None]
      /\ temp' = [temp EXCEPT ![want[w]] = None]
      /\ received' = [received EXCEPT ![w] = <<>>]
      /\ UNCHANGED <<data, final, want, fouled>>
  BY DEF Cleanup
<1>2. ASSUME NEW i, NEW e, WillBe(i, e)
      PROVE  WillBeNext(i, e)
  <2>1. \A v \in Writer : (wpc'[v] = "copy" /\ fd'[v] = i) <=> Copying(v, i)
    BY <1>1 DEF Copying
  <2>2. \A v \in Writer : Copying(v, i) => received'[v] = received[v]
    BY <1>1 DEF Copying
  <2> QED
    BY <1>1, <1>2, <2>1, <2>2, WillBeFrame
<1>3. ASSUME NEW e \in Digest \ fouled', final'[e] # None
      PROVE  WillBeNext(final'[e], e)
  BY <1>1, <1>2, <1>3 DEF Heals
<1>4. ASSUME NEW e \in Digest \ fouled', temp'[e] # None,
             NEW v \in Writer, wpc'[v] \in {"copy", "rename"}, want'[v] = e
      PROVE  WillBeNext(temp'[e], e)
  <2>1. temp'[e] = temp[e] /\ Underway(e)
    BY <1>1, <1>4 DEF Underway
  <2> QED
    BY <1>1, <1>2, <1>4, <2>1 DEF Heals
<1> QED
  BY <1>3, <1>4, HealsPrimed

(* After a crash nobody copies: what was not fouled by it is whole. *)
LEMMA HealCrash ==
  ASSUME HealInv, Crash
  PROVE  Heals'
<1> USE DEF HealInv, SoloInv, TypeInv, TypeOK
<1>1. /\ wpc' = [w \in Writer |-> "idle"]
      /\ fouled' = fouled \cup {want[w] : w \in {v \in Writer : wpc[v] = "copy" /\ ~alone[v]}}
      /\ UNCHANGED <<data, final, temp>>
  BY DEF Crash, fileVars
<1>2. ASSUME NEW d \in Digest \ fouled', final'[d] # None
      PROVE  WillBeNext(final'[d], d)
  <2>1. WillBe(final[d], d)
    BY <1>1, <1>2 DEF Heals
  <2>2. ASSUME NEW w \in Writer, Copying(w, final[d])
        PROVE  FALSE
    <3>1. d = want[w]
      BY <2>2 DEF CopiesApart, Copying
    <3>2. ~alone[w]
      BY <1>1, <1>2, <2>2, <3>1 DEF AloneOwnsTemp, NamesApart, Copying
    <3> QED
      BY <1>1, <1>2, <2>2, <3>1, <3>2 DEF Copying
  <2> QED
    BY <1>1, <2>1, <2>2 DEF WillBe, WillBeNext
<1> QED
  BY <1>1, <1>2, HealsPrimed

LEMMA HealFrame ==
  ASSUME HealInv, UNCHANGED <<data, temp, writerVars, fouled>>,
         \A d \in Digest : final'[d] = final[d] \/ final'[d] = None
  PROVE  Heals'
<1>1. ASSUME NEW i, NEW e, WillBe(i, e)
      PROVE  WillBeNext(i, e)
  BY <1>1, WillBeFrame DEF writerVars, Copying
<1> QED
  BY <1>1, HealsPrimed DEF HealInv, Heals, Underway, writerVars

LEMMA HealNext ==
  ASSUME HealInv, [Next]_vars
  PROVE  HealInv'
<1>1. SoloInv'
  BY SoloInvNext DEF HealInv
<1>2. ASSUME NEW d \in Digest, DeleteBlob(d)
      PROVE  Heals'
  BY <1>2, HealFrame DEF DeleteBlob, putHistory, HealInv, SoloInv, TypeInv, TypeOK
<1>3. ASSUME UNCHANGED <<fileVars, writerVars, fouled>>
      PROVE  Heals'
  BY <1>3, HealFrame DEF fileVars
<1>4. Heals'
  BY <1>2, <1>3, HealCreate, HealCopy, HealEnd, HealRename, HealCleanup, HealCrash
     DEF Next, vars, putHistory, StatBlob, OpenBlob, SizeBlob, SendChunk, EndBody
<1> QED
  BY <1>1, <1>4 DEF HealInv

(* Overlapping puts that all end leave the blob whole. *)
THEOREM QuietBlobIntactInvariant == Spec => []QuietBlobIntact
<1>1. Init => HealInv
  BY SoloInvInit DEF Init, HealInv, Heals
<1>2. HealInv /\ [Next]_vars => HealInv'
  BY HealNext
<1>3. ASSUME HealInv
      PROVE  QuietBlobIntact
  <2> SUFFICES ASSUME NEW d \in Digest \ fouled, final[d] # None,
                      \A w \in Writer : ~Putting(w, d)
               PROVE  data[final[d]] = d
    BY DEF QuietBlobIntact
  <2> USE <1>3 DEF HealInv, SoloInv, TypeInv, TypeOK
  <2> DEFINE s == data[final[d]]
  <2>1. \A w \in Writer : ~Copying(w, final[d])
    BY DEF CopiesApart, Copying, Putting
  <2>2. /\ Len(s) <= Len(d)
        /\ \A k \in 1 .. Len(d) : k <= Len(s) /\ s[k] = d[k]
    BY <2>1 DEF Heals, WillBe
  <2>3. s \in Seq(Byte) /\ d \in Seq(Byte) /\ Len(s) \in Nat /\ Len(d) \in Nat
    BY DigestAssumption, LenProperties
  <2>4. Len(s) = Len(d)
    <3> DEFINE m == Len(d)
               n == Len(s)
    <3>1. n \in Nat /\ m \in Nat /\ n <= m /\ \A k \in 1 .. m : k <= n
      BY <2>2, <2>3
    <3> HIDE DEF m, n
    <3>2. m = 0 => n = m
      BY <3>1
    <3>3. ASSUME m # 0
          PROVE  n = m
      <4>1. m \in 1 .. m
        BY <3>1, <3>3
      <4>2. m <= n
        BY <3>1, <4>1
      <4> QED
        BY <3>1, <4>2
    <3>4. n = m
      BY <3>2, <3>3
    <3> QED
      BY <3>4 DEF m, n
  <2> QED
    BY <2>2, <2>3, <2>4, SeqEqual
<1> QED
  BY <1>1, <1>2, <1>3, PTL DEF Spec
=============================================================================
