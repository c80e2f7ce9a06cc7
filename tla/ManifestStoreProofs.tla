------------------------- MODULE ManifestStoreProofs -------------------------
(***************************************************************************)
(* Proofs about ManifestStore, for any number of clients and files, any    *)
(* tags, documents and digests, and any blobs they name.                   *)
(***************************************************************************)
EXTENDS ManifestStore, SequenceTheorems, TLAPS

(* The file a put opens is a file. *)
LEMMA TempFileIsFile ==
  ASSUME TypeOK, NEW n \in Ref, temp[n] # None \/ \E i \in Inode : Free(i)
  PROVE  /\ TempFile(n) \in Inode
         /\ temp[n] # None => TempFile(n) = temp[n]
         /\ temp[n] = None => Free(TempFile(n))
  BY DEF TempFile, TypeOK

(* Writing over a file leaves a file. *)
LEMMA OverwriteType ==
  ASSUME NEW old \in Seq(Byte), NEW new \in Seq(Byte)
  PROVE  Overwrite(old, new) \in Seq(Byte)
<1>1. Len(old) \in Nat /\ Len(new) \in Nat
  BY LenProperties
<1>2. \A k \in Len(new) + 1 .. Len(old) : old[k] \in Byte
  BY <1>1, ElementOfSeq
<1>3. SubSeq(old, Len(new) + 1, Len(old)) \in Seq(Byte)
  BY <1>1, <1>2, SubSeqProperties
<1> QED
  BY <1>3, ConcatProperties DEF Overwrite

(* What is written over nothing, or over itself, is what the file holds then. *)
LEMMA OverwriteWhole ==
  ASSUME NEW new \in Seq(Byte)
  PROVE  Overwrite(<<>>, new) = new /\ Overwrite(new, new) = new
<1>1. Len(new) \in Nat
  BY LenProperties
<1>2. SubSeq(<<>>, Len(new) + 1, Len(<<>>)) = <<>> /\ SubSeq(new, Len(new) + 1, Len(new)) = <<>>
  BY <1>1, EmptySeq, SubSeqEmpty
<1> QED
  BY <1>2, ConcatEmptySeq DEF Overwrite

(* What is left of a list behind the n-th element. *)
LEMMA RestOfList ==
  ASSUME NEW S, NEW s \in Seq(S), NEW n \in Nat, n <= Len(s)
  PROVE  LET rest == SubSeq(s, n + 1, Len(s)) IN
         /\ rest = <<>> => n = Len(s)
         /\ rest # <<>> => n + 1 \in 1 .. Len(s) /\ Head(rest) = s[n + 1]
<1> DEFINE rest == SubSeq(s, n + 1, Len(s))
<1>1. Len(s) \in Nat
  BY LenProperties
<1>2. \A k \in n + 1 .. Len(s) : s[k] \in S
  BY <1>1, ElementOfSeq
<1>3. /\ rest \in Seq(S)
      /\ Len(rest) = IF n + 1 <= Len(s) THEN Len(s) - n ELSE 0
      /\ n + 1 <= Len(s) => rest[1] = s[n + 1]
  <2>1. /\ rest \in Seq(S)
        /\ Len(rest) = IF n + 1 <= Len(s) THEN Len(s) - (n + 1) + 1 ELSE 0
        /\ \A i \in 1 .. Len(s) - (n + 1) + 1 : rest[i] = s[(n + 1) + i - 1]
    BY <1>1, <1>2, SubSeqProperties
  <2> HIDE DEF rest
  <2> QED
    BY <1>1, <2>1
<1> HIDE DEF rest
<1>4. rest = <<>> => n = Len(s)
  BY <1>1, <1>3, EmptySeq
<1>5. rest # <<>> => n + 1 \in 1 .. Len(s)
  BY <1>1, <1>3, EmptySeq
<1>6. rest # <<>> => Head(rest) = rest[1]
  BY <1>3
<1> QED
  BY <1>1, <1>3, <1>4, <1>5, <1>6 DEF rest
-----------------------------------------------------------------------------
(* Whoever writes, and nobody else, has a file open. *)
OpenFiles == \A w \in Writer : pc[w] = "write" <=> fd[w] # None

TypeInv == TypeOK /\ OpenFiles

LEMMA InitTypeInv == Init => TypeInv
  BY EmptySeq, LayersAssumption, LenProperties DEF Init, TypeInv, TypeOK, OpenFiles, WriterState

(***************************************************************************)
(* The steps with their cases apart, and every variable named.  The next   *)
(* blob is there, or was the last one, or is not there; the temporary file *)
(* t is opened; it is renamed, or is gone.                                 *)
(***************************************************************************)
FindsBlob(w) ==
  /\ pc[w] = "check"
  /\ checked[w] + 1 \in 1 .. Len(Layers[doc[w]])
  /\ Layers[doc[w]][checked[w] + 1] \in blobs
  /\ checked' = [checked EXCEPT ![w] = checked[w] + 1]
  /\ UNCHANGED <<content, final, temp, blobs, pc, doc, name, fd, asked, rfd, expected,
                 alone, by, spoilt, robbed, bereft>>

EndsCheck(w, label) ==
  /\ pc[w] = "check"
  /\ label = "open" => checked[w] = Len(Layers[doc[w]])
  /\ pc' = [pc EXCEPT ![w] = label]
  /\ UNCHANGED <<content, final, temp, blobs, doc, checked, name, fd, asked, rfd, expected,
                 alone, by, spoilt, robbed, bereft>>

OpensFile(w, t) ==
  /\ t \in Inode
  /\ temp[name[w]] # None => t = temp[name[w]]
  /\ temp[name[w]] = None => Free(t)
  /\ pc[w] = "open" /\ fd[w] = None
  /\ pc' = [pc EXCEPT ![w] = "write"]
  /\ temp' = [temp EXCEPT ![name[w]] = t]
  /\ fd' = [fd EXCEPT ![w] = t]
  /\ content' = [content EXCEPT ![t] = <<>>]
  /\ alone' \in [Writer -> BOOLEAN]
  /\ \A v \in Writer \ {w} :
       /\ alone'[w] => ~Writing(v, name[w])
       /\ alone'[v] => alone[v] /\ ~Writing(v, name[w])
  /\ spoilt \subseteq spoilt' /\ spoilt' \subseteq spoilt \cup (Digest \cap {name[w]})
  /\ name[w] \in Digest \ spoilt' =>
       /\ DigestOf[doc[w]] = name[w]
       /\ \A v \in Writer : Writing(v, name[w]) => doc[v] = doc[w]
  /\ UNCHANGED <<final, blobs, doc, checked, name, asked, rfd, expected, by, robbed, bereft>>

Installs(w, n) ==
  /\ n = name[w] /\ n \in Ref
  /\ pc[w] = "rename" /\ fd[w] = None
  /\ temp[n] # None
  /\ final' = [final EXCEPT ![n] = temp[n]]
  /\ temp' = [temp EXCEPT ![n] = None]
  /\ by' = [by EXCEPT ![n] = IF alone[w] THEN doc[w] ELSE None]
  /\ pc' = [pc EXCEPT ![w] = IF n \in Tag THEN "open" ELSE "idle"]
  /\ name' = [name EXCEPT ![w] = IF n \in Tag THEN DigestOf[doc[w]] ELSE n]
  /\ spoilt' = IF alone[w] /\ n = DigestOf[doc[w]] THEN spoilt \ {n} ELSE spoilt
  /\ bereft' = IF w \in robbed THEN bereft \cup {n} ELSE bereft \ {n}
  /\ UNCHANGED <<content, blobs, doc, checked, fd, asked, rfd, expected, alone, robbed>>

FindsNoFile(w, n) ==
  /\ n = name[w] /\ n \in Ref
  /\ pc[w] = "rename" /\ fd[w] = None
  /\ temp[n] = None
  /\ pc' = [pc EXCEPT ![w] = "idle"]
  /\ UNCHANGED <<content, final, temp, name, by, blobs, doc, checked, fd, asked, rfd, expected,
                 alone, spoilt, robbed, bereft>>

LEMMA CheckBlobCases ==
  ASSUME TypeInv, NEW w \in Writer, CheckBlob(w)
  PROVE  FindsBlob(w) \/ EndsCheck(w, "open") \/ EndsCheck(w, "idle")
<1> DEFINE rest == SubSeq(Layers[doc[w]], checked[w] + 1, Len(Layers[doc[w]]))
<1>1. /\ Layers[doc[w]] \in Seq(Blob)
      /\ checked[w] \in Nat /\ checked[w] <= Len(Layers[doc[w]])
  BY LayersAssumption DEF TypeInv, TypeOK
<1>2. /\ rest = <<>> => checked[w] = Len(Layers[doc[w]])
      /\ rest # <<>> => /\ checked[w] + 1 \in 1 .. Len(Layers[doc[w]])
                        /\ Head(rest) = Layers[doc[w]][checked[w] + 1]
  BY <1>1, RestOfList
<1>3. pc[w] = "check"
  BY DEF CheckBlob
<1>4. \/ rest = <<>> /\ pc' = [pc EXCEPT ![w] = "open"] /\ UNCHANGED checked
      \/ /\ rest # <<>> /\ Head(rest) \in blobs
         /\ checked' = [checked EXCEPT ![w] = checked[w] + 1] /\ UNCHANGED pc
      \/ pc' = [pc EXCEPT ![w] = "idle"] /\ UNCHANGED checked
  BY Zenon DEF CheckBlob, Goto
<1>5. UNCHANGED <<content, final, temp, blobs, doc, name, fd, asked, rfd, expected,
                  alone, by, spoilt, robbed, bereft>>
  BY Zenon DEF CheckBlob, dirVars, readerVars, history
<1> HIDE DEF rest
<1> QED
  BY <1>2, <1>3, <1>4, <1>5 DEF FindsBlob, EndsCheck

LEMMA OpenTempCase ==
  ASSUME TypeInv, NEW w \in Writer, OpenTemp(w)
  PROVE  OpensFile(w, TempFile(name[w]))
<1>1. /\ TempFile(name[w]) \in Inode
      /\ temp[name[w]] # None => TempFile(name[w]) = temp[name[w]]
      /\ temp[name[w]] = None => Free(TempFile(name[w]))
  BY TempFileIsFile DEF OpenTemp, TypeInv, TypeOK
<1>2. pc[w] = "open" /\ fd[w] = None
  BY DEF OpenTemp, TypeInv, OpenFiles
<1>3. alone' \in [Writer -> BOOLEAN]
  BY DEF OpenTemp, TypeInv, TypeOK
<1>4. \A v \in Writer \ {w} :
        /\ alone'[w] => ~Writing(v, name[w])
        /\ alone'[v] => alone[v] /\ ~Writing(v, name[w])
  BY DEF OpenTemp
<1>5. /\ spoilt \subseteq spoilt' /\ spoilt' \subseteq spoilt \cup (Digest \cap {name[w]})
      /\ name[w] \in Digest \ spoilt' =>
           /\ DigestOf[doc[w]] = name[w]
           /\ \A v \in Writer : Writing(v, name[w]) => doc[v] = doc[w]
  BY <1>2 DEF OpenTemp, Writing
<1> QED
  BY <1>1, <1>2, <1>3, <1>4, <1>5, Zenon DEF OpensFile, OpenTemp, Goto, requestVars, readerVars

LEMMA RenameCases ==
  ASSUME TypeInv, NEW w \in Writer, Rename(w)
  PROVE  Installs(w, name[w]) \/ FindsNoFile(w, name[w])
<1>1. name[w] \in Ref /\ pc[w] = "rename" /\ fd[w] = None
  BY DEF Rename, TypeInv, TypeOK, OpenFiles
<1>2. UNCHANGED <<content, blobs, doc, checked, fd, asked, rfd, expected, alone, robbed>>
  BY Zenon DEF Rename, requestVars, readerVars
<1> QED
  BY <1>1, <1>2, Zenon DEF Rename, Goto, Installs, FindsNoFile

(* Every step keeps the variables in their types. *)
LEMMA NextTypeOK ==
  ASSUME TypeInv, [Next]_vars
  PROVE  TypeOK'
<1> TypeOK /\ OpenFiles
  BY DEF TypeInv
<1> USE DEF TypeOK, WriterState
<1>1. ASSUME NEW w \in Writer, NEW n \in Ref, NEW m \in Manifest, BeginPut(w, n, m)
      PROVE  TypeOK'
  <2>1. Len(Layers[m]) \in Nat
    BY LayersAssumption, LenProperties
  <2> QED
    BY <1>1, <2>1 DEF BeginPut, Goto, dirVars, readerVars, history
<1>2. ASSUME NEW w \in Writer, CheckBlob(w)
      PROVE  TypeOK'
  <2>1. CASE FindsBlob(w)
    BY <2>1 DEF FindsBlob
  <2>2. CASE EndsCheck(w, "open") \/ EndsCheck(w, "idle")
    BY <2>2 DEF EndsCheck
  <2> QED
    BY <1>2, <2>1, <2>2, CheckBlobCases
<1>3. ASSUME NEW w \in Writer, NEW t, OpensFile(w, t)
      PROVE  TypeOK'
  BY <1>3, EmptySeq DEF OpensFile
<1>4. ASSUME NEW w \in Writer, Write(w)
      PROVE  TypeOK'
  <2>1. fd[w] \in Inode
    BY <1>4 DEF Write, OpenFiles
  <2>2. Overwrite(content[fd[w]], Marshal[doc[w]]) \in Seq(Byte)
    BY <2>1, OverwriteType, MarshalAssumption
  <2> QED
    BY <1>4, <2>2 DEF Write, Goto, requestVars, readerVars, history
<1>5. ASSUME NEW w \in Writer, WriteFails(w)
      PROVE  TypeOK'
  <2>1. fd[w] \in Inode /\ Marshal[doc[w]] \in Seq(Byte)
    BY <1>5, MarshalAssumption DEF WriteFails, OpenFiles
  <2>2. Len(Marshal[doc[w]]) \in Nat
    BY <2>1, LenProperties
  <2>3. ASSUME NEW k \in 0 .. Len(Marshal[doc[w]]) - 1
        PROVE  Overwrite(content[fd[w]], SubSeq(Marshal[doc[w]], 1, k)) \in Seq(Byte)
    <3>1. \A i \in 1 .. k : Marshal[doc[w]][i] \in Byte
      BY <2>1, <2>2, ElementOfSeq
    <3>2. SubSeq(Marshal[doc[w]], 1, k) \in Seq(Byte)
      BY <2>2, <3>1, SubSeqProperties
    <3> QED
      BY <2>1, <3>2, OverwriteType
  <2>4. content' \in [Inode -> Seq(Byte)]
    BY <1>5, <2>1, <2>3 DEF WriteFails
  <2> QED
    BY <1>5, <2>4 DEF WriteFails, Goto, requestVars, readerVars
<1>6. ASSUME NEW w \in Writer, NEW n, Installs(w, n)
      PROVE  TypeOK'
  <2>1. name' \in [Writer -> Ref]
    BY <1>6, DigestAssumption DEF Installs, Ref
  <2>2. by' \in [Ref -> Manifest \cup {None}]
    BY <1>6 DEF Installs
  <2> QED
    BY <1>6, <2>1, <2>2 DEF Installs
<1>7. ASSUME NEW w \in Writer, NEW n, FindsNoFile(w, n)
      PROVE  TypeOK'
  BY <1>7 DEF FindsNoFile
<1>8. ASSUME NEW n \in Ref, DeleteManifest(n)
      PROVE  TypeOK'
  BY <1>8 DEF DeleteManifest, requestVars, readerVars
<1>9. ASSUME NEW r \in Reader, NEW n \in Ref, OpenManifest(r, n)
      PROVE  TypeOK'
  BY <1>9 DEF OpenManifest, dirVars, requestVars, history
<1>10. ASSUME NEW r \in Reader, ReadManifest(r)
      PROVE  TypeOK'
  BY <1>10 DEF ReadManifest, dirVars, requestVars, history
<1>11. ASSUME NEW b \in Blob, BlobArrives(b) \/ BlobDeleted(b)
       PROVE  TypeOK'
  BY <1>11 DEF BlobArrives, BlobDeleted, dirVars, requestVars, readerVars, history
<1>12. ASSUME Crash
       PROVE  TypeOK'
  BY <1>12 DEF Crash, dirVars, requestVars
<1>13. ASSUME UNCHANGED vars
       PROVE  TypeOK'
  BY <1>13 DEF vars, dirVars, requestVars, readerVars, history
<1> QED
  BY <1>1, <1>2, <1>3, <1>4, <1>5, <1>6, <1>7, <1>8, <1>9, <1>10, <1>11, <1>12, <1>13,
     OpenTempCase, RenameCases, RequestAssumption DEF Next

LEMMA NextTypeInv ==
  ASSUME TypeInv, [Next]_vars
  PROVE  TypeInv'
<1>1. TypeOK'
  BY NextTypeOK
<1> TypeOK /\ OpenFiles
  BY DEF TypeInv
<1> USE DEF OpenFiles, TypeOK
<1>2. ASSUME NEW w \in Writer, NEW t, OpensFile(w, t)
      PROVE  OpenFiles'
  BY <1>2, NoneAssumption DEF OpensFile
<1>3. ASSUME NEW w \in Writer, Write(w) \/ WriteFails(w)
      PROVE  OpenFiles'
  <2>1. fd' = [fd EXCEPT ![w] = None]
    BY <1>3 DEF Write, WriteFails
  <2>2. pc'[w] # "write" /\ \A v \in Writer : v # w => pc'[v] = pc[v]
    BY <1>3 DEF Write, WriteFails, Goto
  <2> QED
    BY <2>1, <2>2
<1>4. ASSUME UNCHANGED <<pc, fd>>
      PROVE  OpenFiles'
  BY <1>4
<1>5. ASSUME Crash
      PROVE  OpenFiles'
  BY <1>5 DEF Crash
<1>6. ASSUME NEW w \in Writer, NEW n \in Ref, NEW m \in Manifest, BeginPut(w, n, m)
      PROVE  OpenFiles'
  BY <1>6 DEF BeginPut, Goto
<1>7. ASSUME NEW w \in Writer, CheckBlob(w)
      PROVE  OpenFiles'
  BY <1>7, CheckBlobCases DEF FindsBlob, EndsCheck
<1>8. ASSUME NEW w \in Writer, Rename(w)
      PROVE  OpenFiles'
  BY <1>8, RenameCases DEF Installs, FindsNoFile
<1>9. OpenFiles'
  BY <1>2, <1>3, <1>4, <1>5, <1>6, <1>7, <1>8, OpenTempCase, RequestAssumption
     DEF Next, vars, DeleteManifest, OpenManifest, ReadManifest, BlobArrives, BlobDeleted
<1> QED
  BY <1>1, <1>9 DEF TypeInv

LEMMA TypeInvariance == Spec => []TypeInv
<1>1. TypeInv /\ [Next]_vars => TypeInv'
  BY NextTypeInv
<1> QED
  BY InitTypeInv, <1>1, PTL DEF Spec

(* The variables always have their types (ManifestStore.TypeOK). *)
THEOREM TypeCorrect == Spec => []TypeOK
<1>1. TypeInv => TypeOK
  BY DEF TypeInv
<1> QED
  BY TypeInvariance, <1>1, PTL
-----------------------------------------------------------------------------
(***************************************************************************)
(* Why a put that runs alone is safe.  Names partition the files: no two   *)
(* names refer to one file, and a writer may refer to a file of the name   *)
(* it writes only, and never to one that a put alone installed.  While a   *)
(* put runs alone its file is the one under the temporary name: empty      *)
(* until it is written, and the whole document until it is renamed.        *)
(***************************************************************************)
NamesApart ==
  \A n \in Ref :
    /\ final[n] # None => \A k \in Ref : final[n] # temp[k] /\ (k # n => final[n] # final[k])
    /\ temp[n] # None => \A k \in Ref : k # n => temp[n] # temp[k]

WritesApart ==
  \A w \in Writer : fd[w] # None =>
    \A n \in Ref :
      /\ fd[w] = temp[n] => n = name[w]
      /\ fd[w] = final[n] => n = name[w] /\ by[n] = None

AloneIsAlone ==
  \A w \in Writer : pc[w] \in {"write", "rename"} /\ alone[w] =>
    \A v \in Writer : pc[v] \in {"write", "rename"} /\ name[v] = name[w] => v = w

AloneOwnsTemp ==
  \A w \in Writer : pc[w] \in {"write", "rename"} /\ alone[w] =>
    /\ temp[name[w]] # None
    /\ pc[w] = "write" => fd[w] = temp[name[w]] /\ content[temp[name[w]]] = <<>>
    /\ pc[w] = "rename" => content[temp[name[w]]] = Marshal[doc[w]]

InstalledIntact ==
  \A n \in Ref : by[n] # None => final[n] # None /\ content[final[n]] = Marshal[by[n]]

SoloInv ==
  /\ TypeInv
  /\ NamesApart
  /\ WritesApart
  /\ AloneIsAlone
  /\ AloneOwnsTemp
  /\ InstalledIntact

(***************************************************************************)
(* The file of a manifest that a put alone installed can no longer be      *)
(* written once it is open for reading: no temporary name refers to it,    *)
(* and no writer has it open.                                              *)
(***************************************************************************)
ReadersApart ==
  \A r \in Reader : expected[r] # None =>
    /\ rfd[r] # None
    /\ content[rfd[r]] = Marshal[expected[r]]
    /\ \A n \in Ref : temp[n] # rfd[r]
    /\ \A w \in Writer : fd[w] # rfd[r]

ReadInv == SoloInv /\ ReadersApart
-----------------------------------------------------------------------------
LEMMA ReadInvInit == Init => ReadInv
  BY InitTypeInv DEF Init, ReadInv, SoloInv, NamesApart, WritesApart, AloneIsAlone,
                     AloneOwnsTemp, InstalledIntact, ReadersApart

LEMMA ReadInvOpensFile ==
  ASSUME ReadInv, TypeInv', NEW w \in Writer, NEW t, OpensFile(w, t)
  PROVE  ReadInv'
<1> DEFINE n == name[w]
<1> USE DEF ReadInv, SoloInv, TypeInv, TypeOK
<1>1. /\ n \in Ref /\ t \in Inode
      /\ temp[n] # None => t = temp[n]
      /\ temp[n] = None => Free(t)
      /\ pc' = [pc EXCEPT ![w] = "write"]
      /\ temp' = [temp EXCEPT ![n] = t]
      /\ fd' = [fd EXCEPT ![w] = t]
      /\ content' = [content EXCEPT ![t] = <<>>]
      /\ UNCHANGED <<final, name, doc, rfd, expected, by>>
  BY DEF OpensFile
<1>2. \A v \in Writer \ {w} :
        /\ alone'[w] /\ pc[v] \in {"write", "rename"} => name[v] # n
        /\ alone'[v] => alone[v] /\ (pc[v] \in {"write", "rename"} => name[v] # n)
  BY DEF OpensFile, Writing
<1> HIDE DEF n
(* The file is no manifest, and is named or opened for n alone. *)
<1>3. \A k \in Ref : final[k] # t /\ (k # n => temp[k] # t)
  BY <1>1, NoneAssumption DEF NamesApart, Free
<1>4. NamesApart'
  BY <1>1, <1>3, NoneAssumption DEF NamesApart
<1>5. WritesApart'
  BY <1>1, <1>3, NoneAssumption DEF WritesApart, Free, n
<1>6. AloneIsAlone'
  BY <1>1, <1>2 DEF AloneIsAlone, n
<1>7. AloneOwnsTemp'
  <2> SUFFICES ASSUME NEW v \in Writer, pc'[v] \in {"write", "rename"}, alone'[v]
               PROVE  /\ temp'[name[v]] # None
                      /\ pc'[v] = "write" =>
                           fd'[v] = temp'[name[v]] /\ content'[temp'[name[v]]] = <<>>
                      /\ pc'[v] = "rename" => content'[temp'[name[v]]] = Marshal[doc[v]]
    BY <1>1 DEF AloneOwnsTemp
  <2>1. CASE v = w
    BY <1>1, <2>1, NoneAssumption DEF n
  <2>2. CASE v # w
    <3>1. pc'[v] = pc[v] /\ fd'[v] = fd[v] /\ alone[v] /\ name[v] # n
      BY <1>1, <1>2, <2>2
    <3>2. temp'[name[v]] = temp[name[v]] /\ temp[name[v]] # t
      BY <1>1, <1>3, <3>1
    <3> QED
      BY <1>1, <3>1, <3>2 DEF AloneOwnsTemp
  <2> QED
    BY <2>1, <2>2
<1>8. InstalledIntact'
  BY <1>1, <1>3 DEF InstalledIntact
<1>9. ReadersApart'
  <2>1. \A r \in Reader : expected[r] # None => rfd[r] # t
    BY <1>1, <1>3 DEF ReadersApart, Free
  <2> QED
    BY <1>1, <2>1 DEF ReadersApart
<1> QED
  BY <1>4, <1>5, <1>6, <1>7, <1>8, <1>9

(* A write, whole or broken off, touches no file but the writer's own. *)
LEMMA ReadInvWrite ==
  ASSUME ReadInv, TypeInv', NEW w \in Writer, pc[w] = "write",
         pc' \in {[pc EXCEPT ![w] = "rename"], [pc EXCEPT ![w] = "idle"]},
         pc'[w] = "rename" => content'[fd[w]] = Overwrite(content[fd[w]], Marshal[doc[w]]),
         \A i \in Inode \ {fd[w]} : content'[i] = content[i],
         fd' = [fd EXCEPT ![w] = None],
         UNCHANGED <<final, temp, name, doc, rfd, expected, alone, by>>
  PROVE  ReadInv'
<1> USE DEF ReadInv, SoloInv, TypeInv, TypeOK
<1>1. fd[w] \in Inode
  BY DEF OpenFiles
<1>2. NamesApart'
  BY DEF NamesApart
<1>3. WritesApart'
  BY DEF WritesApart
<1>4. AloneIsAlone'
  <2>1. \A v \in Writer : pc'[v] \in {"write", "rename"} => pc[v] \in {"write", "rename"}
    OBVIOUS
  <2> QED
    BY <2>1 DEF AloneIsAlone
<1>5. AloneOwnsTemp'
  <2> SUFFICES ASSUME NEW v \in Writer, pc'[v] \in {"write", "rename"}, alone[v]
               PROVE  /\ temp[name[v]] # None
                      /\ pc'[v] = "write" =>
                           fd'[v] = temp[name[v]] /\ content'[temp[name[v]]] = <<>>
                      /\ pc'[v] = "rename" => content'[temp[name[v]]] = Marshal[doc[v]]
    BY DEF AloneOwnsTemp
  <2>1. CASE v = w
    <3>1. content[fd[w]] = <<>> /\ fd[w] = temp[name[w]] /\ pc'[w] = "rename"
      BY <2>1 DEF AloneOwnsTemp
    <3>2. Overwrite(<<>>, Marshal[doc[w]]) = Marshal[doc[w]]
      BY OverwriteWhole, MarshalAssumption
    <3> QED
      BY <1>1, <2>1, <3>1, <3>2, NoneAssumption
  <2>2. CASE v # w
    <3>1. name[v] # name[w] /\ pc'[v] = pc[v] /\ fd'[v] = fd[v]
      BY <2>2 DEF AloneIsAlone
    <3>2. temp[name[v]] # None /\ temp[name[v]] # fd[w]
      BY <2>2, <3>1, <1>1, NoneAssumption DEF AloneOwnsTemp, WritesApart
    <3> QED
      BY <2>2, <3>1, <3>2 DEF AloneOwnsTemp
  <2> QED
    BY <2>1, <2>2
<1>6. InstalledIntact'
  BY <1>1, NoneAssumption DEF InstalledIntact, WritesApart
<1>7. ReadersApart'
  BY DEF ReadersApart
<1> QED
  BY <1>2, <1>3, <1>4, <1>5, <1>6, <1>7

LEMMA ReadInvInstalls ==
  ASSUME ReadInv, TypeInv', NEW w \in Writer, NEW n, Installs(w, n)
  PROVE  ReadInv'
<1> USE DEF ReadInv, SoloInv, TypeInv, TypeOK
<1>1. /\ n = name[w] /\ n \in Ref /\ pc[w] = "rename" /\ temp[n] # None
      /\ pc'[w] \notin {"write", "rename"}
      /\ \A v \in Writer \ {w} : pc'[v] = pc[v] /\ name'[v] = name[v]
      /\ final' = [final EXCEPT ![n] = temp[n]]
      /\ temp' = [temp EXCEPT ![n] = None]
      /\ by' = [by EXCEPT ![n] = IF alone[w] THEN doc[w] ELSE None]
      /\ UNCHANGED <<content, fd, doc, rfd, expected, alone>>
  BY DEF Installs
<1>2. NamesApart'
  BY <1>1 DEF NamesApart
(* Another writer of the file shows that this put was not alone. *)
<1>3. ASSUME NEW v \in Writer, fd[v] # None
      PROVE  /\ v # w
             /\ name[v] = n => ~alone[w]
  BY <1>1, <1>3 DEF OpenFiles, AloneIsAlone
<1>4. WritesApart'
  <2> SUFFICES ASSUME NEW v \in Writer, fd[v] # None, NEW k \in Ref
               PROVE  /\ fd[v] = temp'[k] => k = name'[v]
                      /\ fd[v] = final'[k] => k = name'[v] /\ by'[k] = None
    BY <1>1 DEF WritesApart
  <2>1. v # w /\ name'[v] = name[v]
    BY <1>1, <1>3
  <2>2. CASE k = n
    BY <1>1, <1>3, <2>1, <2>2 DEF WritesApart
  <2>3. CASE k # n
    BY <1>1, <2>1, <2>3 DEF WritesApart
  <2> QED
    BY <2>2, <2>3
<1>5. AloneIsAlone'
  <2> SUFFICES ASSUME NEW u \in Writer, pc'[u] \in {"write", "rename"}, alone[u],
                      NEW v \in Writer, pc'[v] \in {"write", "rename"}, name'[v] = name'[u]
               PROVE  v = u
    BY <1>1 DEF AloneIsAlone
  <2>1. u # w /\ v # w
    BY <1>1
  <2> QED
    BY <1>1, <2>1 DEF AloneIsAlone
<1>6. AloneOwnsTemp'
  <2> SUFFICES ASSUME NEW v \in Writer, pc'[v] \in {"write", "rename"}, alone[v]
               PROVE  /\ v # w
                      /\ temp'[name[v]] = temp[name[v]]
    BY <1>1 DEF AloneOwnsTemp
  <2>1. v # w /\ name[v] # n
    BY <1>1 DEF AloneIsAlone
  <2> QED
    BY <1>1, <2>1
<1>7. InstalledIntact'
  BY <1>1 DEF InstalledIntact, AloneOwnsTemp
<1>8. ReadersApart'
  BY <1>1 DEF ReadersApart
<1> QED
  BY <1>2, <1>4, <1>5, <1>6, <1>7, <1>8

(* Steps that change neither files nor names, and let a writer only begin  *)
(* or give up.                                                             *)
AsideOrUnchanged(w) ==
  \/ pc'[w] \notin {"write", "rename"} /\ fd'[w] = None
  \/ pc'[w] = pc[w] /\ name'[w] = name[w] /\ doc'[w] = doc[w] /\ fd'[w] = fd[w]

LEMMA ReadInvFrame ==
  ASSUME ReadInv, TypeInv', UNCHANGED <<content, final, temp, by, alone, rfd, expected>>,
         \A w \in Writer : AsideOrUnchanged(w)
  PROVE  ReadInv'
<1> USE DEF ReadInv, SoloInv, AsideOrUnchanged
<1>1. NamesApart' /\ InstalledIntact' /\ ReadersApart'
  BY DEF NamesApart, InstalledIntact, ReadersApart
<1>2. WritesApart'
  BY DEF WritesApart
<1>3. AloneIsAlone'
  BY DEF AloneIsAlone
<1>4. AloneOwnsTemp'
  BY DEF AloneOwnsTemp
<1> QED
  BY <1>1, <1>2, <1>3, <1>4

LEMMA ReadInvNext ==
  ASSUME ReadInv, [Next]_vars
  PROVE  ReadInv'
<1>1. TypeInv'
  BY NextTypeInv DEF ReadInv, SoloInv
<1> TypeInv /\ TypeOK /\ OpenFiles
  BY DEF ReadInv, SoloInv, TypeInv
<1> USE DEF TypeOK, OpenFiles
<1>2. ASSUME NEW w \in Writer, NEW q \in Request, BeginPut(w, q[1], q[2])
      PROVE  ReadInv'
  <2>1. /\ pc[w] = "idle" /\ fd[w] = None
        /\ pc' = [pc EXCEPT ![w] = "check"]
        /\ \A v \in Writer \ {w} : doc'[v] = doc[v] /\ name'[v] = name[v]
        /\ UNCHANGED <<content, final, temp, fd, by, alone, rfd, expected>>
    BY <1>2 DEF BeginPut, Goto, dirVars, readerVars, history
  <2>2. \A v \in Writer : AsideOrUnchanged(v)
    BY <2>1 DEF AsideOrUnchanged
  <2> QED
    BY <1>1, <2>1, <2>2, ReadInvFrame
<1>3. ASSUME NEW w \in Writer, CheckBlob(w)
      PROVE  ReadInv'
  BY <1>1, <1>3, CheckBlobCases, ReadInvFrame DEF AsideOrUnchanged, FindsBlob, EndsCheck
<1>4. ASSUME NEW w \in Writer, OpenTemp(w)
      PROVE  ReadInv'
  BY <1>1, <1>4, OpenTempCase, ReadInvOpensFile
<1>5. ASSUME NEW w \in Writer, Write(w) \/ WriteFails(w)
      PROVE  ReadInv'
  <2>1. /\ pc[w] = "write"
        /\ pc' \in {[pc EXCEPT ![w] = "rename"], [pc EXCEPT ![w] = "idle"]}
        /\ pc'[w] = "rename" => content'[fd[w]] = Overwrite(content[fd[w]], Marshal[doc[w]])
        /\ \A i \in Inode \ {fd[w]} : content'[i] = content[i]
        /\ fd' = [fd EXCEPT ![w] = None]
        /\ UNCHANGED <<final, temp, name, doc, rfd, expected, alone, by>>
    BY <1>5 DEF Write, WriteFails, Goto, requestVars, readerVars, history
  <2> QED
    BY <1>1, <2>1, ReadInvWrite
<1>6. ASSUME NEW w \in Writer, Rename(w)
      PROVE  ReadInv'
  <2>1. CASE FindsNoFile(w, name[w])
    BY <1>1, <2>1, ReadInvFrame DEF AsideOrUnchanged, FindsNoFile
  <2> QED
    BY <1>1, <1>6, <2>1, RenameCases, ReadInvInstalls
<1>7. ASSUME NEW n \in Ref, DeleteManifest(n)
      PROVE  ReadInv'
  BY <1>1, <1>7 DEF DeleteManifest, requestVars, readerVars, ReadInv, SoloInv, NamesApart,
     WritesApart, AloneIsAlone, AloneOwnsTemp, InstalledIntact, ReadersApart
<1>8. ASSUME NEW r \in Reader, NEW n \in Ref, OpenManifest(r, n)
      PROVE  ReadInv'
  BY <1>1, <1>8 DEF OpenManifest, dirVars, requestVars, history, ReadInv, SoloInv, NamesApart,
     WritesApart, AloneIsAlone, AloneOwnsTemp, InstalledIntact, ReadersApart
<1>9. ASSUME NEW r \in Reader, ReadManifest(r)
      PROVE  ReadInv'
  BY <1>1, <1>9 DEF ReadManifest, dirVars, requestVars, history, ReadInv, SoloInv, NamesApart,
     WritesApart, AloneIsAlone, AloneOwnsTemp, InstalledIntact, ReadersApart
<1>10. ASSUME NEW b \in Blob, BlobArrives(b) \/ BlobDeleted(b)
       PROVE  ReadInv'
  BY <1>1, <1>10, ReadInvFrame
     DEF AsideOrUnchanged, BlobArrives, BlobDeleted, dirVars, requestVars, readerVars, history
<1>11. ASSUME Crash
       PROVE  ReadInv'
  BY <1>1, <1>11 DEF Crash, dirVars, requestVars, ReadInv, SoloInv, NamesApart,
     WritesApart, AloneIsAlone, AloneOwnsTemp, InstalledIntact, ReadersApart
<1>12. ASSUME UNCHANGED vars
       PROVE  ReadInv'
  BY <1>1, <1>12, ReadInvFrame DEF AsideOrUnchanged, vars, dirVars, requestVars, readerVars, history
<1> QED
  BY <1>2, <1>3, <1>4, <1>5, <1>6, <1>7, <1>8, <1>9, <1>10, <1>11, <1>12 DEF Next

LEMMA ReadInvariance == Spec => []ReadInv
<1>1. ReadInv /\ [Next]_vars => ReadInv'
  BY ReadInvNext
<1> QED
  BY ReadInvInit, <1>1, PTL DEF Spec

(* A manifest that a put alone installed is read whole. *)
THEOREM SoloGetInvariant == Spec => []SoloGet
<1>1. ReadInv => SoloGet
  BY DEF ReadInv, ReadersApart, SoloGet
<1> QED
  BY ReadInvariance, <1>1, PTL
-----------------------------------------------------------------------------
(***************************************************************************)
(* Why a tag's manifest is there under its digest.  As long as a digest is *)
(* not spoilt, all who write under it at a time write one document, which  *)
(* has the digest (DocsAgree), one of its two files is there while it is   *)
(* written (HasOne), a writer finds nothing in its file but what it will   *)
(* write itself (OwnFile), and each file is whole, or empty and about to   *)
(* be written (Heals).  So whatever a put that has come to the digest      *)
(* finds at the rename, it leaves the digest's file in place: a tag's      *)
(* manifest has it, or a put is on its way to it (Promised).  A put that   *)
(* comes to the rename alone makes up for whatever had been spoilt.        *)
(***************************************************************************)
DocsAgree ==
  \A w \in Writer : pc[w] \in {"write", "rename"} /\ name[w] \in Digest \ spoilt =>
    /\ DigestOf[doc[w]] = name[w]
    /\ \A v \in Writer : pc[v] \in {"write", "rename"} /\ name[v] = name[w] => doc[v] = doc[w]

HasOne ==
  \A w \in Writer : pc[w] \in {"write", "rename"} /\ name[w] \in Digest \ spoilt =>
    temp[name[w]] # None \/ final[name[w]] # None

OwnFile ==
  \A w \in Writer :
    fd[w] \in {temp[name[w]], final[name[w]]} \ {None} /\ name[w] \in Digest \ spoilt =>
      content[fd[w]] \in {<<>>, Marshal[doc[w]]}

Whole(d, f) == \E m \in Manifest : DigestOf[m] = d /\ content[f] = Marshal[m]

Heals ==
  \A d \in Digest \ spoilt : \A f \in {temp[d], final[d]} \ {None} :
    Whole(d, f) \/ (content[f] = <<>> /\ \E w \in Writer : fd[w] = f)

Promised ==
  \A t \in Tag : by[t] # None /\ DigestOf[by[t]] \notin spoilt =>
    final[DigestOf[by[t]]] # None \/ \E w \in Writer : Storing(w, DigestOf[by[t]])

TagInv ==
  /\ ReadInv
  /\ DocsAgree
  /\ HasOne
  /\ OwnFile
  /\ Heals
  /\ Promised
-----------------------------------------------------------------------------
LEMMA TagInvInit == Init => TagInv
  BY ReadInvInit, NoneAssumption
     DEF Init, TagInv, DocsAgree, HasOne, OwnFile, Heals, Promised, Ref

LEMMA TagInvOpensFile ==
  ASSUME TagInv, ReadInv', NEW w \in Writer, NEW t, OpensFile(w, t)
  PROVE  TagInv'
<1> DEFINE n == name[w]
<1> USE DEF TagInv, ReadInv, SoloInv, TypeInv, TypeOK
<1>1. /\ n \in Ref /\ t \in Inode
      /\ temp[n] # None => t = temp[n]
      /\ temp[n] = None => Free(t)
      /\ pc[w] = "open" /\ fd[w] = None
      /\ pc' = [pc EXCEPT ![w] = "write"]
      /\ temp' = [temp EXCEPT ![n] = t]
      /\ fd' = [fd EXCEPT ![w] = t]
      /\ content' = [content EXCEPT ![t] = <<>>]
      /\ UNCHANGED <<final, name, doc, by>>
  BY DEF OpensFile
<1>2. /\ spoilt \subseteq spoilt'
      /\ n \in Digest \ spoilt' =>
           /\ DigestOf[doc[w]] = n
           /\ \A v \in Writer : pc[v] \in {"write", "rename"} /\ name[v] = n => doc[v] = doc[w]
  BY DEF OpensFile, Writing
<1> HIDE DEF n
<1>3. \A k \in Ref : final[k] # t /\ (k # n => temp[k] # t)
  BY <1>1, NoneAssumption DEF NamesApart, Free
<1>4. \A v \in Writer : v # w => pc'[v] = pc[v]
  BY <1>1
<1>5. DocsAgree'
  <2> SUFFICES ASSUME NEW u \in Writer, pc'[u] \in {"write", "rename"},
                      name[u] \in Digest \ spoilt'
               PROVE  /\ DigestOf[doc[u]] = name[u]
                      /\ \A v \in Writer : pc'[v] \in {"write", "rename"} /\ name[v] = name[u] =>
                           doc[v] = doc[u]
    BY <1>1 DEF DocsAgree
  <2>1. CASE name[u] = n
    <3>1. \A v \in Writer : pc'[v] \in {"write", "rename"} /\ name[v] = n => doc[v] = doc[w]
      BY <1>2, <1>4, <2>1
    <3> QED
      BY <1>2, <2>1, <3>1
  <2>2. CASE name[u] # n
    <3>1. \A v \in Writer : name[v] = name[u] => pc'[v] = pc[v]
      BY <1>4, <2>2 DEF n
    <3> QED
      BY <1>2, <3>1 DEF DocsAgree
  <2> QED
    BY <2>1, <2>2
<1>6. HasOne'
  <2> SUFFICES ASSUME NEW u \in Writer, pc'[u] \in {"write", "rename"},
                      name[u] \in Digest \ spoilt'
               PROVE  temp'[name[u]] # None \/ final[name[u]] # None
    BY <1>1 DEF HasOne
  <2>1. CASE name[u] = n
    BY <1>1, <2>1, NoneAssumption
  <2>2. CASE name[u] # n
    <3>1. pc'[u] = pc[u] /\ temp'[name[u]] = temp[name[u]]
      BY <1>1, <1>4, <2>2 DEF n
    <3> QED
      BY <1>2, <3>1 DEF HasOne
  <2> QED
    BY <2>1, <2>2
<1>7. OwnFile'
  <2> SUFFICES ASSUME NEW u \in Writer, fd'[u] \in {temp'[name[u]], final[name[u]]} \ {None},
                      name[u] \in Digest \ spoilt', fd'[u] # t
               PROVE  content'[fd'[u]] \in {<<>>, Marshal[doc[u]]}
    BY <1>1 DEF OwnFile
  <2>1. u # w /\ fd'[u] = fd[u]
    BY <1>1
  <2>2. fd[u] \in {temp[name[u]], final[name[u]]} \ {None}
    BY <1>1, <2>1
  <2>3. content'[fd[u]] = content[fd[u]]
    BY <1>1, <2>1, <2>2
  <2> QED
    BY <1>2, <2>1, <2>2, <2>3 DEF OwnFile
<1>8. Heals'
  <2> SUFFICES ASSUME NEW d \in Digest \ spoilt', NEW f \in {temp'[d], final[d]} \ {None}
               PROVE  Whole(d, f)' \/ (content'[f] = <<>> /\ \E v \in Writer : fd'[v] = f)
    BY <1>1 DEF Heals
  <2>1. d \in Ref /\ d \in Digest \ spoilt
    BY <1>2 DEF Ref
  <2>2. CASE f = t
    BY <1>1, <2>2
  <2>3. CASE f # t
    <3>1. f \in {temp[d], final[d]} \ {None}
      BY <1>1, <2>1, <2>3
    <3>2. content'[f] = content[f]
      BY <1>1, <2>1, <2>3, <3>1
    <3>3. \A v \in Writer : fd[v] = f => fd'[v] = f
      BY <1>1, <3>1
    <3>4. Whole(d, f) => Whole(d, f)'
      BY <3>2 DEF Whole
    <3> QED
      BY <2>1, <3>1, <3>2, <3>3, <3>4 DEF Heals
  <2> QED
    BY <2>2, <2>3
<1>9. Promised'
  <2>1. \A v \in Writer : pc[v] \in {"open", "write", "rename"} =>
                           pc'[v] \in {"open", "write", "rename"}
    BY <1>1
  <2> QED
    BY <1>1, <1>2, <2>1 DEF Promised, Storing
<1> QED
  BY <1>5, <1>6, <1>7, <1>8, <1>9

LEMMA TagInvWrite ==
  ASSUME TagInv, ReadInv', NEW w \in Writer, Write(w)
  PROVE  TagInv'
<1> USE DEF TagInv, ReadInv, SoloInv, TypeInv, TypeOK
<1>1. /\ pc[w] = "write" /\ fd[w] \in Inode
      /\ pc' = [pc EXCEPT ![w] = "rename"]
      /\ content' = [content EXCEPT ![fd[w]] = Overwrite(content[fd[w]], Marshal[doc[w]])]
      /\ fd' = [fd EXCEPT ![w] = None]
      /\ UNCHANGED <<final, temp, name, doc, by, spoilt>>
  BY DEF Write, Goto, requestVars, history, OpenFiles
<1>2. \A v \in Writer :
        /\ pc'[v] \in {"write", "rename"} <=> pc[v] \in {"write", "rename"}
        /\ pc'[v] \in {"open", "write", "rename"} <=> pc[v] \in {"open", "write", "rename"}
  BY <1>1
<1>3. DocsAgree' /\ HasOne'
  BY <1>1, <1>2 DEF DocsAgree, HasOne
(* The file, if it still has a name, is then whole. *)
<1>4. ASSUME NEW d \in Digest \ spoilt, fd[w] \in {temp[d], final[d]}
      PROVE  /\ name[w] = d /\ DigestOf[doc[w]] = d
             /\ content'[fd[w]] = Marshal[doc[w]]
  <2>1. d \in Ref
    BY DEF Ref
  <2>2. name[w] = d
    BY <1>1, <1>4, <2>1, NoneAssumption DEF WritesApart
  <2>3. DigestOf[doc[w]] = d
    BY <1>1, <2>2 DEF DocsAgree
  <2>4. content[fd[w]] \in {<<>>, Marshal[doc[w]]}
    BY <1>1, <1>4, <2>2, NoneAssumption DEF OwnFile
  <2>5. Marshal[doc[w]] \in Seq(Byte)
    BY MarshalAssumption
  <2>6. content'[fd[w]] = Overwrite(content[fd[w]], Marshal[doc[w]])
    BY <1>1
  <2> QED
    BY <2>2, <2>3, <2>4, <2>5, <2>6, OverwriteWhole
<1>5. OwnFile'
  <2> SUFFICES ASSUME NEW u \in Writer, fd'[u] \in {temp[name[u]], final[name[u]]} \ {None},
                      name[u] \in Digest \ spoilt
               PROVE  content'[fd'[u]] \in {<<>>, Marshal[doc[u]]}
    BY <1>1 DEF OwnFile
  <2>1. u # w /\ fd'[u] = fd[u] /\ fd[u] \in Inode
    BY <1>1
  <2>2. CASE fd[u] = fd[w]
    <3>1. name[w] = name[u] /\ content'[fd[u]] = Marshal[doc[w]]
      BY <1>4, <2>1, <2>2
    <3>2. pc[w] = "write" /\ pc[u] = "write"
      BY <1>1, <2>1, NoneAssumption DEF OpenFiles
    <3>3. doc[u] = doc[w]
      BY <3>1, <3>2 DEF DocsAgree
    <3> QED
      BY <2>1, <3>1, <3>3
  <2>3. CASE fd[u] # fd[w]
    <3>1. content'[fd[u]] = content[fd[u]]
      BY <1>1, <2>1, <2>3
    <3> QED
      BY <2>1, <3>1 DEF OwnFile
  <2> QED
    BY <2>2, <2>3
<1>6. Heals'
  <2> SUFFICES ASSUME NEW d \in Digest \ spoilt, NEW f \in {temp[d], final[d]} \ {None}
               PROVE  Whole(d, f)' \/ (content'[f] = <<>> /\ \E v \in Writer : fd'[v] = f)
    BY <1>1 DEF Heals
  <2>1. d \in Ref /\ f \in Inode
    BY DEF Ref
  <2>2. CASE f = fd[w]
    BY <1>4, <2>2 DEF Whole
  <2>3. CASE f # fd[w]
    <3>1. content'[f] = content[f]
      BY <1>1, <2>1, <2>3
    <3>2. \A v \in Writer : fd[v] = f => fd'[v] = f
      BY <1>1, <2>3
    <3>3. Whole(d, f) => Whole(d, f)'
      BY <3>1 DEF Whole
    <3> QED
      BY <3>1, <3>2, <3>3 DEF Heals
  <2> QED
    BY <2>2, <2>3
<1>7. Promised'
  BY <1>1, <1>2 DEF Promised, Storing
<1> QED
  BY <1>3, <1>5, <1>6, <1>7

LEMMA TagInvWriteFails ==
  ASSUME TagInv, ReadInv', NEW w \in Writer, WriteFails(w)
  PROVE  TagInv'
<1> USE DEF TagInv, ReadInv, SoloInv, TypeInv, TypeOK
<1>1. /\ pc[w] = "write" /\ fd[w] \in Inode
      /\ pc' = [pc EXCEPT ![w] = "idle"]
      /\ \A i \in Inode \ {fd[w]} : content'[i] = content[i]
      /\ fd' = [fd EXCEPT ![w] = None]
      /\ spoilt' = spoilt \cup (Digest \cap {name[w]})
      /\ UNCHANGED <<final, temp, name, doc, by>>
  BY DEF WriteFails, Goto, requestVars, OpenFiles
<1>2. \A v \in Writer : name[v] # name[w] => pc'[v] = pc[v]
  BY <1>1
<1>3. ASSUME NEW d \in Digest \ spoilt'
      PROVE  /\ d \in Ref \ {name[w]} /\ d \in Digest \ spoilt
             /\ \A f \in {temp[d], final[d]} \ {None} :
                  /\ content'[f] = content[f]
                  /\ \A v \in Writer : fd[v] = f <=> fd'[v] = f
  <2>1. d \in Ref \ {name[w]} /\ d \in Digest \ spoilt
    BY <1>1 DEF Ref
  <2>2. ASSUME NEW f \in {temp[d], final[d]} \ {None}
        PROVE  f \in Inode /\ f # fd[w]
    BY <1>1, <2>1, <2>2, NoneAssumption DEF WritesApart
  <2> QED
    BY <1>1, <2>1, <2>2
<1>4. DocsAgree' /\ HasOne'
  BY <1>1, <1>2, <1>3 DEF DocsAgree, HasOne
<1>5. OwnFile'
  <2> SUFFICES ASSUME NEW u \in Writer, fd'[u] \in {temp[name[u]], final[name[u]]} \ {None},
                      name[u] \in Digest \ spoilt'
               PROVE  content'[fd'[u]] \in {<<>>, Marshal[doc[u]]}
    BY <1>1 DEF OwnFile
  <2> QED
    BY <1>3 DEF OwnFile
<1>6. Heals'
  <2> SUFFICES ASSUME NEW d \in Digest \ spoilt', NEW f \in {temp[d], final[d]} \ {None}
               PROVE  Whole(d, f)' \/ (content'[f] = <<>> /\ \E v \in Writer : fd'[v] = f)
    BY <1>1 DEF Heals
  <2>1. Whole(d, f) => Whole(d, f)'
    BY <1>3 DEF Whole
  <2> QED
    BY <1>3, <2>1 DEF Heals
<1>7. Promised'
  <2> SUFFICES ASSUME NEW t \in Tag, by[t] # None, DigestOf[by[t]] \notin spoilt',
                      final[DigestOf[by[t]]] = None
               PROVE  \E v \in Writer : pc'[v] \in {"open", "write", "rename"} /\
                                       name[v] = DigestOf[by[t]]
    BY <1>1 DEF Promised, Storing
  <2>1. DigestOf[by[t]] \in Digest
    BY DigestAssumption DEF Ref
  <2>2. PICK v \in Writer : pc[v] \in {"open", "write", "rename"} /\ name[v] = DigestOf[by[t]]
    BY <1>1 DEF Promised, Storing
  <2> QED
    BY <1>2, <1>3, <2>1, <2>2
<1> QED
  BY <1>4, <1>5, <1>6, <1>7

(* A rename leaves the digest's file in place of the temporary one; the    *)
(* put of a tag goes on to the digest.                                     *)
LEMMA TagInvInstalls ==
  ASSUME TagInv, ReadInv', NEW w \in Writer, NEW n, Installs(w, n)
  PROVE  TagInv'
<1> USE DEF TagInv, ReadInv, SoloInv, TypeInv, TypeOK
<1>1. /\ n = name[w] /\ n \in Ref /\ pc[w] = "rename" /\ temp[n] # None
      /\ pc'[w] = IF n \in Tag THEN "open" ELSE "idle"
      /\ name'[w] = IF n \in Tag THEN DigestOf[doc[w]] ELSE n
      /\ \A v \in Writer \ {w} : pc'[v] = pc[v] /\ name'[v] = name[v]
      /\ final' = [final EXCEPT ![n] = temp[n]]
      /\ temp' = [temp EXCEPT ![n] = None]
      /\ by' = [by EXCEPT ![n] = IF alone[w] THEN doc[w] ELSE None]
      /\ fd[w] = None
      /\ UNCHANGED <<content, fd, doc>>
  BY DEF Installs
(* A digest that is not spoilt any more has this put's document, and no    *)
(* other writer.                                                           *)
<1>2. ASSUME NEW d \in Digest \ spoilt'
      PROVE  \/ d \notin spoilt
             \/ /\ d = n /\ d = DigestOf[doc[w]] /\ content[temp[n]] = Marshal[doc[w]]
                /\ \A v \in Writer : pc[v] \in {"write", "rename"} /\ name[v] = n => v = w
  <2>1. d \in spoilt => alone[w] /\ d = n /\ d = DigestOf[doc[w]]
    BY <1>2 DEF Installs
  <2>2. alone[w] => content[temp[n]] = Marshal[doc[w]]
    BY <1>1 DEF AloneOwnsTemp
  <2>3. alone[w] => \A v \in Writer : pc[v] \in {"write", "rename"} /\ name[v] = n => v = w
    BY <1>1 DEF AloneIsAlone
  <2> QED
    BY <2>1, <2>2, <2>3
<1>3. \A v \in Writer : pc'[v] \in {"write", "rename"} =>
                         v # w /\ pc[v] \in {"write", "rename"} /\ name'[v] = name[v]
  BY <1>1
<1>4. DocsAgree'
  <2> SUFFICES ASSUME NEW u \in Writer, pc'[u] \in {"write", "rename"},
                      name'[u] \in Digest \ spoilt'
               PROVE  /\ DigestOf[doc[u]] = name'[u]
                      /\ \A v \in Writer : pc'[v] \in {"write", "rename"} /\ name'[v] = name'[u]
                           => doc[v] = doc[u]
    BY <1>1 DEF DocsAgree
  <2>1. u # w /\ name'[u] = name[u] /\ pc[u] \in {"write", "rename"}
    BY <1>3
  <2>2. name[u] \notin spoilt
    BY <1>2, <2>1
  <2> QED
    BY <1>3, <2>1, <2>2 DEF DocsAgree
<1>5. HasOne'
  <2> SUFFICES ASSUME NEW u \in Writer, pc'[u] \in {"write", "rename"},
                      name'[u] \in Digest \ spoilt'
               PROVE  temp'[name'[u]] # None \/ final'[name'[u]] # None
    BY <1>1 DEF HasOne
  <2>1. u # w /\ name'[u] = name[u] /\ pc[u] \in {"write", "rename"}
    BY <1>3
  <2>2. name[u] \notin spoilt
    BY <1>2, <2>1
  <2> QED
    BY <1>1, <2>1, <2>2 DEF HasOne
<1>6. OwnFile'
  <2> SUFFICES ASSUME NEW u \in Writer,
                      fd[u] \in {temp'[name'[u]], final'[name'[u]]} \ {None},
                      name'[u] \in Digest \ spoilt'
               PROVE  content[fd[u]] \in {<<>>, Marshal[doc[u]]}
    BY <1>1 DEF OwnFile
  <2>1. u # w /\ name'[u] = name[u] /\ pc[u] = "write"
    BY <1>1 DEF OpenFiles
  <2>2. name[u] \notin spoilt
    BY <1>2, <2>1
  <2>3. fd[u] \in {temp[name[u]], final[name[u]]} \ {None}
    BY <1>1, <2>1
  <2> QED
    BY <2>1, <2>2, <2>3 DEF OwnFile
<1>7. Heals'
  <2> SUFFICES ASSUME NEW d \in Digest \ spoilt', NEW f \in {temp'[d], final'[d]} \ {None}
               PROVE  Whole(d, f) \/ (content[f] = <<>> /\ \E v \in Writer : fd[v] = f)
    BY <1>1 DEF Heals, Whole
  <2>1. d \in Ref
    BY DEF Ref
  <2>2. CASE d \notin spoilt
    <3>1. f \in {temp[d], final[d]} \ {None}
      BY <1>1, <2>1
    <3> QED
      BY <2>2, <3>1 DEF Heals
  <2>3. CASE d \in spoilt
    <3>1. d = n /\ d = DigestOf[doc[w]] /\ content[temp[n]] = Marshal[doc[w]]
      BY <1>2, <2>3
    <3>2. f = temp[n]
      BY <1>1, <3>1
    <3> QED
      BY <3>1, <3>2 DEF Whole
  <2> QED
    BY <2>2, <2>3
<1>8. Promised'
  <2> SUFFICES ASSUME NEW t \in Tag, by'[t] # None, DigestOf[by'[t]] \notin spoilt'
               PROVE  \/ final'[DigestOf[by'[t]]] # None
                      \/ \E v \in Writer : /\ pc'[v] \in {"open", "write", "rename"}
                                           /\ name'[v] = DigestOf[by'[t]]
    BY DEF Promised, Storing
  <2> DEFINE d == DigestOf[by'[t]]
  <2>1. t \in Ref /\ by'[t] \in Manifest
    BY DEF Ref
  <2>2. d \in Digest /\ d \in Ref /\ d \notin Tag
    BY <2>1, DigestAssumption, ReferenceAssumption DEF Ref
  <2> HIDE DEF d
  <2>3. CASE t = n
    <3>1. by'[t] = doc[w]
      BY <1>1, <2>1, <2>3, NoneAssumption
    <3>2. pc'[w] = "open" /\ name'[w] = d
      BY <1>1, <2>3, <3>1 DEF d
    <3> QED
      BY <3>2 DEF d
  <2>4. CASE t # n
    <3>1. by[t] = by'[t]
      BY <1>1, <2>1, <2>4
    <3>2. CASE d = n \/ final[d] # None
      <4>1. final'[d] # None
        BY <1>1, <2>2, <3>2
      <4> QED
        BY <4>1 DEF d
    <3>3. CASE d # n /\ final[d] = None
      <4>1. d \notin spoilt
        BY <1>2, <2>2, <3>3 DEF d
      <4>2. PICK v \in Writer : pc[v] \in {"open", "write", "rename"} /\ name[v] = d
        BY <3>1, <3>3, <4>1 DEF Promised, Storing, d
      <4>3. v # w
        BY <1>1, <3>3, <4>2
      <4>4. pc'[v] \in {"open", "write", "rename"} /\ name'[v] = d
        BY <1>1, <4>2, <4>3
      <4> QED
        BY <4>4 DEF d
    <3> QED
      BY <3>2, <3>3
  <2> QED
    BY <2>3, <2>4
<1> QED
  BY <1>4, <1>5, <1>6, <1>7, <1>8

LEMMA TagInvFindsNoFile ==
  ASSUME TagInv, ReadInv', NEW w \in Writer, NEW n, FindsNoFile(w, n)
  PROVE  TagInv'
<1> USE DEF TagInv, ReadInv, SoloInv, TypeInv, TypeOK
<1>1. /\ n = name[w] /\ n \in Ref /\ pc[w] = "rename" /\ temp[n] = None
      /\ pc' = [pc EXCEPT ![w] = "idle"]
      /\ UNCHANGED <<content, final, temp, name, by, fd, doc, spoilt>>
  BY DEF FindsNoFile
<1>2. \A v \in Writer : pc'[v] \in {"write", "rename"} => pc[v] \in {"write", "rename"}
  BY <1>1
<1>3. DocsAgree' /\ HasOne'
  BY <1>1, <1>2 DEF DocsAgree, HasOne
<1>4. OwnFile'
  BY <1>1 DEF OwnFile
<1>5. Heals'
  BY <1>1 DEF Heals, Whole
<1>6. Promised'
  <2> SUFFICES ASSUME NEW t \in Tag, by[t] # None, DigestOf[by[t]] \notin spoilt,
                      final[DigestOf[by[t]]] = None
               PROVE  \E v \in Writer : pc'[v] \in {"open", "write", "rename"} /\
                                       name[v] = DigestOf[by[t]]
    BY <1>1 DEF Promised, Storing
  <2>1. PICK v \in Writer : pc[v] \in {"open", "write", "rename"} /\ name[v] = DigestOf[by[t]]
    BY DEF Promised, Storing
  <2>2. DigestOf[by[t]] \in Digest
    BY DigestAssumption DEF Ref
  <2>3. v # w
    BY <1>1, <2>1, <2>2 DEF HasOne
  <2> QED
    BY <1>1, <2>1, <2>3
<1> QED
  BY <1>3, <1>4, <1>5, <1>6

LEMMA TagInvCrash ==
  ASSUME TagInv, ReadInv', Crash
  PROVE  TagInv'
<1> USE DEF TagInv, ReadInv, SoloInv, TypeInv, TypeOK
<1>1. /\ \A w \in Writer : pc'[w] = "idle" /\ fd'[w] = None
      /\ spoilt \subseteq spoilt'
      /\ \A w \in Writer : pc[w] \in {"open", "write", "rename"} /\ name[w] \in Digest =>
           name[w] \in spoilt'
      /\ UNCHANGED <<content, final, temp, by>>
  BY DEF Crash, dirVars, Storing
<1>2. DocsAgree' /\ HasOne' /\ OwnFile'
  BY <1>1 DEF DocsAgree, HasOne, OwnFile
<1>3. Heals'
  <2> SUFFICES ASSUME NEW d \in Digest \ spoilt', NEW f \in {temp[d], final[d]} \ {None}
               PROVE  Whole(d, f)
    BY <1>1 DEF Heals, Whole
  <2>1. ASSUME NEW w \in Writer, fd[w] = f
        PROVE  FALSE
    <3>1. name[w] = d /\ pc[w] = "write"
      BY <2>1 DEF WritesApart, OpenFiles, Ref
    <3> QED
      BY <1>1, <3>1
  <2> QED
    BY <1>1, <2>1 DEF Heals
<1>4. Promised'
  <2>1. \A t \in Tag : by[t] # None => DigestOf[by[t]] \in Digest
    BY DigestAssumption DEF Ref
  <2> QED
    BY <1>1, <2>1 DEF Promised, Storing
<1> QED
  BY <1>2, <1>3, <1>4

(* Steps that change no file and no temporary name, and let a writer only  *)
(* begin or go on to write.                                                *)
LEMMA TagInvFrame ==
  ASSUME TagInv, ReadInv', UNCHANGED <<content, temp, fd>>, spoilt \subseteq spoilt',
         \A n \in Ref : /\ final'[n] = final[n] \/ (final'[n] = None /\ n \notin Digest \ spoilt')
                        /\ by'[n] = by[n] \/ by'[n] = None,
         \A w \in Writer :
           \/ pc'[w] \notin {"write", "rename"} /\ pc[w] \in {"idle", "check"} /\ fd[w] = None
           \/ pc'[w] = pc[w] /\ name'[w] = name[w] /\ doc'[w] = doc[w]
  PROVE  TagInv'
<1> USE DEF TagInv
<1>1. \A w \in Writer : pc'[w] \in {"write", "rename"} =>
        pc[w] \in {"write", "rename"} /\ doc'[w] = doc[w] /\ name'[w] = name[w]
  OBVIOUS
<1>2. \A d \in Digest \ spoilt' : d \in Digest \ spoilt /\ final'[d] = final[d]
  BY DEF Ref
<1>3. DocsAgree'
  <2> SUFFICES ASSUME NEW u \in Writer, pc'[u] \in {"write", "rename"},
                      name'[u] \in Digest \ spoilt'
               PROVE  /\ DigestOf[doc'[u]] = name'[u]
                      /\ \A v \in Writer : pc'[v] \in {"write", "rename"} /\ name'[v] = name'[u]
                           => doc'[v] = doc'[u]
    BY DEF DocsAgree
  <2>1. pc[u] \in {"write", "rename"} /\ name'[u] = name[u] /\ doc'[u] = doc[u]
    BY <1>1
  <2> QED
    BY <1>1, <1>2, <2>1 DEF DocsAgree
<1>4. HasOne'
  <2> SUFFICES ASSUME NEW u \in Writer, pc'[u] \in {"write", "rename"},
                      name'[u] \in Digest \ spoilt'
               PROVE  temp[name'[u]] # None \/ final'[name'[u]] # None
    BY DEF HasOne
  <2>1. pc[u] \in {"write", "rename"} /\ name'[u] = name[u]
    BY <1>1
  <2> QED
    BY <1>2, <2>1 DEF HasOne
<1>5. OwnFile'
  BY <1>2 DEF OwnFile
<1>6. Heals'
  BY <1>2 DEF Heals, Whole
<1>7. Promised'
  <2> SUFFICES ASSUME NEW t \in Tag, by'[t] # None, DigestOf[by'[t]] \notin spoilt'
               PROVE  \/ final'[DigestOf[by'[t]]] # None
                      \/ \E v \in Writer : /\ pc'[v] \in {"open", "write", "rename"}
                                           /\ name'[v] = DigestOf[by'[t]]
    BY DEF Promised, Storing
  <2>1. by'[t] = by[t] /\ DigestOf[by[t]] \in Digest
    BY DigestAssumption DEF Ref, ReadInv, SoloInv, TypeInv, TypeOK
  <2>2. \A v \in Writer : pc[v] \in {"open", "write", "rename"} =>
                           pc'[v] = pc[v] /\ name'[v] = name[v]
    OBVIOUS
  <2> QED
    BY <1>2, <2>1, <2>2 DEF Promised, Storing
<1> QED
  BY <1>3, <1>4, <1>5, <1>6, <1>7

LEMMA TagInvNext ==
  ASSUME TagInv, [Next]_vars
  PROVE  TagInv'
<1>1. ReadInv'
  BY ReadInvNext DEF TagInv
<1> TypeInv /\ TypeOK /\ OpenFiles
  BY DEF TagInv, ReadInv, SoloInv, TypeInv
<1>2. ASSUME NEW w \in Writer, NEW q \in Request, BeginPut(w, q[1], q[2])
      PROVE  TagInv'
  <2>1. /\ pc[w] = "idle" /\ pc' = [pc EXCEPT ![w] = "check"] /\ fd[w] = None
        /\ \A v \in Writer \ {w} : doc'[v] = doc[v] /\ name'[v] = name[v]
        /\ UNCHANGED <<content, temp, fd, spoilt, final, by>>
    BY <1>2 DEF BeginPut, Goto, dirVars, TypeOK, OpenFiles
  <2>2. \A v \in Writer :
          \/ pc'[v] \notin {"write", "rename"} /\ pc[v] \in {"idle", "check"} /\ fd[v] = None
          \/ pc'[v] = pc[v] /\ name'[v] = name[v] /\ doc'[v] = doc[v]
    BY <2>1 DEF TypeOK
  <2> QED
    BY <1>1, <2>1, <2>2, TagInvFrame
<1>3. ASSUME NEW w \in Writer, CheckBlob(w)
      PROVE  TagInv'
  <2>1. \A v \in Writer :
          \/ pc'[v] \notin {"write", "rename"} /\ pc[v] \in {"idle", "check"} /\ fd[v] = None
          \/ pc'[v] = pc[v] /\ name'[v] = name[v] /\ doc'[v] = doc[v]
    BY <1>3, CheckBlobCases DEF FindsBlob, EndsCheck, TypeOK, OpenFiles
  <2>2. UNCHANGED <<content, temp, fd, spoilt, final, by>>
    BY <1>3, CheckBlobCases DEF FindsBlob, EndsCheck
  <2> QED
    BY <1>1, <2>1, <2>2, TagInvFrame
<1>4. ASSUME NEW w \in Writer, OpenTemp(w)
      PROVE  TagInv'
  BY <1>1, <1>4, OpenTempCase, TagInvOpensFile
<1>5. ASSUME NEW w \in Writer, Rename(w)
      PROVE  TagInv'
  BY <1>1, <1>5, RenameCases, TagInvInstalls, TagInvFindsNoFile
<1>6. ASSUME NEW n \in Ref, DeleteManifest(n)
      PROVE  TagInv'
  <2>1. /\ spoilt \subseteq spoilt'
        /\ UNCHANGED <<content, temp, fd, pc, name, doc>>
    BY <1>6 DEF DeleteManifest, requestVars
  <2>2. \A k \in Ref : /\ final'[k] = final[k] \/ (final'[k] = None /\ k \notin Digest \ spoilt')
                       /\ by'[k] = by[k] \/ by'[k] = None
    BY <1>6 DEF DeleteManifest, TypeOK
  <2> QED
    BY <1>1, <2>1, <2>2, TagInvFrame
<1>7. ASSUME UNCHANGED <<content, temp, fd, spoilt, final, by, pc, name, doc>>
      PROVE  TagInv'
  BY <1>1, <1>7, TagInvFrame
<1> QED
  BY <1>1, <1>2, <1>3, <1>4, <1>5, <1>6, <1>7, TagInvWrite, TagInvWriteFails, TagInvCrash
     DEF Next, vars, dirVars, requestVars, readerVars, history, OpenManifest, ReadManifest,
         BlobArrives, BlobDeleted

(* A tag's manifest is there under its digest. *)
THEOREM TagHasManifestInvariant == Spec => []TagHasManifest
<1>1. TagInv /\ [Next]_vars => TagInv'
  BY TagInvNext
<1>2. ASSUME TagInv
      PROVE  TagHasManifest
  <2> SUFFICES ASSUME NEW t \in Tag, by[t] # None, DigestOf[by[t]] \notin spoilt,
                      \A w \in Writer : ~Storing(w, DigestOf[by[t]])
               PROVE  final[DigestOf[by[t]]] # None /\ Whole(DigestOf[by[t]], final[DigestOf[by[t]]])
    BY DEF TagHasManifest, Whole
  <2> DEFINE d == DigestOf[by[t]]
  <2> USE <1>2 DEF TagInv
  <2>1. final[d] # None
    BY DEF Promised
  <2>2. d \in Digest /\ d \in Ref
    BY DigestAssumption DEF ReadInv, SoloInv, TypeInv, TypeOK, Ref
  <2>3. ASSUME NEW w \in Writer, fd[w] = final[d]
        PROVE  FALSE
    <3>1. pc[w] = "write" /\ name[w] = d
      BY <2>1, <2>2, <2>3 DEF ReadInv, SoloInv, TypeInv, OpenFiles, WritesApart
    <3> QED
      BY <3>1 DEF Storing
  <2> QED
    BY <2>1, <2>2, <2>3 DEF Heals
<1> QED
  BY TagInvInit, <1>1, <1>2, PTL DEF Spec
-----------------------------------------------------------------------------
(***************************************************************************)
(* Why a manifest that can be pulled is complete: the blobs a put has      *)
(* found are there until a DELETE takes one, which robs the put, and       *)
(* bereaves the references that have its manifest.                         *)
(***************************************************************************)
Verified ==
  \A w \in Writer \ robbed :
    /\ pc[w] # "idle" => \A k \in 1 .. checked[w] : Layers[doc[w]][k] \in blobs
    /\ pc[w] \in {"open", "write", "rename"} => checked[w] = Len(Layers[doc[w]])

CompleteInv == TypeInv /\ Verified /\ ManifestComplete

LEMMA CompleteInvNext ==
  ASSUME CompleteInv, [Next]_vars
  PROVE  CompleteInv'
<1>1. TypeInv'
  BY NextTypeInv DEF CompleteInv
<1> TypeInv /\ TypeOK /\ Verified /\ ManifestComplete
  BY DEF CompleteInv, TypeInv
<1> USE DEF TypeOK
<1>2. ASSUME NEW w \in Writer, NEW q \in Request, BeginPut(w, q[1], q[2])
      PROVE  Verified' /\ ManifestComplete'
  <2>1. /\ pc'[w] = "check" /\ checked'[w] = 0 /\ robbed' = robbed \ {w}
        /\ \A v \in Writer \ {w} :
             pc'[v] = pc[v] /\ checked'[v] = checked[v] /\ doc'[v] = doc[v]
        /\ UNCHANGED <<blobs, by, bereft>>
    BY <1>2 DEF BeginPut, Goto
  <2>2. Verified'
    BY <2>1 DEF Verified
  <2> QED
    BY <2>1, <2>2 DEF ManifestComplete
<1>3. ASSUME NEW w \in Writer, CheckBlob(w)
      PROVE  Verified' /\ ManifestComplete'
  <2>1. CASE FindsBlob(w)
    <3>1. ManifestComplete'
      BY <2>1 DEF FindsBlob, ManifestComplete
    <3>2. ASSUME NEW k \in 1 .. checked[w] + 1, w \notin robbed
          PROVE  Layers[doc[w]][k] \in blobs
      <4>1. k = checked[w] + 1 \/ k \in 1 .. checked[w]
        OBVIOUS
      <4> QED
        BY <2>1, <3>2, <4>1 DEF FindsBlob, Verified
    <3>3. Verified'
      BY <2>1, <3>2 DEF FindsBlob, Verified
    <3> QED
      BY <3>1, <3>3
  <2>2. CASE EndsCheck(w, "open") \/ EndsCheck(w, "idle")
    BY <2>2 DEF EndsCheck, Verified, ManifestComplete
  <2> QED
    BY <1>3, <2>1, <2>2, CheckBlobCases
<1>4. ASSUME NEW w \in Writer, OpensFile(w, TempFile(name[w]))
      PROVE  Verified' /\ ManifestComplete'
  BY <1>4 DEF OpensFile, Verified, ManifestComplete
<1>5. ASSUME NEW w \in Writer, Write(w) \/ WriteFails(w)
      PROVE  Verified' /\ ManifestComplete'
  <2>1. /\ UNCHANGED <<blobs, doc, checked, by, robbed, bereft>>
        /\ pc[w] = "write" /\ pc'[w] \in {"rename", "idle"}
        /\ \A v \in Writer : v # w => pc'[v] = pc[v]
    <3>1. CASE Write(w)
      BY <3>1 DEF Write, Goto, requestVars, history
    <3>2. CASE WriteFails(w)
      BY <3>2 DEF WriteFails, Goto, requestVars
    <3> QED
      BY <1>5, <3>1, <3>2
  <2>2. Verified'
    BY <2>1 DEF Verified
  <2>3. ManifestComplete'
    BY <2>1 DEF ManifestComplete
  <2> QED
    BY <2>2, <2>3
<1>6. ASSUME NEW w \in Writer, Rename(w)
      PROVE  Verified' /\ ManifestComplete'
  <2> DEFINE n == name[w]
  <2>1. CASE FindsNoFile(w, n)
    BY <2>1 DEF FindsNoFile, Verified, ManifestComplete
  <2>2. CASE Installs(w, n)
    <3>1. /\ pc[w] = "rename" /\ n \in Ref
          /\ by' = [by EXCEPT ![n] = IF alone[w] THEN doc[w] ELSE None]
          /\ bereft' = IF w \in robbed THEN bereft \cup {n} ELSE bereft \ {n}
          /\ pc'[w] \in {"open", "idle"}
          /\ \A v \in Writer \ {w} : pc'[v] = pc[v]
          /\ UNCHANGED <<blobs, doc, checked, robbed>>
      BY <2>2 DEF Installs
    <3>2. Verified'
      BY <3>1 DEF Verified
    <3>3. ManifestComplete'
      <4> SUFFICES ASSUME NEW k \in Ref \ bereft', by'[k] # None,
                          NEW i \in 1 .. Len(Layers[by'[k]])
                   PROVE  Layers[by'[k]][i] \in blobs
        BY <3>1 DEF ManifestComplete
      <4>1. CASE k = n
        BY <3>1, <4>1 DEF Verified
      <4>2. CASE k # n
        BY <3>1, <4>2 DEF ManifestComplete
      <4> QED
        BY <4>1, <4>2
    <3> QED
      BY <3>2, <3>3
  <2> QED
    BY <1>6, <2>1, <2>2, RenameCases
<1>7. ASSUME NEW n \in Ref, DeleteManifest(n)
      PROVE  Verified' /\ ManifestComplete'
  BY <1>7 DEF DeleteManifest, requestVars, Verified, ManifestComplete
<1>8. ASSUME NEW b \in Blob, BlobArrives(b)
      PROVE  Verified' /\ ManifestComplete'
  BY <1>8 DEF BlobArrives, requestVars, history, Verified, ManifestComplete
<1>9. ASSUME NEW b \in Blob, BlobDeleted(b)
      PROVE  Verified' /\ ManifestComplete'
  <2>1. /\ UNCHANGED <<pc, doc, checked, by>>
        /\ blobs' = blobs \ {b}
        /\ robbed \subseteq robbed' /\ bereft \subseteq bereft'
        /\ \A w \in Writer \ robbed' : \A k \in 1 .. checked[w] : Layers[doc[w]][k] # b
        /\ \A n \in Ref \ bereft' : by[n] # None =>
             \A k \in 1 .. Len(Layers[by[n]]) : Layers[by[n]][k] # b
    BY <1>9 DEF BlobDeleted, requestVars
  <2>2. Verified'
    BY <2>1 DEF Verified
  <2>3. ManifestComplete'
    BY <2>1 DEF ManifestComplete
  <2> QED
    BY <2>2, <2>3
<1>10. ASSUME Crash
       PROVE  Verified' /\ ManifestComplete'
  BY <1>10 DEF Crash, requestVars, Verified, ManifestComplete
<1>11. ASSUME UNCHANGED <<blobs, pc, doc, checked, by, robbed, bereft>>
       PROVE  Verified' /\ ManifestComplete'
  BY <1>11 DEF Verified, ManifestComplete
<1>12. Verified' /\ ManifestComplete'
  BY <1>2, <1>3, <1>4, <1>5, <1>6, <1>7, <1>8, <1>9, <1>10, <1>11, OpenTempCase
     DEF Next, vars, requestVars, history, OpenManifest, ReadManifest
<1> QED
  BY <1>1, <1>12 DEF CompleteInv

(* A manifest that can be pulled has all its blobs. *)
THEOREM ManifestCompleteInvariant == Spec => []ManifestComplete
<1>1. Init => CompleteInv
  BY InitTypeInv DEF Init, CompleteInv, Verified, ManifestComplete
<1>2. CompleteInv /\ [Next]_vars => CompleteInv'
  BY CompleteInvNext
<1>3. CompleteInv => ManifestComplete
  BY DEF CompleteInv
<1> QED
  BY <1>1, <1>2, <1>3, PTL DEF Spec
-----------------------------------------------------------------------------
(***************************************************************************)
(* Why the repository is a table.  What can be relied on depends on by and *)
(* expected only, since the files they vouch for are intact (ReadInv); so  *)
(* the table changes where by does, at a rename or a DELETE.               *)
(***************************************************************************)
LEMMA GotIs ==
  ASSUME ReadInv, ReadInv'
  PROVE  /\ Got = [n \in Ref |-> IF by[n] # None THEN Marshal[by[n]] ELSE None]
         /\ Got' = [n \in Ref |-> IF by'[n] # None THEN Marshal[by'[n]] ELSE None]
         /\ Reading = [r \in Reader |-> IF expected[r] # None THEN Marshal[expected[r]] ELSE None]
         /\ Reading' = [r \in Reader |-> IF expected'[r] # None THEN Marshal[expected'[r]] ELSE None]
  BY DEF ReadInv, SoloInv, InstalledIntact, ReadersApart, Got, Reading

LEMMA SameGot ==
  ASSUME ReadInv, ReadInv', UNCHANGED by
  PROVE  Got' = Got
  BY GotIs

LEMMA GotChanges ==
  ASSUME ReadInv, ReadInv', NEW n \in Ref, \A k \in Ref : k # n => by'[k] = by[k]
  PROVE  Got' = [Got EXCEPT ![n] = IF by'[n] # None THEN Marshal[by'[n]] ELSE None]
  BY GotIs

LEMMA ReadingChanges ==
  ASSUME ReadInv, ReadInv', NEW r \in Reader,
         \A k \in Reader : k # r => expected'[k] = expected[k]
  PROVE  Reading' = [Reading EXCEPT ![r] = IF expected'[r] # None THEN Marshal[expected'[r]]
                                           ELSE None]
  BY GotIs

LEMMA SameReading ==
  ASSUME ReadInv, ReadInv', UNCHANGED expected
  PROVE  Reading' = Reading
  BY GotIs

(* Whoever is at work wants something. *)
LEMMA WantedIs ==
  /\ \A x : x \in Wanted <=> \E w \in Writer : pc[w] # "idle" /\ x = <<name[w], doc[w]>>
  /\ \A x : x \in Wanted' <=> \E w \in Writer : pc'[w] # "idle" /\ x = <<name'[w], doc'[w]>>
  BY DEF Wanted

(* A step in which w goes on, or gives up. *)
LEMMA WantedSteps ==
  ASSUME NEW w \in Writer, pc[w] # "idle",
         \A v \in Writer \ {w} : pc'[v] = pc[v], UNCHANGED <<name, doc>>
  PROVE  /\ Wanted' \subseteq Wanted
         /\ pc'[w] # "idle" => Wanted' = Wanted
<1>1. ASSUME NEW x, x \in Wanted' PROVE x \in Wanted
  BY <1>1, WantedIs
<1>2. ASSUME NEW x, x \in Wanted, pc'[w] # "idle" PROVE x \in Wanted'
  BY <1>2, WantedIs
<1> QED
  BY <1>1, <1>2

(* At a rename the put goes on to the digest, or is done. *)
LEMMA WantedInstalls ==
  ASSUME TypeInv, NEW w \in Writer, NEW n, Installs(w, n)
  PROVE  LET left == IF n \in Tag THEN Wanted \cup {<<DigestOf[doc[w]], doc[w]>>} ELSE Wanted
         IN  <<n, doc[w]>> \in Wanted /\ Wanted' \in {left, left \ {<<n, doc[w]>>}}
<1> DEFINE x == <<n, doc[w]>>
           y == <<DigestOf[doc[w]], doc[w]>>
           left == IF n \in Tag THEN Wanted \cup {y} ELSE Wanted
<1>1. /\ n = name[w] /\ pc[w] = "rename" /\ doc' = doc
      /\ \A v \in Writer \ {w} : pc'[v] = pc[v] /\ name'[v] = name[v]
      /\ n \in Tag => pc'[w] = "open" /\ name'[w] = DigestOf[doc[w]]
      /\ n \notin Tag => pc'[w] = "idle"
  BY DEF Installs, TypeInv, TypeOK
<1>2. x \in Wanted
  BY <1>1, WantedIs
<1>3. ASSUME NEW z PROVE z \in Wanted' => z \in left
  BY <1>1, WantedIs
<1>4. ASSUME NEW z PROVE z \in left => z \in Wanted' \/ z = x
  BY <1>1, WantedIs
<1> HIDE DEF left, x
<1>5. CASE x \in Wanted'
  <2>1. Wanted' = left
    BY <1>3, <1>4, <1>5
  <2> QED
    BY <1>2, <2>1 DEF left, x
<1>6. CASE x \notin Wanted'
  <2>1. Wanted' = left \ {x}
    BY <1>3, <1>4, <1>6
  <2> QED
    BY <1>2, <2>1 DEF left, x
<1> QED
  BY <1>5, <1>6

LEMMA InstallsMaps ==
  ASSUME ReadInv, ReadInv', NEW w \in Writer, NEW n, Installs(w, n)
  PROVE  Table!Install(n, doc[w]) /\ n \in Ref /\ doc[w] \in Manifest
<1>1. /\ n \in Ref /\ doc[w] \in Manifest /\ expected' = expected
      /\ by' = [by EXCEPT ![n] = IF alone[w] THEN doc[w] ELSE None]
      /\ by \in [Ref -> Manifest \cup {None}]
  BY DEF Installs, ReadInv, SoloInv, TypeInv, TypeOK
<1> DEFINE v == IF alone[w] THEN Marshal[doc[w]] ELSE None
<1>2. Got' = [Got EXCEPT ![n] = v]
  BY <1>1, GotIs, NoneAssumption
<1>3. \E u \in {Marshal[doc[w]], None} : Got' = [Got EXCEPT ![n] = u]
  BY <1>2
<1>4. Reading' = Reading
  BY <1>1, SameReading
<1> QED
  BY <1>1, <1>3, <1>4, WantedInstalls DEF Table!Install, ReadInv, SoloInv

LEMMA TableStep ==
  ASSUME ReadInv, ReadInv', [Next]_vars
  PROVE  [Table!Next]_(Table!cells)
<1> TypeInv /\ TypeOK /\ TypeOK'
  BY DEF ReadInv, SoloInv, TypeInv
<1> USE DEF TypeOK
<1>1. ASSUME NEW w \in Writer, NEW q \in Request, BeginPut(w, q[1], q[2]) PROVE Table!Next
  <2>1. /\ pc[w] = "idle" /\ pc'[w] = "check" /\ name'[w] = q[1] /\ doc'[w] = q[2]
        /\ \A v \in Writer \ {w} : pc'[v] = pc[v] /\ name'[v] = name[v] /\ doc'[v] = doc[v]
        /\ UNCHANGED <<by, expected>>
    BY <1>1 DEF BeginPut, Goto, history, readerVars
  <2>2. ASSUME NEW x, x \in Wanted' PROVE x \in Wanted \/ x = <<q[1], q[2]>>
    <3>1. PICK v \in Writer : pc'[v] # "idle" /\ x = <<name'[v], doc'[v]>>
      BY <2>2, WantedIs
    <3> QED
      BY <2>1, <3>1, WantedIs
  <2>3. ASSUME NEW x, x \in Wanted \/ x = <<q[1], q[2]>> PROVE x \in Wanted'
    <3>1. CASE x \in Wanted
      <4>1. PICK v \in Writer : pc[v] # "idle" /\ x = <<name[v], doc[v]>>
        BY <3>1, WantedIs
      <4> QED
        BY <2>1, <4>1, WantedIs
    <3>2. CASE x = <<q[1], q[2]>>
      BY <2>1, <3>2, WantedIs
    <3> QED
      BY <2>3, <3>1, <3>2
  <2>4. Wanted' = Wanted \cup {<<q[1], q[2]>>}
    BY <2>2, <2>3
  <2> QED
    BY <2>1, <2>4, SameGot, SameReading DEF Table!Next, Table!Ask
<1>2. ASSUME NEW w \in Writer, pc[w] # "idle", \A v \in Writer \ {w} : pc'[v] = pc[v],
             UNCHANGED <<name, doc, by, expected>>
      PROVE  Table!Next
  BY <1>2, WantedSteps, SameGot, SameReading DEF Table!Next, Table!GiveUp
<1>3. ASSUME NEW w \in Writer, CheckBlob(w) PROVE Table!Next
  <2>1. /\ pc[w] # "idle" /\ \A v \in Writer \ {w} : pc'[v] = pc[v]
        /\ UNCHANGED <<name, doc, by, expected>>
    BY <1>3, CheckBlobCases DEF FindsBlob, EndsCheck
  <2> QED
    BY <1>2, <2>1
<1>4. ASSUME NEW w \in Writer, OpenTemp(w) PROVE Table!Next
  <2>1. /\ pc[w] # "idle" /\ \A v \in Writer \ {w} : pc'[v] = pc[v]
        /\ UNCHANGED <<name, doc, by, expected>>
    BY <1>4, OpenTempCase DEF OpensFile
  <2> QED
    BY <1>2, <2>1
<1>5. ASSUME NEW w \in Writer, Write(w) \/ WriteFails(w) PROVE Table!Next
  BY <1>2, <1>5 DEF Write, WriteFails, Goto, requestVars, readerVars, history
<1>6. ASSUME NEW w \in Writer, Rename(w) PROVE Table!Next
  <2>1. CASE Installs(w, name[w])
    BY <2>1, InstallsMaps DEF Table!Next, Table!Ref, Ref
  <2>2. CASE FindsNoFile(w, name[w])
    BY <1>2, <2>2 DEF FindsNoFile
  <2> QED
    BY <1>6, <2>1, <2>2, RenameCases
<1>7. ASSUME NEW n \in Ref, DeleteManifest(n) PROVE Table!Next
  <2>1. /\ \A k \in Ref : by'[k] = IF k = n THEN None ELSE by[k]
        /\ UNCHANGED <<pc, name, doc, expected>>
    BY <1>7 DEF DeleteManifest, requestVars, readerVars
  <2>2. Got' = [Got EXCEPT ![n] = None]
    BY <2>1, GotChanges
  <2>3. Wanted' = Wanted
    BY <2>1 DEF Wanted
  <2> QED
    BY <2>1, <2>2, <2>3, SameReading DEF Table!Next, Table!Remove, Table!Ref, Ref
<1>8. ASSUME UNCHANGED <<pc, name, doc, by>> PROVE Wanted' = Wanted /\ Got' = Got
  BY <1>8, SameGot DEF Wanted
<1>9. ASSUME NEW r \in Reader, NEW n \in Ref, OpenManifest(r, n) PROVE Table!Next
  <2>1. /\ \A k \in Reader : expected'[k] = IF k = r THEN by[n] ELSE expected[k]
        /\ UNCHANGED <<pc, name, doc, by>>
    BY <1>9 DEF OpenManifest, requestVars, history
  <2>2. Reading' = [Reading EXCEPT ![r] = Got[n]]
    <3>1. Got[n] = IF by[n] # None THEN Marshal[by[n]] ELSE None
      BY GotIs
    <3> QED
      BY <2>1, <3>1, ReadingChanges
  <2> QED
    BY <1>8, <2>1, <2>2 DEF Table!Next, Table!Look, Table!Ref, Ref
<1>10. ASSUME NEW r \in Reader, ReadManifest(r) PROVE Table!Next
  <2>1. expected' = [expected EXCEPT ![r] = None] /\ UNCHANGED <<pc, name, doc, by>>
    BY <1>10 DEF ReadManifest, requestVars, history
  <2>2. Reading' = [Reading EXCEPT ![r] = None]
    <3>1. expected'[r] = None /\ \A k \in Reader : k # r => expected'[k] = expected[k]
      BY <2>1
    <3> QED
      BY <3>1, ReadingChanges
  <2> QED
    BY <1>8, <2>1, <2>2 DEF Table!Next, Table!Answer
<1>11. CASE Crash
  <2>1. /\ pc' = [w \in Writer |-> "idle"] /\ expected' = [r \in Reader |-> None]
        /\ UNCHANGED by
    BY <1>11 DEF Crash
  <2>2. Wanted' = {}
    BY <2>1, WantedIs
  <2>3. Reading' = [r \in Reader |-> None]
    BY <2>1, GotIs
  <2> QED
    BY <2>1, <2>2, <2>3, SameGot DEF Table!Next, Table!Restart
<1>12. ASSUME UNCHANGED <<pc, name, doc, by, expected>> PROVE UNCHANGED Table!cells
  BY <1>8, <1>12, SameReading DEF Table!cells
<1>13. CASE \E b \in Blob : BlobArrives(b) \/ BlobDeleted(b)
  BY <1>12, <1>13 DEF BlobArrives, BlobDeleted, requestVars, readerVars, history
<1>14. CASE UNCHANGED vars
  BY <1>12, <1>14 DEF vars, requestVars, readerVars, history
<1> QED
  BY <1>1, <1>3, <1>4, <1>5, <1>6, <1>7, <1>9, <1>10, <1>11, <1>13, <1>14 DEF Next

(* Puts, gets, deletes, failed writes and crashes are steps of a table of  *)
(* references (PutManifest, GetManifest, DeleteManifest).                  *)
THEOREM TableRefinement == Spec => ImplementsManifestTable
<1>1. Init => Table!Init
  BY DEF Init, Table!Init, Table!Ref, Ref, Got, Reading, Wanted
<1>2. ReadInv /\ ReadInv' /\ [Next]_vars => [Table!Next]_(Table!cells)
  BY TableStep
<1> QED
  BY <1>1, <1>2, ReadInvariance, PTL DEF Spec, ImplementsManifestTable, Table!Spec

(* While no two puts of a reference overlap, the table is what GETs open:  *)
(* every file is whole, and is what a put of its reference asked for.      *)
Opened == [n \in Ref |-> IF final[n] # None THEN content[final[n]] ELSE None]

SerialNext == Next /\ \A w \in Writer : alone'[w]

SerialInv ==
  /\ ReadInv
  /\ \A w \in Writer : alone[w]
  /\ \A n \in Ref : final[n] # None => by[n] # None

LEMMA SerialInvNext ==
  ASSUME SerialInv, [SerialNext]_vars
  PROVE  SerialInv'
<1>1. ReadInv' /\ \A w \in Writer : alone'[w]
  BY ReadInvNext DEF SerialInv, SerialNext, vars, history
<1> TypeInv /\ TypeOK
  BY DEF SerialInv, ReadInv, SoloInv, TypeInv
<1>2. ASSUME NEW w \in Writer, Rename(w)
      PROVE  \A n \in Ref : final'[n] # None => by'[n] # None
  <2>1. alone[w] /\ doc[w] # None
    BY NoneAssumption DEF SerialInv, TypeOK
  <2> QED
    BY <1>2, <2>1, RenameCases DEF Installs, FindsNoFile, SerialInv, TypeOK
<1>3. ASSUME NEW n \in Ref, DeleteManifest(n)
      PROVE  \A k \in Ref : final'[k] # None => by'[k] # None
  BY <1>3 DEF DeleteManifest, SerialInv, TypeOK
<1>4. ASSUME UNCHANGED <<final, by>>
      PROVE  \A n \in Ref : final'[n] # None => by'[n] # None
  BY <1>4 DEF SerialInv
<1>5. \A n \in Ref : final'[n] # None => by'[n] # None
  BY <1>2, <1>3, <1>4
     DEF SerialNext, Next, vars, dirVars, history, BeginPut, CheckBlob, OpenTemp, Write,
         WriteFails, OpenManifest, ReadManifest, BlobArrives, BlobDeleted, Crash
<1> QED
  BY <1>1, <1>5 DEF SerialInv

(* Without overlapping puts a reference holds a whole manifest, if any.    *)
THEOREM SerialServes == SerialSpec => [](Opened = Got)
<1>1. Init => SerialInv
  BY ReadInvInit DEF Init, SerialInv
<1>2. SerialInv /\ [SerialNext]_vars => SerialInv'
  BY SerialInvNext
<1>3. SerialInv => Opened = Got
  BY DEF SerialInv, Opened, Got, ReadInv, SoloInv, InstalledIntact
<1>4. SerialSpec <=> Init /\ [][SerialNext]_vars
  BY DEF SerialSpec, SerialNext
<1> QED
  BY <1>1, <1>2, <1>3, <1>4, PTL

(* A put that clients send, or the put of a tag's manifest by its digest.  *)
AskedFor == Request \cup {<<DigestOf[q[2]], q[2]>> : q \in {p \in Request : p[1] \in Tag}}

OnlyAskedFor ==
  /\ Wanted \subseteq AskedFor
  /\ \A n \in Ref : Got[n] # None =>
       \E m \in Manifest : <<n, m>> \in AskedFor /\ Got[n] = Marshal[m]
  /\ \A r \in Reader : Reading[r] # None =>
       \E n \in Ref, m \in Manifest : <<n, m>> \in AskedFor /\ Reading[r] = Marshal[m]

(* What can be got under a reference, and what a GET that found it answers *)
(* with, was sent for that reference, or with a tag when it is a digest.   *)
THEOREM OnlyAskedForInvariant == Spec => []OnlyAskedFor
<1>1. Init => OnlyAskedFor
  BY DEF Init, OnlyAskedFor, Wanted, Got, Reading
<1>2. OnlyAskedFor /\ [Table!Next]_(Table!cells) => OnlyAskedFor'
  <2> SUFFICES ASSUME OnlyAskedFor, [Table!Next]_(Table!cells) PROVE OnlyAskedFor'
    OBVIOUS
  <2> USE DEF OnlyAskedFor
  <2>0. /\ Got = [n \in Ref |-> Got[n]] /\ Reading = [r \in Reader |-> Reading[r]]
        /\ DOMAIN Got = Ref /\ DOMAIN Reading = Reader
    BY DEF Got, Reading
  <2>1. ASSUME NEW q \in Request, Table!Ask(q[1], q[2]) PROVE OnlyAskedFor'
    <3>1. <<q[1], q[2]>> \in AskedFor
      BY RequestAssumption DEF AskedFor
    <3> QED
      BY <2>1, <3>1 DEF Table!Ask, AskedFor
  <2>2. ASSUME NEW n \in Ref, NEW m \in Manifest, Table!Install(n, m) PROVE OnlyAskedFor'
    <3>0. <<n, m>> \in AskedFor
      BY <2>2 DEF Table!Install
    <3>1. n \in Tag => <<DigestOf[m], m>> \in AskedFor
      <4> SUFFICES ASSUME n \in Tag PROVE <<n, m>> \in Request
        BY DEF AskedFor
      <4>1. \A q \in Request : DigestOf[q[2]] # n
        BY RequestAssumption, DigestAssumption, ReferenceAssumption
      <4> QED
        BY <3>0, <4>1 DEF AskedFor
    <3>2. Wanted' \subseteq AskedFor' /\ UNCHANGED Reading
      BY <2>2, <3>0, <3>1 DEF Table!Install, AskedFor
    <3>3. PICK v \in {Marshal[m], None} : Got' = [Got EXCEPT ![n] = v]
      BY <2>2 DEF Table!Install
    <3>4. \A k \in Ref : Got'[k] = IF k = n THEN v ELSE Got[k]
      BY <2>0, <3>3
    <3> HIDE DEF AskedFor
    <3>5. \A k \in Ref : Got'[k] # None =>
            \E j \in Manifest : <<k, j>> \in AskedFor /\ Got'[k] = Marshal[j]
      BY <3>0, <3>4
    <3>6. AskedFor' = AskedFor
      BY DEF AskedFor
    <3> QED
      BY <3>2, <3>5, <3>6
  <2>3. ASSUME NEW n \in Ref, Table!Remove(n) PROVE OnlyAskedFor'
    <3>1. \A k \in Ref : Got'[k] = IF k = n THEN None ELSE Got[k]
      BY <2>0, <2>3 DEF Table!Remove
    <3>2. Wanted' = Wanted /\ Reading' = Reading /\ AskedFor' = AskedFor
      BY <2>3 DEF Table!Remove, AskedFor
    <3> HIDE DEF AskedFor
    <3>3. \A k \in Ref : Got'[k] # None => Got'[k] = Got[k]
      BY <3>1
    <3> QED
      BY <3>2, <3>3
  <2>4. ASSUME NEW r \in Reader, NEW n \in Ref, Table!Look(r, n) PROVE OnlyAskedFor'
    <3>1. \A k \in Reader : Reading'[k] = IF k = r THEN Got[n] ELSE Reading[k]
      BY <2>0, <2>4 DEF Table!Look
    <3>2. ASSUME NEW k \in Reader, Reading'[k] # None
          PROVE  \E j \in Ref, m \in Manifest : <<j, m>> \in AskedFor /\ Reading'[k] = Marshal[m]
      <4> HIDE DEF OnlyAskedFor, AskedFor
      <4>1. CASE k = r
        <5>1. Reading'[k] = Got[n]
          BY <3>1, <4>1
        <5>2. PICK m \in Manifest : <<n, m>> \in AskedFor /\ Got[n] = Marshal[m]
          BY <3>2, <5>1 DEF OnlyAskedFor
        <5> QED
          BY <5>1, <5>2
      <4>2. CASE k # r
        <5>1. Reading'[k] = Reading[k]
          BY <3>1, <4>2
        <5>2. PICK j \in Ref, m \in Manifest : <<j, m>> \in AskedFor /\ Reading[k] = Marshal[m]
          BY <3>2, <5>1 DEF OnlyAskedFor
        <5> QED
          BY <5>1, <5>2
      <4> QED
        BY <4>1, <4>2
    <3>3. Wanted' = Wanted /\ Got' = Got /\ AskedFor' = AskedFor
      BY <2>4 DEF Table!Look, AskedFor
    <3> HIDE DEF AskedFor
    <3> QED
      BY <3>2, <3>3
  <2>5. ASSUME NEW r \in Reader, Table!Answer(r) PROVE OnlyAskedFor'
    <3>1. \A k \in Reader : Reading'[k] = IF k = r THEN None ELSE Reading[k]
      BY <2>0, <2>5 DEF Table!Answer
    <3>2. Wanted' = Wanted /\ Got' = Got /\ AskedFor' = AskedFor
      BY <2>5 DEF Table!Answer, AskedFor
    <3> HIDE DEF AskedFor
    <3>3. \A k \in Reader : Reading'[k] # None => Reading'[k] = Reading[k]
      BY <3>1
    <3> QED
      BY <3>2, <3>3
  <2>6. CASE Table!GiveUp \/ Table!Restart \/ UNCHANGED Table!cells
    BY <2>6 DEF Table!GiveUp, Table!Restart, Table!cells, AskedFor
  <2> QED
    BY <2>1, <2>2, <2>3, <2>4, <2>5, <2>6 DEF Table!Next, Table!Ref, Ref
<1> QED
  BY <1>1, <1>2, TableRefinement, PTL DEF Spec, ImplementsManifestTable, Table!Spec
=============================================================================
