-------------------------- MODULE MCManifestStore --------------------------
(* Small instances of ManifestStore. *)
EXTENDS ManifestStore, TLC

CONSTANTS t1, d1, d2, m1, n1, m2, b1, w1, w2, r1, i1, i2, i3, i4, i5, i6, i7

MCTag == {t1}
MCDigest == {d1, d2}
(* m1 and n1 are of one body, sent with different media types. *)
MCManifest == {m1, n1, m2}
MCDigestOf == m1 :> d1 @@ n1 :> d1 @@ m2 :> d2
MCByte == {1, 2}
MCMarshal == m1 :> <<1>> @@ n1 :> <<2, 1>> @@ m2 :> <<2>>
MCBlob == {b1}
MCLayers == m1 :> <<b1>> @@ n1 :> <<b1>> @@ m2 :> <<>>
(* A put by tag, which goes on to the digest's name, a put of the same     *)
(* body under its digest, and a put of another body there.                 *)
MCRequest == {<<t1, m1>>, <<d1, n1>>, <<d1, m2>>}
TwoWriters == {w1, w2}
OneReader == {r1}
Files == {i1, i2, i3, i4, i5, i6, i7}

(* What no later step and no property reads: the arguments of a request    *)
(* that is over, what an unused file still holds, what a file holds of     *)
(* which nothing is claimed until another takes its place, and which file  *)
(* it is that has a name: only who shares it, and its contents.            *)
While(f, labels) == [w \in Writer |-> IF pc[w] \in labels THEN <<f[w]>> ELSE <<>>]
Seen(i) ==
  IF i = None THEN <<>>
  ELSE <<content[i], {n \in Ref : final[n] = i}, {n \in Ref : temp[n] = i},
         {w \in Writer : fd[w] = i}, {r \in Reader : rfd[r] = i /\ expected[r] # None}>>
Installed(n) ==
  IF by[n] = None /\ n \in Tag \cup spoilt THEN final[n] = None ELSE Seen(final[n])
ActiveView ==
  <<[n \in Ref |-> <<Installed(n), Seen(temp[n])>>], [w \in Writer |-> Seen(fd[w])],
    [r \in Reader |-> IF expected[r] = None THEN rfd[r] = None ELSE Seen(rfd[r])], blobs, pc,
    While(doc, WriterState \ {"idle"}), While(checked, {"check"}),
    While(name, WriterState \ {"idle"}), expected, While(alone, {"write", "rename"}),
    by, spoilt, {w \in robbed : pc[w] # "idle"}, {n \in bereft : by[n] # None}>>

Symmetry == Permutations(Writer)
=============================================================================
