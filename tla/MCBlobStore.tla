----------------------------- MODULE MCBlobStore -----------------------------
(* Small instances of BlobStore. *)
EXTENDS BlobStore, FiniteSets, TLC

CONSTANTS w1, w2, r1, i1, i2, i3, i4, i5

MCByte == {0, 1}
OneDigest == {<<1, 0>>}
TwoWriters == {w1, w2}
OneReader == {r1}
NoReader == {}
FiveFiles == {i1, i2, i3, i4, i5}
FourFiles == {i1, i2, i3, i4}

(* What no later step and no property reads: what an unused file still     *)
(* holds, which file it is that has a name (only its contents and who      *)
(* shares it), and a reader that is not trusted or is over.                *)
Seen(i) ==
  IF i = None THEN <<>>
  ELSE <<data[i], {d \in Digest : final[d] = i}, {d \in Digest : temp[d] = i},
         {w \in Writer : fd[w] = i}, {r \in Reader : rfd[r] = i /\ trusted[r]}>>
Reading(r) ==
  IF rpc[r] = "idle" THEN <<>>
  ELSE IF rpc[r] = "open" \/ ~trusted[r] THEN <<rpc[r], asked[r]>>
  ELSE <<rpc[r], asked[r], Seen(rfd[r]), rsize[r], sent[r], trusted[r]>>
LiveView ==
  <<[d \in Digest |-> <<Seen(final[d]), Seen(temp[d])>>],
    [w \in Writer |-> <<wpc[w], IF wpc[w] = "idle" THEN <<>> ELSE want[w], Seen(fd[w]),
                        received[w]>>],
    [r \in Reader |-> Reading(r)], putHistory>>

Symmetry == Permutations(Writer)
=============================================================================
