---------------------------- MODULE ContentStore ----------------------------
(***************************************************************************)
(* What a content-addressed store promises its callers: the name of a blob *)
(* is its digest, a blob appears at once and whole, and whoever looks up a *)
(* digest finds either nothing or exactly the bytes the digest stands for. *)
(***************************************************************************)
CONSTANTS
  Digest,   \* the digests; a digest is identified with the bytes it is the hash of
  Absent    \* what an empty slot of the store holds

VARIABLE blobs   \* what the store returns for each digest

Init == blobs = [d \in Digest |-> Absent]

(* A whole blob becomes visible, or is replaced by an equal one. *)
Put(d) == blobs' = [blobs EXCEPT ![d] = d]

(* A blob is deleted. *)
Remove(d) == blobs' = [blobs EXCEPT ![d] = Absent]

Next == \E d \in Digest : Put(d) \/ Remove(d)

Spec == Init /\ [][Next]_blobs
=============================================================================
