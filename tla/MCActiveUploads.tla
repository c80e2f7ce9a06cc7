--------------------------- MODULE MCActiveUploads ---------------------------
(* A small instance of ActiveUploads. *)
EXTENDS ActiveUploads, TLC

CONSTANTS s1, s2, s3, r1, r2, r3

ThreeSessions == {s1, s2, s3}
ThreeRequests == {r1, r2, r3}

Symmetry == Permutations(Session) \cup Permutations(Request)

(* The session of a request that is over is not read again. *)
ActiveView ==
  <<live, used, gauge, pc, vain, [r \in Request |-> IF pc[r] = "idle" THEN <<>> ELSE <<sid[r]>>]>>
=============================================================================
