-------------------------- MODULE MCUploadSession --------------------------
(* Small instances of UploadSession. *)
EXTENDS UploadSession, TLC

CONSTANTS s1, q1, q2, q3

MCByte == {0, 1}
MCDigest == {<<1, 0>>, <<1>>}
OneSession == {s1}
TwoRequests == {q1, q2}
ThreeRequests == {q1, q2, q3}

(* What no later step and no property reads: an argument behind the steps  *)
(* that use it, and everything about a session that is over.               *)
While(f, labels) == [r \in Request |-> IF pc[r] \in labels THEN <<f[r]>> ELSE <<>>]
Over(s) == s \in used \ live /\ ~Busy(s)
Known(f) == [s \in Session |-> IF Over(s) THEN <<>> ELSE <<f[s]>>]
Writing == {"open", "copy", "reply"}
Closing(f) == [r \in Request |-> IF pc[r] # "idle" /\ method[r] = "PUT" THEN <<f[r]>> ELSE <<>>]
ActiveView ==
  <<tableVars, Known(data), Known(offset), blobs, pc,
    While(sid, RequestState \ {"idle"}), While(method, Writing), While(at, Writing),
    While(body, Writing), While(got, {"read"}), Closing(digest), While(range, {"open"}),
    Known(covered),
    [s \in Session |-> IF InOrder(s) /\ ~Over(s) THEN stored[s] ELSE <<>>],
    {s \in overlapped : ~Over(s)}, {s \in misplaced : ~Over(s)}, {s \in broken : ~Over(s)}>>

Symmetry == Permutations(Request) \cup Permutations(Session)
=============================================================================
