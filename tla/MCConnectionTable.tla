------------------------ MODULE MCConnectionTable ------------------------
(* A small instance of ConnectionTable. *)
EXTENDS ConnectionTable, TLC

CONSTANTS p1, p2, c1, c2, x1, x2, x3, x4

TwoPeers == {p1, p2}
TwoCallers == {c1, c2}
FourConns == {x1, x2, x3, x4}

(* What no later step and no property of the passing run reads: which of   *)
(* two states a connection is in that getConnection treats alike, anything *)
(* but the number of connections that are lost, and the peer of a caller   *)
(* that calls none.                                                        *)
Unheld(x) ==
  (\A p \in Peer : table[p] # x) /\ (\A c \in Caller : conn[c] # x) /\ found # x
Lost(x) == state[x] \in Open /\ Unheld(x)
Class(x) ==
  IF Unheld(x) THEN IF Lost(x) THEN <<"lost", x \in raced>> ELSE <<"free">>
  ELSE <<IF state[x] \in Usable THEN "usable" ELSE IF state[x] \in Open THEN "open" ELSE "closed",
         x \in raced>>
ActiveView ==
  <<table, [x \in Conn |-> Class(x)], pc, conn, stopVars,
    [c \in Caller |-> IF pc[c] = "idle" THEN <<>> ELSE <<to[c], solo[c]>>]>>

Symmetry == Permutations(Peer) \cup Permutations(Caller) \cup Permutations(Conn)
=============================================================================
