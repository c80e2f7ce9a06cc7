-------------------------- MODULE MCNodeLifecycle --------------------------
(* A small instance of NodeLifecycle: files with at most one value that is *)
(* not sound, P2P on or off, with and without a name.                      *)
EXTENDS NodeLifecycle, TLC

CONSTANTS n1, n2, host, hostport, u1, u2, r1, r2, c1

MCId == {n1, n2, host, hostport, u1, u2}
Other == [id |-> n2, host |-> "other"]
Nameless == [id |-> NoId, host |-> "own"]
Garbled == [id |-> n1, host |-> "other"]
MCAddress == {Other, Nameless, Garbled}
MCHostPort == "own" :> hostport @@ "other" :> hostport
MCMalformed == {Garbled}
MCUuid == <<u1, u2>>

Sound == [Default EXCEPT !.peers = {Nameless, Garbled}]
Unsound ==
  {Sound, [Sound EXCEPT !.workers = 0], [Sound EXCEPT !.workers = -1],
   [Sound EXCEPT !.interval = 0], [Sound EXCEPT !.method = "promised"],
   [Sound EXCEPT !.method = "unknown"], [Sound EXCEPT !.rest = FALSE],
   [Sound EXCEPT !.base = FALSE]}

MCFile ==
  {[read |-> "parsed", config |-> [c EXCEPT !.p2p = on, !.id = i]] :
     c \in Unsound, on \in BOOLEAN, i \in {NoId, n1}}
  \cup {[read |-> r, config |-> Default] : r \in {"missing", "broken"}}

MCEnv ==
  [p2p : {"unset", "true", "other"}, id : {NoId, n2}, peers : {{}, {Other}},
   method : {"unset", "static"}]

TwoRequests == {r1, r2}
OneCall == {c1}
=============================================================================
