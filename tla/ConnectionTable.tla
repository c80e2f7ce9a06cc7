-------------------------- MODULE ConnectionTable --------------------------
(***************************************************************************)
(* The client connections of one node's gRPC transport: a sync.Map from    *)
(* peers to connections, which every call to a peer reads and may replace, *)
(* and which Stop empties.  No lock spans two operations on the map.       *)
(*                                                                         *)
(* A connection changes its state by itself.  Close ends it, with every    *)
(* call on it, and nothing else does: one that nobody can find any more    *)
(* stays open.  That Stop also ends the server, which has connections of   *)
(* its own, is left out, and so is a second Start.                         *)
(***************************************************************************)
CONSTANTS
  Peer,     \* addresses of peers
  Caller,   \* goroutines that call a peer: pings, replications, searches
  Conn,     \* connections (bound)
  None

ASSUME NoneAssumption == None \notin Conn \cup Peer

VARIABLES
  table,    \* [Peer -> Conn or None]: g.connections
  state,    \* [Conn -> ConnState]
  pc,       \* [Caller -> CallerState]
  to,       \* [Caller -> Peer]: the peer it calls
  conn,     \* [Caller -> Conn or None]: the connection it found or dialled
  stop,     \* where Stop is
  todo,     \* the peers its Range has not come to
  key,      \* the peer its Range is at, or None
  found     \* the connection that Range found there

(* History, for the properties. *)
VARIABLES
  solo,     \* [Caller -> BOOLEAN]: nobody else has looked for the peer's connection meanwhile
  raced     \* connections stored by calls that were not solo

callVars == <<pc, to, conn>>
stopVars == <<stop, todo, key, found>>
history == <<solo, raced>>
vars == <<table, state, callVars, stopVars, history>>

Usable == {"idle", "ready"}
Open == Usable \cup {"connecting", "failing"}
ConnState == Open \cup {"unused", "shutdown"}
CallerState == {"idle", "check", "delete", "close", "dial", "store", "call"}

TypeOK ==
  /\ table \in [Peer -> Conn \cup {None}]
  /\ state \in [Conn -> ConnState]
  /\ pc \in [Caller -> CallerState]
  /\ to \in [Caller -> Peer]
  /\ conn \in [Caller -> Conn \cup {None}]
  /\ \A c \in Caller : conn[c] # None <=> pc[c] \notin {"idle", "dial"}
  /\ stop \in {"no", "range", "close", "delete", "stopped"}
  /\ todo \in SUBSET Peer
  /\ key \in Peer \cup {None} /\ (key # None <=> stop \in {"close", "delete"})
  /\ found \in Conn \cup {None} /\ (found # None <=> stop = "close")
  /\ solo \in [Caller -> BOOLEAN]
  /\ raced \in SUBSET Conn

(* NewGRPCTransport and Start. *)
Init ==
  /\ table = [p \in Peer |-> None]
  /\ state = [x \in Conn |-> "unused"]
  /\ pc = [c \in Caller |-> "idle"]
  /\ to \in [Caller -> Peer]
  /\ conn = [c \in Caller |-> None]
  /\ stop = "no" /\ todo = {} /\ key = None /\ found = None
  /\ solo = [c \in Caller |-> FALSE]
  /\ raced = {}

(* c is inside getConnection for p. *)
Seeking(c, p) == pc[c] \notin {"idle", "call"} /\ to[c] = p

(* A connection that does not exist, or is closed and forgotten. *)
Free(x) ==
  /\ state[x] \notin Open
  /\ \A p \in Peer : table[p] # x
  /\ \A c \in Caller : conn[c] # x
  /\ found # x

Goto(c, label) == pc' = [pc EXCEPT ![c] = label]
------------------------------------------------------------------------------
(* Slips for the properties below to catch; no action uses them. *)

(* A bad connection is taken out of the map and not closed. *)
DeleteOnly(c) ==
  /\ pc[c] = "delete"
  /\ Goto(c, "dial")
  /\ table' = [table EXCEPT ![to[c]] = None]
  /\ conn' = [conn EXCEPT ![c] = None]
  /\ UNCHANGED <<state, to, stopVars, history>>

(* A bad connection is closed, and returned. *)
CloseAndReturn(c) ==
  /\ pc[c] = "close"
  /\ Goto(c, "call")
  /\ state' = [state EXCEPT ![conn[c]] = "shutdown"]
  /\ UNCHANGED <<table, to, conn, stopVars, history>>

(* Stop deletes the entry first, and looks for the connection then. *)
StopFindsNothing(p) ==
  /\ stop = "range" /\ p \in todo
  /\ todo' = todo \ {p}
  /\ table' = [table EXCEPT ![p] = None]
  /\ UNCHANGED <<state, callVars, stop, key, found, history>>

(* The connection is kept for the next call. *)
CallEndsKeeping(c) ==
  /\ pc[c] = "call"
  /\ Goto(c, "idle")
  /\ UNCHANGED <<table, state, to, conn, stopVars, history>>
------------------------------------------------------------------------------
(* getConnection. *)

Load(c, p) ==
  LET others == {v \in Caller \ {c} : Seeking(v, p)} IN
  /\ pc[c] = "idle"
  /\ Goto(c, IF table[p] = None THEN "dial" ELSE "check")
  /\ to' = [to EXCEPT ![c] = p]
  /\ conn' = [conn EXCEPT ![c] = table[p]]
  /\ solo' = [v \in Caller |-> IF v = c THEN others = {} /\ stop = "no"
                               ELSE solo[v] /\ to[v] # p]
  /\ UNCHANGED <<table, state, stopVars, raced>>

(* "Check if we already have a connection": ready or idle, it is returned. *)
Check(c) ==
  /\ pc[c] = "check"
  /\ Goto(c, IF state[conn[c]] \in Usable THEN "call" ELSE "delete")
  /\ UNCHANGED <<table, state, to, conn, stopVars, history>>

(* Otherwise whatever the map has for the peer by now is removed, ... *)
Delete(c) ==
  /\ pc[c] = "delete"
  /\ Goto(c, "close")
  /\ table' = [table EXCEPT ![to[c]] = None]
  /\ UNCHANGED <<state, to, conn, stopVars, history>>

(* ... and what was found is closed. *)
Close(c) ==
  /\ pc[c] = "close"
  /\ Goto(c, "dial")
  /\ state' = [state EXCEPT ![conn[c]] = "shutdown"]
  /\ conn' = [conn EXCEPT ![c] = None]
  /\ UNCHANGED <<table, to, stopVars, history>>

(* createConnection: DialContext does not wait for the connection. *)
Dial(c, x) ==
  /\ pc[c] = "dial"
  /\ Free(x)
  /\ Goto(c, "store")
  /\ conn' = [conn EXCEPT ![c] = x]
  /\ state' = [state EXCEPT ![x] = "idle"]
  /\ raced' = raced \ {x}
  /\ UNCHANGED <<table, to, stopVars, solo>>

DialFails(c) ==
  /\ pc[c] = "dial"
  /\ Goto(c, "idle")
  /\ UNCHANGED <<table, state, to, conn, stopVars, history>>

(* Whatever another call has stored is replaced. *)
Store(c) ==
  /\ pc[c] = "store"
  /\ Goto(c, "call")
  /\ table' = [table EXCEPT ![to[c]] = conn[c]]
  /\ raced' = IF solo[c] THEN raced ELSE raced \cup {conn[c]}
  /\ UNCHANGED <<state, to, conn, stopVars, solo>>

(* The call is answered, fails, or times out. *)
CallEnds(c) ==
  /\ pc[c] = "call"
  /\ Goto(c, "idle")
  /\ conn' = [conn EXCEPT ![c] = None]
  /\ UNCHANGED <<table, state, to, stopVars, history>>

(* A connection connects, fails, recovers, or rests, in any order. *)
Changes(x) ==
  /\ state[x] \in Open
  /\ \E s \in Open \ {state[x]} : state' = [state EXCEPT ![x] = s]
  /\ UNCHANGED <<table, callVars, stopVars, history>>
------------------------------------------------------------------------------
(* Stop: Range over the map, then the server. *)

StopBegins ==
  /\ stop = "no"
  /\ stop' = "range"
  /\ todo' = Peer
  /\ solo' = [c \in Caller |-> FALSE]
  /\ UNCHANGED <<table, state, callVars, key, found, raced>>

StopFinds(p) ==
  /\ stop = "range" /\ p \in todo
  /\ todo' = todo \ {p}
  /\ \/ /\ table[p] = None
        /\ UNCHANGED <<stop, key, found>>
     \/ /\ table[p] # None
        /\ stop' = "close"
        /\ key' = p
        /\ found' = table[p]
  /\ UNCHANGED <<table, state, callVars, history>>

StopCloses ==
  /\ stop = "close"
  /\ stop' = "delete"
  /\ state' = [state EXCEPT ![found] = "shutdown"]
  /\ found' = None
  /\ UNCHANGED <<table, callVars, todo, key, history>>

StopDeletes ==
  /\ stop = "delete"
  /\ stop' = "range"
  /\ table' = [table EXCEPT ![key] = None]
  /\ key' = None
  /\ UNCHANGED <<state, callVars, todo, found, history>>

StopReturns ==
  /\ stop = "range" /\ todo = {}
  /\ stop' = "stopped"
  /\ UNCHANGED <<table, state, callVars, todo, key, found, history>>

Next ==
  \/ \E c \in Caller, p \in Peer : Load(c, p)
  \/ \E c \in Caller : Check(c) \/ Delete(c) \/ Close(c) \/ DialFails(c) \/ Store(c) \/ CallEnds(c)
  \/ \E c \in Caller, x \in Conn : Dial(c, x)
  \/ \E x \in Conn : Changes(x)
  \/ \E p \in Peer : StopFinds(p)
  \/ StopBegins \/ StopCloses \/ StopDeletes \/ StopReturns

Spec == Init /\ [][Next]_vars
------------------------------------------------------------------------------
(* x is on its way into the map, or out of it to be closed. *)
InHand(x) ==
  \/ \E c \in Caller : conn[c] = x /\ pc[c] \in {"store", "close"}
  \/ found = x

(* A connection that was dialled while nobody else looked for one to the   *)
(* peer, and Stop was not called, is never lost: while it is open the map  *)
(* has it, or somebody who is about to close it (getConnection,            *)
(* grpc.go:405-424).                                                       *)
SoloKept ==
  \A x \in Conn : state[x] \in Open /\ x \notin raced =>
     InHand(x) \/ \E p \in Peer : table[p] = x

(* Once Stop has returned such a connection is closed, unless a call took  *)
(* it out of the map before and is about to close it (grpc.go:111-118).    *)
StopClosesSolo ==
  stop = "stopped" =>
     \A x \in Conn : state[x] \in Open /\ x \notin raced => InHand(x)

(* "Stop stops the gRPC server and closes all connections" (grpc.go:102):  *)
(* none is open when it has returned and no call is under way.  Refuted: a *)
(* second Store drops the connection of the first without closing it, and  *)
(* a call may store its connection behind Stop.                            *)
StopClosesAll ==
  stop = "stopped" /\ (\A c \in Caller : pc[c] = "idle") =>
     \A x \in Conn : state[x] \notin Open

(* The connection a call was given is open and the one that the next call  *)
(* will find, as long as nobody else looks for one and Stop is not called. *)
SoloCall ==
  \A c \in Caller : pc[c] = "call" /\ solo[c] =>
     state[conn[c]] \in Open /\ table[to[c]] = conn[c]
=============================================================================
