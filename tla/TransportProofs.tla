---------------------------- MODULE TransportProofs ----------------------------
(***************************************************************************)
(* Proofs about the client side of the gRPC transport: ConnectionTable,    *)
(* for any peers, callers and connections, and BlobFetch, for any peers,   *)
(* any size of the blob and any window.                                    *)
(***************************************************************************)
EXTENDS ConnectionTable, BlobFetch, TLAPS

(* The actions by kind. *)
CallerStep(c) ==
  Check(c) \/ Delete(c) \/ Close(c) \/ DialFails(c) \/ Store(c) \/ CallEnds(c)

LEMMA NextByKind ==
  ASSUME [Next]_vars
  PROVE  \/ \E c \in Caller, p \in Peer : Load(c, p)
         \/ \E c \in Caller : CallerStep(c)
         \/ \E c \in Caller, x \in Conn : Dial(c, x)
         \/ \E x \in Conn : Changes(x)
         \/ \E p \in Peer : StopFinds(p)
         \/ StopBegins \/ StopCloses \/ StopDeletes \/ StopReturns
         \/ UNCHANGED vars
BY DEF Next, CallerStep
------------------------------------------------------------------------------
LEMMA TypeStep ==
  ASSUME TypeOK, [Next]_vars
  PROVE  TypeOK'
<1> USE NoneAssumption DEF TypeOK, ConnState, Open, Usable, CallerState, callVars, stopVars, history
<1>1. ASSUME NEW c \in Caller, NEW p \in Peer, Load(c, p) PROVE TypeOK'
  BY <1>1 DEF Load, Goto
<1>2. ASSUME NEW c \in Caller, Check(c) PROVE TypeOK'
  BY <1>2 DEF Check, Goto
<1>3. ASSUME NEW c \in Caller, Delete(c) PROVE TypeOK'
  BY <1>3 DEF Delete, Goto
<1>4. ASSUME NEW c \in Caller, Close(c) PROVE TypeOK'
  BY <1>4 DEF Close, Goto
<1>5. ASSUME NEW c \in Caller, DialFails(c) PROVE TypeOK'
  BY <1>5 DEF DialFails, Goto
<1>6. ASSUME NEW c \in Caller, Store(c) PROVE TypeOK'
  BY <1>6 DEF Store, Goto
<1>7. ASSUME NEW c \in Caller, CallEnds(c) PROVE TypeOK'
  BY <1>7 DEF CallEnds, Goto
<1>8. ASSUME NEW c \in Caller, NEW x \in Conn, Dial(c, x) PROVE TypeOK'
  BY <1>8 DEF Dial, Goto
<1>9. ASSUME NEW x \in Conn, Changes(x) PROVE TypeOK'
  BY <1>9 DEF Changes
<1>10. ASSUME NEW p \in Peer, StopFinds(p) PROVE TypeOK'
  BY <1>10 DEF StopFinds
<1>11. CASE StopBegins \/ StopCloses \/ StopDeletes \/ StopReturns
  <2>1. CASE StopBegins
    BY <2>1 DEF StopBegins
  <2>2. CASE StopCloses
    BY <2>2 DEF StopCloses
  <2>3. CASE StopDeletes
    BY <2>3 DEF StopDeletes
  <2>4. CASE StopReturns
    BY <2>4 DEF StopReturns
  <2> QED
    BY <1>11, <2>1, <2>2, <2>3, <2>4
<1>12. CASE UNCHANGED vars
  BY <1>12 DEF vars
<1> QED
  BY <1>1, <1>2, <1>3, <1>4, <1>5, <1>6, <1>7, <1>8, <1>9, <1>10, <1>11, <1>12, NextByKind
     DEF CallerStep

(* The table and the callers keep their types; who has a connection in     *)
(* hand is said by where it is in getConnection (grpc.go:401-425).         *)
THEOREM TypeCorrect == Spec => []TypeOK
<1>1. Init => TypeOK
  BY NoneAssumption DEF Init, TypeOK, ConnState, Open, Usable, CallerState
<1> QED
  BY <1>1, TypeStep, PTL DEF Spec
------------------------------------------------------------------------------
(* The strengthening. *)

(* Whoever is solo has no rival, nor has Stop begun. *)
Alone ==
  \A c \in Caller : solo[c] =>
     stop = "no" /\ \A v \in Caller \ {c} : ~Seeking(v, to[c])

(* A connection is held for p: by the map, a caller, or Stop. *)
Holds(x, p) ==
  \/ table[p] = x
  \/ \E c \in Caller : conn[c] = x /\ to[c] = p
  \/ found = x /\ key = p

HeldForOne ==
  \A x \in Conn, p, q \in Peer : Holds(x, p) /\ Holds(x, q) => p = q

(* What a solo caller has in hand. *)
SoloHas ==
  \A c \in Caller : solo[c] =>
     /\ pc[c] \in {"check", "delete", "call"} => table[to[c]] = conn[c]
     /\ pc[c] \in {"store", "call"} => state[conn[c]] \in Open

(* Whoever looks for a connection while the map has one that is not raced  *)
(* has found that one.                                                     *)
FoundIt ==
  \A v \in Caller, p \in Peer :
     Seeking(v, p) /\ table[p] \in Conn \ raced =>
        pc[v] \in {"check", "delete"} /\ conn[v] = table[p]

(* Where Stop has been there is nothing that is not raced, and what it has *)
(* found it closes before it deletes the entry.                            *)
Behind ==
  \A p \in Peer : stop # "no" /\ p \notin todo /\ table[p] \in Conn \ raced =>
     /\ key = p
     /\ found = table[p] \/ (stop = "delete" /\ state[table[p]] \notin Open)

(* The entry Stop is at counts as done, and in the end all do.             *)
WhereStopIs == key \notin todo /\ (stop = "stopped" => todo = {})

Inv == TypeOK /\ Alone /\ HeldForOne /\ SoloHas /\ FoundIt /\ Behind /\ WhereStopIs /\ SoloKept
------------------------------------------------------------------------------
LEMMA AloneStep ==
  ASSUME TypeOK, Alone, [Next]_vars
  PROVE  Alone'
<1> USE DEF TypeOK, Alone, Seeking, stopVars, history
<1>1. ASSUME NEW c \in Caller, NEW p \in Peer, Load(c, p) PROVE Alone'
  BY <1>1 DEF Load, Goto
<1>2. ASSUME NEW c \in Caller, CallerStep(c) PROVE Alone'
  BY <1>2 DEF CallerStep, Check, Delete, Close, DialFails, Store, CallEnds, Goto
<1>3. ASSUME NEW c \in Caller, NEW x \in Conn, Dial(c, x) PROVE Alone'
  BY <1>3 DEF Dial, Goto
<1>4. CASE UNCHANGED <<pc, to, stop, solo>>
  BY <1>4
<1>5. CASE StopBegins \/ (\E p \in Peer : StopFinds(p)) \/ StopCloses \/ StopDeletes \/ StopReturns
  BY <1>5 DEF StopBegins, StopFinds, StopCloses, StopDeletes, StopReturns, callVars
<1> QED
  BY <1>1, <1>2, <1>3, <1>4, <1>5, NextByKind DEF Changes, vars, callVars

LEMMA HeldForOneStep ==
  ASSUME TypeOK, HeldForOne, [Next]_vars
  PROVE  HeldForOne'
<1> USE NoneAssumption DEF TypeOK, Holds
<1>1. ASSUME NEW c \in Caller, NEW z \in Conn, Dial(c, z) PROVE HeldForOne'
  <2> SUFFICES ASSUME NEW x \in Conn, NEW p \in Peer, NEW q \in Peer, Holds(x, p)', Holds(x, q)'
               PROVE  p = q
    BY DEF HeldForOne
  <2>1. CASE x = z
    (* z was free, and only c has it. *)
    BY <1>1, <2>1 DEF Dial, Free, stopVars
  <2>2. CASE x # z
    BY <1>1, <2>2 DEF Dial, stopVars, HeldForOne
  <2> QED
    BY <2>1, <2>2
<1>2. ASSUME \A x \in Conn, p \in Peer : Holds(x, p)' => Holds(x, p) PROVE HeldForOne'
  BY <1>2 DEF HeldForOne
(* No other step brings a connection to a peer it was not held for. *)
<1>3. ASSUME NEW c \in Caller, NEW p \in Peer, Load(c, p) PROVE HeldForOne'
  BY <1>2, <1>3 DEF Load, stopVars
<1>4. ASSUME NEW c \in Caller, CallerStep(c) PROVE HeldForOne'
  BY <1>2, <1>4 DEF CallerStep, Check, Delete, Close, DialFails, Store, CallEnds, stopVars
<1>5. ASSUME NEW p \in Peer, StopFinds(p) PROVE HeldForOne'
  BY <1>2, <1>5 DEF StopFinds, callVars
<1>6. CASE StopBegins \/ StopCloses \/ StopDeletes \/ StopReturns
  BY <1>2, <1>6 DEF StopBegins, StopCloses, StopDeletes, StopReturns, callVars
<1>7. CASE UNCHANGED <<table, callVars, stopVars>>
  BY <1>2, <1>7 DEF callVars, stopVars
<1> QED
  BY <1>1, <1>3, <1>4, <1>5, <1>6, <1>7, NextByKind DEF Changes, vars
------------------------------------------------------------------------------
LEMMA SoloHasStep ==
  ASSUME TypeOK, Alone, HeldForOne, SoloHas, [Next]_vars
  PROVE  SoloHas'
<1> USE DEF TypeOK, SoloHas
<1>1. ASSUME NEW c \in Caller, NEW p \in Peer, Load(c, p) PROVE SoloHas'
  BY <1>1 DEF Load, Goto
<1>2. ASSUME NEW c \in Caller, Check(c) \/ DialFails(c) \/ CallEnds(c) PROVE SoloHas'
  BY <1>2 DEF Check, DialFails, CallEnds, Goto, history, Open, Usable
(* The entry of a solo caller's peer is touched by nobody else. *)
<1>3. ASSUME NEW c \in Caller, Delete(c) \/ Store(c) PROVE SoloHas'
  BY <1>3 DEF Delete, Store, Goto, history, Alone, Seeking
<1>4. ASSUME NEW c \in Caller, Close(c) PROVE SoloHas'
  <2> SUFFICES ASSUME NEW v \in Caller, solo[v], v # c, pc[v] \in {"store", "call"}
               PROVE  conn[v] # conn[c]
    BY <1>4 DEF Close, Goto, history, Open, Usable
  <2>1. Seeking(c, to[c]) /\ conn[c] \in Conn
    BY <1>4 DEF Close, Seeking
  <2>2. to[v] # to[c]
    BY <2>1 DEF Alone
  <2> QED
    (* Otherwise the connection would be held for two peers. *)
    BY <2>1, <2>2 DEF HeldForOne, Holds
<1>5. ASSUME NEW c \in Caller, NEW x \in Conn, Dial(c, x) PROVE SoloHas'
  BY <1>5 DEF Dial, Goto, Open, Usable
<1>6. ASSUME NEW x \in Conn, Changes(x) PROVE SoloHas'
  BY <1>6 DEF Changes, callVars, history, Open, Usable
<1>7. CASE StopBegins \/ (\E p \in Peer : StopFinds(p)) \/ StopReturns
  BY <1>7 DEF StopBegins, StopFinds, StopReturns, callVars, history
(* Once Stop has begun nobody is solo. *)
<1>8. CASE StopCloses \/ StopDeletes
  BY <1>8 DEF StopCloses, StopDeletes, history, Alone
<1>9. CASE UNCHANGED vars
  BY <1>9 DEF vars, callVars, history
<1> QED
  BY <1>1, <1>2, <1>3, <1>4, <1>5, <1>6, <1>7, <1>8, <1>9, NextByKind DEF CallerStep

LEMMA FoundItStep ==
  ASSUME TypeOK, Alone, FoundIt, [Next]_vars
  PROVE  FoundIt'
<1> USE NoneAssumption DEF TypeOK, FoundIt, Seeking
<1>1. ASSUME NEW c \in Caller, NEW p \in Peer, Load(c, p) PROVE FoundIt'
  BY <1>1 DEF Load, Goto
<1>2. ASSUME NEW c \in Caller, Check(c) \/ Delete(c) \/ Close(c) \/ DialFails(c) \/ CallEnds(c)
      PROVE  FoundIt'
  BY <1>2 DEF Check, Delete, Close, DialFails, CallEnds, Goto, history
(* Either c was solo and nobody looks for the peer, or what it stores is   *)
(* raced.                                                                  *)
<1>3. ASSUME NEW c \in Caller, Store(c) PROVE FoundIt'
  BY <1>3 DEF Store, Goto, Alone
<1>4. ASSUME NEW c \in Caller, NEW x \in Conn, Dial(c, x) PROVE FoundIt'
  BY <1>4 DEF Dial, Goto, Free
<1>5. CASE (\E x \in Conn : Changes(x)) \/ (\E p \in Peer : StopFinds(p)) \/ StopBegins \/ StopReturns
  BY <1>5 DEF Changes, StopFinds, StopBegins, StopReturns, callVars, history
<1>6. CASE StopCloses \/ StopDeletes
  BY <1>6 DEF StopCloses, StopDeletes, callVars, history
<1>7. CASE UNCHANGED vars
  BY <1>7 DEF vars, callVars, history
<1> QED
  BY <1>1, <1>2, <1>3, <1>4, <1>5, <1>6, <1>7, NextByKind DEF CallerStep
------------------------------------------------------------------------------
LEMMA BehindStep ==
  ASSUME TypeOK, Alone, Behind, WhereStopIs, [Next]_vars
  PROVE  Behind' /\ WhereStopIs'
<1> USE NoneAssumption DEF TypeOK, Behind, WhereStopIs
<1>1. ASSUME NEW c \in Caller, NEW p \in Peer, Load(c, p) PROVE Behind' /\ WhereStopIs'
  BY <1>1 DEF Load, stopVars
<1>2. ASSUME NEW c \in Caller, Check(c) \/ Delete(c) \/ Close(c) \/ DialFails(c) \/ CallEnds(c)
      PROVE  Behind' /\ WhereStopIs'
  BY <1>2 DEF Check, Delete, Close, DialFails, CallEnds, stopVars, history, Open, Usable
(* What is stored after Stop began is raced. *)
<1>3. ASSUME NEW c \in Caller, Store(c) PROVE Behind' /\ WhereStopIs'
  BY <1>3 DEF Store, stopVars, Alone
<1>4. ASSUME NEW c \in Caller, NEW x \in Conn, Dial(c, x) PROVE Behind' /\ WhereStopIs'
  BY <1>4 DEF Dial, Free, stopVars
<1>5. ASSUME NEW x \in Conn, Changes(x) PROVE Behind' /\ WhereStopIs'
  BY <1>5 DEF Changes, stopVars, history
<1>6. ASSUME NEW p \in Peer, StopFinds(p) PROVE Behind' /\ WhereStopIs'
  BY <1>6 DEF StopFinds, history
<1>7. CASE StopBegins \/ StopReturns
  BY <1>7 DEF StopBegins, StopReturns, history
<1>8. CASE StopCloses
  BY <1>8 DEF StopCloses, history, Open, Usable
<1>9. CASE StopDeletes
  BY <1>9 DEF StopDeletes, history
<1>10. CASE UNCHANGED vars
  BY <1>10 DEF vars, stopVars, history
<1> QED
  BY <1>1, <1>2, <1>3, <1>4, <1>5, <1>6, <1>7, <1>8, <1>9, <1>10, NextByKind DEF CallerStep

LEMMA SoloKeptStep ==
  ASSUME TypeOK, FoundIt, Behind, WhereStopIs, SoloKept, [Next]_vars
  PROVE  SoloKept'
<1> USE NoneAssumption DEF TypeOK, SoloKept, InHand
<1>1. ASSUME NEW c \in Caller, NEW p \in Peer, Load(c, p) PROVE SoloKept'
  BY <1>1 DEF Load, Goto, stopVars
<1>2. ASSUME NEW c \in Caller, Check(c) \/ DialFails(c) \/ CallEnds(c) PROVE SoloKept'
  BY <1>2 DEF Check, DialFails, CallEnds, Goto, stopVars, history
<1>3. ASSUME NEW c \in Caller, Close(c) PROVE SoloKept'
  BY <1>3 DEF Close, Goto, stopVars, history, Open, Usable
(* What c takes out of the map is raced or what c has found: now it is in  *)
(* hand.                                                                   *)
<1>4. ASSUME NEW c \in Caller, Delete(c) PROVE SoloKept'
  <2>1. table[to[c]] \in Conn \ raced => conn[c] = table[to[c]]
    BY <1>4 DEF Delete, FoundIt, Seeking
  <2> QED
    BY <1>4, <2>1 DEF Delete, Goto, stopVars, history
(* What c replaces is raced. *)
<1>5. ASSUME NEW c \in Caller, Store(c) PROVE SoloKept'
  <2>1. table[to[c]] \notin Conn \ raced
    BY <1>5 DEF Store, FoundIt, Seeking
  <2> QED
    BY <1>5, <2>1 DEF Store, Goto, stopVars
<1>6. ASSUME NEW c \in Caller, NEW x \in Conn, Dial(c, x) PROVE SoloKept'
  BY <1>6 DEF Dial, Goto, stopVars
<1>7. ASSUME NEW x \in Conn, Changes(x) PROVE SoloKept'
  BY <1>7 DEF Changes, callVars, stopVars, history
<1>8. CASE StopBegins \/ (\E p \in Peer : StopFinds(p)) \/ StopReturns
  BY <1>8 DEF StopBegins, StopFinds, StopReturns, callVars, history
<1>9. CASE StopCloses
  BY <1>9 DEF StopCloses, callVars, history, Open, Usable
(* What Stop deletes is raced or what it has closed. *)
<1>10. CASE StopDeletes
  <2>1. table[key] \in Conn \ raced => state[table[key]] \notin Open
    BY <1>10 DEF StopDeletes, Behind, WhereStopIs
  <2> QED
    BY <1>10, <2>1 DEF StopDeletes, callVars, history
<1>11. CASE UNCHANGED vars
  BY <1>11 DEF vars, callVars, stopVars, history
<1> QED
  BY <1>1, <1>2, <1>3, <1>4, <1>5, <1>6, <1>7, <1>8, <1>9, <1>10, <1>11, NextByKind
     DEF CallerStep
------------------------------------------------------------------------------
LEMMA Invariance == Spec => []Inv
<1>1. Init => Inv
  BY NoneAssumption
     DEF Init, Inv, TypeOK, ConnState, Open, Usable, CallerState, Alone, HeldForOne, Holds,
         SoloHas, FoundIt, Seeking, Behind, WhereStopIs, SoloKept
<1>2. Inv /\ [Next]_vars => Inv'
  BY TypeStep, AloneStep, HeldForOneStep, SoloHasStep, FoundItStep, BehindStep, SoloKeptStep
     DEF Inv
<1> QED
  BY <1>1, <1>2, PTL DEF Spec

(* An open connection that was dialled without a rival is in the map, or   *)
(* somebody is about to store or to close it (grpc.go:405-424).            *)
THEOREM SoloKeptInvariant == Spec => []SoloKept
BY Invariance, PTL DEF Inv

(* Stop leaves none of them open (grpc.go:111-118).                        *)
THEOREM StopClosesSoloInvariant == Spec => []StopClosesSolo
<1>1. Inv => StopClosesSolo
  BY NoneAssumption DEF Inv, TypeOK, Behind, WhereStopIs, SoloKept, StopClosesSolo
<1> QED
  BY <1>1, Invariance, PTL

(* A call without a rival has an open connection, which the next call will *)
(* find (grpc.go:401-425).                                                 *)
THEOREM SoloCallInvariant == Spec => []SoloCall
<1>1. Inv => SoloCall
  BY DEF Inv, SoloHas, SoloCall
<1> QED
  BY <1>1, Invariance, PTL
------------------------------------------------------------------------------
(* The transfer of a blob over these connections. *)

(* A peer that was not tried has neither a stream nor a pipe. *)
Untried(q) ==
  /\ feeder[q] = "none" /\ pipe[q] = "open" /\ received[q] = 0
  /\ handler[q] = "none" /\ sent[q] = 0

(* A feeder hands over a piece of the blob, never the final message, and   *)
(* says that this was all only when it has received that one; the peer's   *)
(* handler is at work until it has sent it.                                *)
Fed(q) ==
  /\ feeder[q] = "write" => received[q] \in 1 .. Size
  /\ feeder[q] = "receive" => received[q] \in 0 .. Size
  /\ pipe[q] = "eof" => received[q] = Final /\ feeder[q] = "ended"
  /\ feeder[q] = "ended" => pipe[q] # "open"
  /\ handler[q] = "send" => sent[q] \in 0 .. Size

(* What PutBlob has copied is what the feeder has received, but for the    *)
(* piece it is about to hand over.                                         *)
Copied ==
  request = "copy" =>
    /\ feeder[source] = "receive" => got = received[source]
    /\ feeder[source] = "write" => got = received[source] - 1
    /\ pipe[source] = "eof" => got = Size

(* PutBlob finds the end of the pipe only behind the last piece.           *)
EofIsWhole == request = "copy" /\ pipe[source] = "eof" => got = Size

FetchInv ==
  /\ FetchTypeOK
  /\ \A q \in left : Untried(q)
  /\ \A q \in Holder : Fed(q)
  /\ Copied
------------------------------------------------------------------------------
LEMMA FetchStep ==
  ASSUME FetchInv, [FetchNext]_fetchVars
  PROVE  FetchInv'
<1> USE SlowAssumption, SizeAssumption, WindowAssumption DEF FetchInv, FetchTypeOK, Final, Outcome, PipeState,
        FeederState, HandlerState, Untried, Fed, Copied, requestVars,
        clientVars, peerVars
<1>1. ASSUME NEW q \in Holder, RequestBlob(q) PROVE FetchInv'
  BY <1>1 DEF RequestBlob
<1>2. ASSUME NEW q \in Holder, RequestFails(q) PROVE FetchInv'
  BY <1>2 DEF RequestFails
<1>3. CASE NoneLeft
  BY <1>3 DEF NoneLeft
<1>4. CASE Copy
  BY <1>4 DEF Copy
<1>5. CASE Installed
  BY <1>5 DEF Installed
<1>6. CASE CacheFails
  BY <1>6 DEF CacheFails, ClosePipe
<1>7. CASE Reply
  BY <1>7 DEF Reply
<1>8. CASE ClientLeaves
  BY <1>8 DEF ClientLeaves
<1>9. ASSUME NEW q \in Holder, Receive(q) PROVE FetchInv'
  <2> USE DEF Receive, Take
  <2>1. /\ received[q] \in 0 .. Size /\ received[q] < sent[q] /\ sent[q] \in 0 .. Final
        /\ received'[q] = received[q] + 1 /\ received[q] + 1 # Final
        /\ feeder[q] = "receive" /\ q \notin left
    BY <1>9
  <2>2. FetchTypeOK'
    BY <1>9, <2>1
  <2>3. \A r \in left' : Untried(r)'
    BY <1>9, <2>1
  <2>4. \A r \in Holder : Fed(r)'
    BY <1>9, <2>1
  <2>5. Copied'
    BY <1>9, <2>1
  <2> QED
    BY <2>2, <2>3, <2>4, <2>5
<1>10. ASSUME NEW q \in Holder, ReceiveFinal(q) PROVE FetchInv'
  BY <1>10 DEF ReceiveFinal, Take, FeederEnds, ClosePipe
<1>11. ASSUME NEW q \in Holder, ReceiveFails(q) PROVE FetchInv'
  BY <1>11 DEF ReceiveFails, FeederEnds, ClosePipe
<1>12. ASSUME NEW q \in Holder, WriteFails(q) PROVE FetchInv'
  BY <1>12 DEF WriteFails, FeederEnds, ClosePipe
<1>13. ASSUME NEW q \in Holder, Send(q) PROVE FetchInv'
  <2>1. /\ handler[q] = "send" /\ sent[q] - received[q] < Window
        /\ sent' = [sent EXCEPT ![q] = sent[q] + 1]
        /\ handler' = [handler EXCEPT ![q] = IF sent[q] + 1 = Final THEN "ended" ELSE @]
        /\ UNCHANGED <<requestVars, done, clientVars, broken>>
    BY <1>13 DEF Send
  <2>2. q \notin left /\ sent[q] + 1 <= Final
    BY <2>1
  <2>3. FetchTypeOK'
    BY <2>1, <2>2
  <2> QED
    BY <2>1, <2>2, <2>3
<1>14. ASSUME NEW q \in Holder, ReadFails(q) PROVE FetchInv'
  BY <1>14 DEF ReadFails
<1>15. ASSUME NEW q \in Holder, SendFails(q) PROVE FetchInv'
  BY <1>15 DEF SendFails
<1>16. ASSUME NEW q \in Holder, Break(q) PROVE FetchInv'
  BY <1>16 DEF Break
<1>17. CASE UNCHANGED fetchVars
  BY <1>17 DEF fetchVars
<1> QED
  BY <1>1, <1>2, <1>3, <1>4, <1>5, <1>6, <1>7, <1>8, <1>9, <1>10, <1>11, <1>12, <1>13, <1>14,
     <1>15, <1>16, <1>17 DEF FetchNext, Feed

LEMMA FetchInvariance == FetchSpec => []FetchInv
<1>1. FetchInit => FetchInv
  <2> SUFFICES ASSUME FetchInit PROVE FetchInv
    OBVIOUS
  <2>1. 0 \in 0 .. Size /\ 0 \in 0 .. Final /\ 0 - 0 \in 0 .. Window
    BY SizeAssumption, WindowAssumption DEF Final
  <2>2. FetchTypeOK
    BY <2>1, SlowAssumption DEF FetchInit, FetchTypeOK, Outcome, PipeState,
                FeederState, HandlerState
  <2> QED
    BY <2>2 DEF FetchInit, FetchInv, Untried, Fed, Copied
<1>2. FetchInv /\ [FetchNext]_fetchVars => FetchInv'
  BY FetchStep
<1> QED
  BY <1>1, <1>2, PTL DEF FetchSpec

(* What a feeder has received its peer has sent, and no more than the      *)
(* window is under way, for any number of peers, pieces and any window     *)
(* (grpc.go:206-244, 546-578).                                             *)
THEOREM FetchTypeCorrect == FetchSpec => []FetchTypeOK
BY FetchInvariance, PTL DEF FetchInv

(* However the streams of the peers break and whoever closes a pipe, what  *)
(* ends without an error is never cut short (grpc.go:218-241).             *)
THEOREM EofIsWholeInvariant == FetchSpec => []EofIsWhole
<1>1. FetchInv => EofIsWhole
  BY DEF FetchInv, Copied, EofIsWhole
<1> QED
  BY <1>1, FetchInvariance, PTL
==============================================================================
