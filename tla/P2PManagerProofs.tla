-------------------------- MODULE P2PManagerProofs --------------------------
(* Theorems about P2PManager, for every set of peers and callers and every *)
(* number of workers.                                                      *)
EXTENDS P2PManager, TLAPS

(* The peer table, from which the pings are started, never has the node.   *)
SelfNotPinged == \A i \in Bootstrap : ping[i] # "none" => i # Self

(* The wait of Stop was for the three loops, and none starts again. *)
LoopsDone == stopping = "waited" => \A l \in Loop : pc[l] = "done"

ManagerInv == TypeOK /\ SelfNotPinged /\ LoopsDone
-----------------------------------------------------------------------------
LEMMA InitManagerInv == Init => ManagerInv
  BY DEF Init, ManagerInv, TypeOK, SelfNotPinged, LoopsDone, Loop, Label, PingState

LEMMA TypeStep == TypeOK /\ SelfNotPinged /\ [Next]_vars => TypeOK'
<1> SUFFICES ASSUME TypeOK, SelfNotPinged, [Next]_vars PROVE TypeOK'
  OBVIOUS
<1> USE DEF TypeOK, Loop, Label, PingState, Goto, mutexes
<1>1. CASE Start
  BY <1>1 DEF Start
<1>2. CASE Cancel
  BY <1>2 DEF Cancel
<1>3. CASE StopBegins
  BY <1>3 DEF StopBegins
<1>4. CASE WaitEnds
  BY <1>4 DEF WaitEnds
<1>5. ASSUME NEW l \in Loop, Exit(l) PROVE TypeOK'
  BY <1>5 DEF Exit
<1>6. ASSUME NEW l \in Loop, Tick(l) PROVE TypeOK'
  BY <1>6 DEF Tick
<1>7. CASE DiscoverPeers
  BY <1>7 DEF DiscoverPeers
<1>8. CASE StartPings
  BY <1>8 DEF StartPings
<1>9. CASE LockHealth
  BY <1>9 DEF LockHealth
<1>10. CASE CollectEnds
  BY <1>10 DEF CollectEnds
<1>11. ASSUME NEW i \in Bootstrap, Collect(i) PROVE TypeOK'
  BY <1>11 DEF Collect, SelfNotPinged
<1>12. CASE RemoveStale
  BY <1>12 DEF RemoveStale
<1>13. CASE CleanHealth
  BY <1>13 DEF CleanHealth
<1>14. ASSUME NEW i \in Bootstrap, PingBegins(i) \/ PingEnds(i) PROVE TypeOK'
  BY <1>14 DEF PingBegins, PingEnds
<1>15. ASSUME NEW c \in Caller, Call(c) \/ GetPeers(c) \/ GetPeerHealth(c) PROVE TypeOK'
  BY <1>15 DEF Call, GetPeers, GetPeerHealth
<1>16. CASE UNCHANGED vars
  BY <1>16 DEF vars
<1> QED
  BY <1>1, <1>2, <1>3, <1>4, <1>5, <1>6, <1>7, <1>8, <1>9, <1>10, <1>11, <1>12, <1>13, <1>14,
     <1>15, <1>16
     DEF Next, DiscoveryStep, HealthStep, MaintenanceStep, PingStep, CallerStep

(* Only StartPings starts a ping, and only to peers of the table. *)
LEMMA PingStepsKeepSelf == TypeOK /\ SelfNotPinged /\ [Next]_vars => SelfNotPinged'
<1> SUFFICES ASSUME TypeOK, SelfNotPinged, [Next]_vars PROVE SelfNotPinged'
  OBVIOUS
<1> USE DEF TypeOK, SelfNotPinged, PingState
<1>1. CASE StartPings
  BY <1>1 DEF StartPings
<1>2. CASE CollectEnds
  BY <1>2 DEF CollectEnds
<1>3. ASSUME NEW i \in Bootstrap, Collect(i) \/ PingBegins(i) \/ PingEnds(i)
      PROVE  SelfNotPinged'
  BY <1>3 DEF Collect, PingBegins, PingEnds
<1>4. CASE UNCHANGED ping
  BY <1>4
<1> QED
  BY <1>1, <1>2, <1>3, <1>4
     DEF Next, DiscoveryStep, HealthStep, MaintenanceStep, PingStep, CallerStep, vars, mutexes,
         Start, Cancel, StopBegins, WaitEnds, Exit, Tick, DiscoverPeers, LockHealth,
         RemoveStale, CleanHealth, Call, GetPeers, GetPeerHealth

(* A loop that is done takes no step. *)
LEMMA LoopsStayDone == TypeOK /\ LoopsDone /\ [Next]_vars => LoopsDone'
<1> SUFFICES ASSUME TypeOK, LoopsDone, [Next]_vars PROVE LoopsDone'
  OBVIOUS
<1> USE DEF TypeOK, LoopsDone, Loop, Goto, mutexes
<1>1. CASE stopping' = stopping
  <2>1. CASE Start
    BY <1>1, <2>1 DEF Start
  <2>2. ASSUME NEW l \in Loop, Exit(l) \/ Tick(l) PROVE LoopsDone'
    BY <1>1, <2>2 DEF Exit, Tick
  <2>3. CASE DiscoverPeers \/ StartPings \/ LockHealth \/ CollectEnds
    BY <1>1, <2>3 DEF DiscoverPeers, StartPings, LockHealth, CollectEnds
  <2>4. CASE RemoveStale \/ CleanHealth
    BY <1>1, <2>4 DEF RemoveStale, CleanHealth
  <2>5. CASE UNCHANGED pc
    BY <1>1, <2>5
  <2> QED
    BY <2>1, <2>2, <2>3, <2>4, <2>5
       DEF Next, DiscoveryStep, HealthStep, MaintenanceStep, PingStep, CallerStep, vars,
           Cancel, StopBegins, WaitEnds, Collect, PingBegins, PingEnds,
           Call, GetPeers, GetPeerHealth
<1>2. CASE Cancel \/ StopBegins
  BY <1>2 DEF Cancel, StopBegins
<1>3. CASE WaitEnds
  BY <1>3 DEF WaitEnds
<1> QED
  BY <1>1, <1>2, <1>3
     DEF Next, DiscoveryStep, HealthStep, MaintenanceStep, PingStep, CallerStep, vars, Start,
         Exit, Tick, DiscoverPeers, StartPings, LockHealth, CollectEnds, Collect, RemoveStale,
         CleanHealth, PingBegins, PingEnds, Call, GetPeers, GetPeerHealth

LEMMA ManagerInvariant == Spec => []ManagerInv
<1>1. ManagerInv /\ [Next]_vars => ManagerInv'
  BY TypeStep, PingStepsKeepSelf, LoopsStayDone DEF ManagerInv
<1> QED
  BY <1>1, InitManagerInv, PTL DEF Spec

(* The state of the manager keeps its type: the peer table never holds the *)
(* node itself, and the two mutexes that are held across a wait are held   *)
(* exactly while their loop waits.                                         *)
THEOREM TypeCorrect == Spec => []TypeOK
<1>1. ManagerInv => TypeOK
  BY DEF ManagerInv
<1> QED
  BY <1>1, ManagerInvariant, PTL

(* After the wait of Stop nothing touches the peers or their health. *)
THEOREM StoppedIsFinalInvariant == Spec => StoppedIsFinal
<1>1. ManagerInv /\ [Next]_vars => [stopping = "waited" => UNCHANGED <<peers, health>>]_vars
  <2> SUFFICES ASSUME ManagerInv, [Next]_vars, stopping = "waited"
               PROVE  UNCHANGED <<peers, health>>
    OBVIOUS
  <2>1. \A l \in Loop : pc[l] = "done"
    BY DEF ManagerInv, LoopsDone
  <2> QED
    BY <2>1 DEF Loop, Next, DiscoveryStep, HealthStep, MaintenanceStep, PingStep, CallerStep,
         vars, Start, Cancel, StopBegins, WaitEnds, Exit, Tick, DiscoverPeers, StartPings,
         LockHealth, CollectEnds, Collect, RemoveStale, CleanHealth, PingBegins, PingEnds,
         Call, GetPeers, GetPeerHealth
<1> QED
  BY <1>1, ManagerInvariant, PTL DEF Spec, StoppedIsFinal
=============================================================================
