----------------------------- MODULE P2PManager -----------------------------
(***************************************************************************)
(* The P2P manager of one node from its start to its stop: three loops     *)
(* (discovery, health checks, maintenance), the goroutines that ping, the  *)
(* handlers that ask for peers and their health, and Stop as far as its    *)
(* wait for the loops (manager.go:117-118).  What Stop does then, closing  *)
(* the transport, waits for the calls of peers: see module NodeLifecycle.  *)
(*                                                                         *)
(* peerMutex and healthMutex are sync.RWMutexes.  A critical section that  *)
(* waits for nothing is one step, taken when nobody holds the mutex; only  *)
(* two wait: the health check holds healthMutex until the pings have       *)
(* answered, and maintenance holds peerMutex until it gets healthMutex.    *)
(*                                                                         *)
(* Tickers tick at any time, so the configured intervals are arbitrary,    *)
(* and so is which peers were last seen more than ten minutes ago.  What a *)
(* health entry says is left out, no step of the manager depends on it,    *)
(* and so is logClusterStatus, which only reads.                           *)
(***************************************************************************)
EXTENDS Naturals, FiniteSets

CONSTANTS
  Bootstrap,  \* IDs of the configured peers
  Self,       \* m.nodeID
  Workers,    \* p2p.health_check.workers
  Caller      \* goroutines that call GetPeers, then GetPeerHealth

(* Validate: "health check workers must be at least 1" (config.go:362). *)
ASSUME WorkersAssumption == Workers \in Nat \ {0}

VARIABLES
  peers,       \* the keys of m.peers
  health,      \* peers with an entry in m.healthStatus
  pc,          \* [Loop -> Label]
  ping,        \* [Bootstrap -> PingState]: the pings of the health check
  peerMutex,   \* held by maintenance
  healthMutex, \* held by the health check
  caller,      \* [Caller -> {"idle", "peers", "health"}]
  stopping     \* "no", "cancelled" (the context), "waiting" (for the loops), "waited"

vars == <<peers, health, pc, ping, peerMutex, healthMutex, caller, stopping>>
mutexes == <<peerMutex, healthMutex>>

Loop == {"discovery", "health", "maintenance"}
Label == {"new", "select", "work", "lock", "collect", "clean", "done"}
PingState == {"none", "queued", "running", "result"}

TypeOK ==
  /\ peers \in SUBSET (Bootstrap \ {Self})
  /\ health \in SUBSET (Bootstrap \ {Self})
  /\ pc \in [Loop -> Label]
  /\ ping \in [Bootstrap -> PingState]
  /\ {peerMutex, healthMutex} \subseteq BOOLEAN
  /\ peerMutex <=> pc["maintenance"] = "clean"
  /\ healthMutex <=> pc["health"] = "collect"
  /\ caller \in [Caller -> {"idle", "peers", "health"}]
  /\ stopping \in {"no", "cancelled", "waiting", "waited"}

Init ==
  /\ peers = {}
  /\ health = {}
  /\ pc = [l \in Loop |-> "new"]
  /\ ping = [i \in Bootstrap |-> "none"]
  /\ peerMutex = FALSE /\ healthMutex = FALSE
  /\ caller = [c \in Caller |-> "idle"]
  /\ stopping = "no"

ToldToStop == stopping # "no"
Goto(l, label) == pc' = [pc EXCEPT ![l] = label]
------------------------------------------------------------------------------
(* Start and Stop; main.go starts the manager once and stops it once. *)

Start ==
  /\ \A l \in Loop : pc[l] = "new"
  /\ pc' = [l \in Loop |-> "select"]
  /\ UNCHANGED <<peers, health, ping, mutexes, caller, stopping>>

(* A signal: main.go cancels the context, then calls Stop. *)
Cancel ==
  /\ stopping = "no"
  /\ stopping' = "cancelled"
  /\ UNCHANGED <<peers, health, pc, ping, mutexes, caller>>

StopBegins ==
  /\ stopping \in {"no", "cancelled"} /\ \A l \in Loop : pc[l] # "new"
  /\ stopping' = "waiting"
  /\ UNCHANGED <<peers, health, pc, ping, mutexes, caller>>

(* The slip: Wait waits for nobody. *)
StopAtOnce ==
  /\ stopping = "waiting"
  /\ stopping' = "waited"
  /\ UNCHANGED <<peers, health, pc, ping, mutexes, caller>>

(* workerWg.Wait of Stop is over. *)
WaitEnds ==
  /\ stopping = "waiting" /\ \A l \in Loop : pc[l] = "done"
  /\ stopping' = "waited"
  /\ UNCHANGED <<peers, health, pc, ping, mutexes, caller>>

(* The slip: the loops watch the context only. *)
ExitOnCancel(l) ==
  /\ pc[l] = "select" /\ stopping = "cancelled"
  /\ Goto(l, "done")
  /\ UNCHANGED <<peers, health, ping, mutexes, caller, stopping>>

(* The select of a loop; Go picks any case that is ready. *)
Exit(l) ==
  /\ pc[l] = "select" /\ ToldToStop
  /\ Goto(l, "done")
  /\ UNCHANGED <<peers, health, ping, mutexes, caller, stopping>>

Tick(l) ==
  /\ pc[l] = "select"
  /\ Goto(l, "work")
  /\ UNCHANGED <<peers, health, ping, mutexes, caller, stopping>>
------------------------------------------------------------------------------
(* The slip: the node stores itself. *)
DiscoverSelf ==
  /\ pc["discovery"] = "work" /\ ~peerMutex
  /\ peers' = peers \cup Bootstrap
  /\ Goto("discovery", "select")
  /\ UNCHANGED <<health, ping, mutexes, caller, stopping>>

(* discoverPeers: all configured peers but the node itself were just seen. *)
DiscoverPeers ==
  /\ pc["discovery"] = "work" /\ ~peerMutex
  /\ peers' = peers \cup (Bootstrap \ {Self})
  /\ Goto("discovery", "select")
  /\ UNCHANGED <<health, ping, mutexes, caller, stopping>>

(* checkPeerHealth: a goroutine for each peer, ... *)
StartPings ==
  /\ pc["health"] = "work" /\ ~peerMutex
  /\ Goto("health", "lock")
  /\ ping' = [i \in Bootstrap |-> IF i \in peers THEN "queued" ELSE "none"]
  /\ UNCHANGED <<peers, health, mutexes, caller, stopping>>

(* The slip: the semaphore has a place too few. *)
PingBeginsOneLess(i) ==
  /\ ping[i] = "queued"
  /\ Cardinality({j \in Bootstrap : ping[j] = "running"}) + 1 < Workers
  /\ ping' = [ping EXCEPT ![i] = "running"]
  /\ UNCHANGED <<peers, health, pc, mutexes, caller, stopping>>

(* ... of which the semaphore lets Workers ping at a time ... *)
PingBegins(i) ==
  /\ ping[i] = "queued"
  /\ Cardinality({j \in Bootstrap : ping[j] = "running"}) < Workers
  /\ ping' = [ping EXCEPT ![i] = "running"]
  /\ UNCHANGED <<peers, health, pc, mutexes, caller, stopping>>

(* ... until the peer answers, or the timeout. *)
PingEnds(i) ==
  /\ ping[i] = "running"
  /\ ping' = [ping EXCEPT ![i] = "result"]
  /\ UNCHANGED <<peers, health, pc, mutexes, caller, stopping>>

LockHealth ==
  /\ pc["health"] = "lock" /\ ~healthMutex
  /\ healthMutex' = TRUE
  /\ Goto("health", "collect")
  /\ UNCHANGED <<peers, health, ping, peerMutex, caller, stopping>>

Collect(i) ==
  /\ pc["health"] = "collect" /\ ping[i] = "result"
  /\ health' = health \cup {i}
  /\ ping' = [ping EXCEPT ![i] = "none"]
  /\ UNCHANGED <<peers, pc, mutexes, caller, stopping>>

(* The slip: one result too few is waited for. *)
CollectAllButOne ==
  /\ pc["health"] = "collect"
  /\ ToldToStop \/ Cardinality({i \in Bootstrap : ping[i] # "none"}) <= 1
  /\ healthMutex' = FALSE
  /\ ping' = [i \in Bootstrap |-> "none"]
  /\ Goto("health", "select")
  /\ UNCHANGED <<peers, health, peerMutex, caller, stopping>>

(* All results are in, or stopCh or the context ends the wait; nobody      *)
(* reads what the goroutines still send then.                              *)
CollectEnds ==
  /\ pc["health"] = "collect"
  /\ ToldToStop \/ \A i \in Bootstrap : ping[i] = "none"
  /\ healthMutex' = FALSE
  /\ ping' = [i \in Bootstrap |-> "none"]
  /\ Goto("health", "select")
  /\ UNCHANGED <<peers, health, peerMutex, caller, stopping>>

(* removeStaleTimers: first the peers, ... *)
RemoveStale ==
  /\ pc["maintenance"] = "work" /\ ~peerMutex
  /\ peerMutex' = TRUE
  /\ \E stale \in SUBSET peers : peers' = peers \ stale
  /\ Goto("maintenance", "clean")
  /\ UNCHANGED <<health, ping, healthMutex, caller, stopping>>

(* ... then, with peerMutex still held, their health. *)
CleanHealth ==
  /\ pc["maintenance"] = "clean" /\ ~healthMutex
  /\ health' = health \cap peers
  /\ peerMutex' = FALSE
  /\ Goto("maintenance", "select")
  /\ UNCHANGED <<peers, ping, healthMutex, caller, stopping>>
------------------------------------------------------------------------------
(* A handler or a replication task wants the healthy peers. *)

Call(c) ==
  /\ caller[c] = "idle"
  /\ caller' = [caller EXCEPT ![c] = "peers"]
  /\ UNCHANGED <<peers, health, pc, ping, mutexes, stopping>>

GetPeers(c) ==
  /\ caller[c] = "peers" /\ ~peerMutex
  /\ caller' = [caller EXCEPT ![c] = "health"]
  /\ UNCHANGED <<peers, health, pc, ping, mutexes, stopping>>

GetPeerHealth(c) ==
  /\ caller[c] = "health" /\ ~healthMutex
  /\ caller' = [caller EXCEPT ![c] = "idle"]
  /\ UNCHANGED <<peers, health, pc, ping, mutexes, stopping>>

DiscoveryStep == DiscoverPeers \/ Tick("discovery")

HealthStep ==
  \/ Tick("health") \/ StartPings \/ LockHealth \/ CollectEnds
  \/ \E i \in Bootstrap : Collect(i)

MaintenanceStep == Tick("maintenance") \/ RemoveStale \/ CleanHealth

PingStep == \E i \in Bootstrap : PingBegins(i) \/ PingEnds(i)

CallerStep(c) == GetPeers(c) \/ GetPeerHealth(c)

Next ==
  \/ Start \/ Cancel \/ StopBegins \/ WaitEnds
  \/ \E l \in Loop : Exit(l)
  \/ DiscoveryStep \/ HealthStep \/ MaintenanceStep \/ PingStep
  \/ \E c \in Caller : Call(c) \/ CallerStep(c)

Spec == Init /\ [][Next]_vars

(* A goroutine that can run does.  A sync.RWMutex does not starve its      *)
(* waiters and select picks at random among the ready cases, so what is    *)
(* possible again and again happens (SF); a ping ends by its timeout.      *)
Fairness ==
  /\ WF_vars(Start) /\ WF_vars(WaitEnds) /\ WF_vars(PingStep)
  /\ SF_vars(DiscoveryStep) /\ SF_vars(HealthStep) /\ SF_vars(MaintenanceStep)
  /\ \A l \in Loop : SF_vars(Exit(l))
  /\ \A c \in Caller : SF_vars(CallerStep(c))

FairSpec == Spec /\ Fairness
------------------------------------------------------------------------------
(* "Stop stops the P2P manager and all background processes"               *)
(* (manager.go:103): once it has waited for the loops, and so also once it *)
(* has returned, no peer is added or removed and no health is recorded,    *)
(* also by a check that was collecting when stopCh was closed.             *)
StoppedIsFinal ==
  [][stopping = "waited" => UNCHANGED <<peers, health>>]_vars

(* The wait of Stop for the loops ends, whatever they were doing when it   *)
(* was called, and even when pings are still under way (manager.go:379-388,*)
(* 115-118).  That Stop itself returns is more, and not said here.         *)
LoopsEnd == stopping = "waiting" ~> stopping = "waited"

(* A handler that asks for the peers and their health gets them, although  *)
(* a health check keeps healthMutex while it waits for pings and           *)
(* maintenance meanwhile keeps peerMutex (manager.go:376-388, 404-415).    *)
CallersServed == \A c \in Caller : caller[c] # "idle" ~> caller[c] = "idle"

(* A peer that stays known gets a verdict, however many more peers than    *)
(* workers there are: unless it is removed or the manager stops, a         *)
(* replication will not pass it over for ever for want of a health entry   *)
(* (manager.go:330-388, store.go:586).                                     *)
HealthKnown ==
  \A i \in Bootstrap \ {Self} :
    i \in peers ~> i \in health \/ i \notin peers \/ ToldToStop
=============================================================================
