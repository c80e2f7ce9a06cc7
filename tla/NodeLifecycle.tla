---------------------------- MODULE NodeLifecycle ----------------------------
(***************************************************************************)
(* The process of one node from its configuration to its end, and again    *)
(* after a restart: main with config.Load and LoadFromEnv, the manager     *)
(* with its discovery and its loops as far as the configuration decides    *)
(* what becomes of them, the HTTP server, signals and the shutdown.        *)
(*                                                                         *)
(* A configuration is a record of what the rest depends on: base stands    *)
(* for all that Validate checks of server, storage and logging, rest for   *)
(* the port, factor, strategy, consistency, protocol and timeouts of P2P,  *)
(* interval for the smaller of the two loop intervals.  The file and the   *)
(* environment do not change between starts.                               *)
(*                                                                         *)
(* A request is one that wants to know healthy peers: with P2P it waits    *)
(* for healthMutex, which a health check holds (module P2PManager).        *)
(*                                                                         *)
(* A call of a peer may stall: GetBlob sends with no deadline to a peer    *)
(* that has stopped to read its stream, and whose transport still answers  *)
(* the pings of keepalive, so that nothing ends the call on this side.     *)
(***************************************************************************)
EXTENDS Integers

CONSTANTS
  Id,        \* identities of nodes: names, host_port, uuids
  NoId,      \* no node_id, no host name
  HostName,  \* what os.Hostname says
  Address,   \* bootstrap peers: [id |-> what is before the @, or NoId, host |-> ...]
  HostPort,  \* [hosts -> Id]: host:port with _ for :, for an address without an id
  Malformed, \* addresses that do not parse
  File,      \* configuration files
  Env,       \* values of the OCTOSERVE_ variables
  MaxStarts, \* number of starts (bound)
  Uuid,      \* [1 .. MaxStarts -> Id]: what uuid.New returns
  Request,   \* goroutines that serve HTTP
  Call       \* goroutines that serve calls of peers

Method == {"static", "promised", "unknown"}
Config == [base : BOOLEAN, p2p : BOOLEAN, id : Id \cup {NoId}, peers : SUBSET Address,
           method : Method, interval : Int, workers : Int, rest : BOOLEAN]

ASSUME NoIdAssumption == NoId \notin Id
ASSUME HostNameAssumption == HostName \in Id \cup {NoId}
ASSUME AddressAssumption ==
  \A a \in Address : a.id \in Id \cup {NoId} /\ a.host \in DOMAIN HostPort
ASSUME HostPortAssumption == HostPort \in [DOMAIN HostPort -> Id]
ASSUME FileAssumption == File \subseteq [read : {"missing", "broken", "parsed"}, config : Config]
ASSUME EnvAssumption ==
  Env \subseteq [p2p : {"unset", "true", "other"}, id : Id \cup {NoId}, peers : SUBSET Address,
                 method : Method \cup {"unset"}]
ASSUME UuidAssumption == MaxStarts \in Nat \ {0} /\ Uuid \in [1 .. MaxStarts -> Id]

VARIABLES
  file, env,  \* what the operator wrote
  cfg,        \* cfg of main
  phase,      \* where main is, or how the process ended
  node,       \* the manager's nodeID, also of the last start
  known,      \* the keys of m.peers
  loop,       \* [Loop -> Label]
  http,       \* the HTTP server
  grpc,       \* the transport's server
  requests,   \* HTTP requests being served
  calls,      \* calls of peers being served
  stalled,    \* of them, those whose caller has stopped to read
  starts      \* number of starts so far

(* History, for the properties. *)
VARIABLE cut  \* what was still being served when the process ended

input == <<file, env>>
serving == <<requests, calls, stalled>>
server == <<known, loop, http, grpc, serving>>
vars == <<input, cfg, phase, node, server, starts, cut>>

Loop == {"discovery", "health"}
Label == {"none", "new", "select", "check", "done"}
Starting == {"load", "configured", "created", "started", "serving"}
Stopping == {"loops", "graceful", "shutdown"}
Ended == {"clean", "failed", "panicked", "killed"}

TypeOK ==
  /\ file \in File /\ env \in Env /\ cfg \in Config
  /\ phase \in Starting \cup {"waiting"} \cup Stopping \cup Ended
  /\ node \in Id \cup {NoId}
  /\ known \in SUBSET (Id \ {node})
  /\ loop \in [Loop -> Label]
  /\ loop["discovery"] # "check"
  /\ http \in {"none", "starting", "serving", "closing"}
  /\ grpc \in {"none", "serving", "closing"}
  /\ requests \in SUBSET Request /\ calls \in SUBSET Call /\ stalled \in SUBSET calls
  /\ starts \in 1 .. MaxStarts
  /\ cut \in SUBSET (Request \cup Call)
------------------------------------------------------------------------------
(* The configuration. *)

Default == [base |-> TRUE, p2p |-> FALSE, id |-> NoId, peers |-> {}, method |-> "static",
            interval |-> 15, workers |-> 10, rest |-> TRUE]

(* The slip: the number of workers is not checked. *)
ValidIntervals(c) == c.p2p => c.method # "unknown" /\ c.rest /\ c.interval > 0

ValidP2P(c) ==
  c.p2p => c.method # "unknown" /\ c.rest /\ c.interval > 0 /\ c.workers >= 1

(* The slip: the name of the host is not taken over. *)
Unnamed(c) == c

(* Validate also names the node, if P2P is on. *)
Named(c) == IF c.p2p /\ c.id = NoId THEN [c EXCEPT !.id = HostName] ELSE c

(* The slip: what Validate says is not looked at. *)
LoadsAnything(f) == f.read # "broken"

Loads(f) ==
  \/ f.read = "missing"
  \/ f.read = "parsed" /\ f.config.base /\ ValidP2P(f.config)

Loaded(f) == IF f.read = "missing" THEN Default ELSE Named(f.config)

(* LoadFromEnv: a variable that is not empty wins over the file. *)
FromEnv(c, e) ==
  [c EXCEPT !.p2p = IF e.p2p = "unset" THEN @ ELSE e.p2p = "true",
            !.id = IF e.id = NoId THEN @ ELSE e.id,
            !.peers = IF e.peers = {} THEN @ ELSE e.peers,
            !.method = IF e.method = "unset" THEN @ ELSE e.method]

(* parsePeerAddress, and the peers of NewStaticDiscovery. *)
PeerId(a) == IF a.id = NoId THEN HostPort[a.host] ELSE a.id
StaticPeers(c) == {PeerId(a) : a \in c.peers \ Malformed}
------------------------------------------------------------------------------
Init ==
  /\ file \in File /\ env \in Env
  /\ cfg = Default
  /\ phase = "load"
  /\ node = NoId /\ known = {}
  /\ loop = [l \in Loop |-> "none"]
  /\ http = "none" /\ grpc = "none"
  /\ requests = {} /\ calls = {} /\ stalled = {}
  /\ starts = 1
  /\ cut = {}

(* The process is gone, and with it all it did. *)
End(how) ==
  /\ phase' = how
  /\ cut' = requests \cup calls
  /\ known' = {}
  /\ loop' = [l \in Loop |-> "none"]
  /\ http' = "none" /\ grpc' = "none"
  /\ requests' = {} /\ calls' = {} /\ stalled' = {}
  /\ UNCHANGED <<input, cfg, node, starts>>

Continue(label) == phase' = label /\ UNCHANGED <<input, starts, cut>>

Load ==
  /\ phase = "load" /\ Loads(file)
  /\ cfg' = FromEnv(Loaded(file), env)
  /\ Continue("configured")
  /\ UNCHANGED <<node, server>>

LoadFails == phase = "load" /\ ~Loads(file) /\ End("failed")

(* The directories of the store are made and, with P2P, the manager. *)
Create ==
  /\ phase = "configured"
  /\ cfg.p2p => cfg.method = "static"
  /\ node' = CASE ~cfg.p2p -> node
               [] cfg.p2p /\ cfg.id # NoId -> cfg.id
               [] OTHER -> Uuid[starts]
  /\ Continue("created")
  /\ UNCHANGED <<cfg, server>>

(* They cannot be made, or NewManager knows only static discovery. *)
CreateFails == phase = "configured" /\ End("failed")

StartManager ==
  /\ phase = "created"
  /\ IF cfg.p2p
     THEN grpc' = "serving" /\ loop' = [l \in Loop |-> "new"]
     ELSE UNCHANGED <<grpc, loop>>
  /\ Continue("started")
  /\ UNCHANGED <<cfg, node, known, http, serving>>

(* The port of the transport is taken. *)
StartFails == phase = "created" /\ cfg.p2p /\ End("failed")

StartServer ==
  /\ phase = "started"
  /\ http' = "starting"
  /\ Continue("serving")
  /\ UNCHANGED <<cfg, node, known, loop, grpc, serving>>

Notify ==
  /\ phase = "serving"
  /\ Continue("waiting")
  /\ UNCHANGED <<cfg, node, server>>

Listen ==
  /\ http = "starting"
  /\ http' = "serving"
  /\ UNCHANGED <<input, cfg, phase, node, known, loop, grpc, serving, starts, cut>>

(* The port of the HTTP server is taken: os.Exit in the goroutine. *)
ListenFails == http = "starting" /\ End("failed")
------------------------------------------------------------------------------
(* The loops of the manager, with time.NewTicker and the worker pool. *)

Goto(l, label) ==
  /\ loop' = [loop EXCEPT ![l] = label]
  /\ UNCHANGED <<input, cfg, phase, node, http, grpc, serving, starts, cut>>

LoopBegins(l) ==
  loop[l] = "new" /\ cfg.interval > 0 /\ Goto(l, "select") /\ UNCHANGED known

TickerPanics(l) == loop[l] = "new" /\ cfg.interval <= 0 /\ End("panicked")

(* The slip: the node stores itself. *)
DiscoverSelf ==
  /\ loop["discovery"] = "select"
  /\ known' = known \cup StaticPeers(cfg)
  /\ Goto("discovery", "select")

Discover ==
  /\ loop["discovery"] = "select"
  /\ known' = known \cup (StaticPeers(cfg) \ {node})
  /\ Goto("discovery", "select")

(* A health check waits for the pings of the peers there are. *)
CheckBegins ==
  /\ loop["health"] = "select" /\ cfg.workers >= 0 /\ known # {}
  /\ Goto("health", "check")
  /\ UNCHANGED known

(* make(chan struct{}, -1) *)
CheckPanics == loop["health"] = "select" /\ cfg.workers < 0 /\ End("panicked")

(* The slip: the collector waits for the results only. *)
CheckEndsByItself ==
  /\ loop["health"] = "check" /\ cfg.workers > 0
  /\ Goto("health", "select")
  /\ UNCHANGED known

(* With no worker no ping ever begins; Stop ends the wait. *)
CheckEnds ==
  /\ loop["health"] = "check"
  /\ cfg.workers > 0 \/ phase \in Stopping
  /\ Goto("health", "select")
  /\ UNCHANGED known

LoopEnds(l) ==
  loop[l] = "select" /\ phase \in Stopping /\ Goto(l, "done") /\ UNCHANGED known
------------------------------------------------------------------------------
(* What clients and peers ask for. *)

Serve(asked, served, stuck) ==
  /\ requests' = asked /\ calls' = served /\ stalled' = stuck
  /\ UNCHANGED <<input, cfg, phase, node, known, loop, http, grpc, starts, cut>>

RequestBegins(r) ==
  http = "serving" /\ r \notin requests /\ Serve(requests \cup {r}, calls, stalled)

RequestEnds(r) ==
  r \in requests /\ loop["health"] # "check" /\ Serve(requests \ {r}, calls, stalled)

CallBegins(c) ==
  grpc = "serving" /\ c \notin calls /\ Serve(requests, calls \cup {c}, stalled)

CallStalls(c) == c \in calls \ stalled /\ Serve(requests, calls, stalled \cup {c})

(* A stalled call ends too, should its caller read on, die or give up. *)
CallEnds(c) == c \in calls /\ Serve(requests, calls \ {c}, stalled \ {c})
------------------------------------------------------------------------------
(* SIGINT and SIGTERM before Notify, and SIGKILL. *)
Kill == phase \notin Ended /\ End("killed")

(* The first signal; quit takes a second one, but nobody looks. *)
Signal ==
  /\ phase = "waiting"
  /\ Continue("loops")
  /\ UNCHANGED <<cfg, node, server>>

(* Stop: workerWg.Wait has returned, and GracefulStop begins. *)
StopTransport ==
  /\ phase = "loops" /\ \A l \in Loop : loop[l] \in {"none", "done"}
  /\ grpc' = IF cfg.p2p THEN "closing" ELSE grpc
  /\ Continue("graceful")
  /\ UNCHANGED <<cfg, node, known, loop, http, serving>>

(* The slip: grpc's Stop instead of GracefulStop. *)
ShutdownAtOnce ==
  /\ phase = "graceful"
  /\ grpc' = "none" /\ http' = "closing"
  /\ Continue("shutdown")
  /\ UNCHANGED <<cfg, node, known, loop, serving>>

(* The calls of peers are over; server.Shutdown closes the listener. *)
Shutdown ==
  /\ phase = "graceful" /\ calls = {}
  /\ grpc' = "none" /\ http' = "closing"
  /\ Continue("shutdown")
  /\ UNCHANGED <<cfg, node, known, loop, serving>>

Exit == phase = "shutdown" /\ requests = {} /\ End("clean")

(* Thirty seconds are over. *)
ShutdownTimesOut == phase = "shutdown" /\ requests # {} /\ End("failed")

Restart ==
  /\ phase \in Ended /\ starts < MaxStarts
  /\ phase' = "load"
  /\ starts' = starts + 1
  /\ cut' = {}
  /\ UNCHANGED <<input, cfg, node, server>>
------------------------------------------------------------------------------
Next ==
  \/ Load \/ LoadFails \/ Create \/ CreateFails \/ StartManager \/ StartFails
  \/ StartServer \/ Notify \/ Listen \/ ListenFails
  \/ \E l \in Loop : LoopBegins(l) \/ TickerPanics(l) \/ LoopEnds(l)
  \/ Discover \/ CheckBegins \/ CheckPanics \/ CheckEnds
  \/ \E r \in Request : RequestBegins(r) \/ RequestEnds(r)
  \/ \E c \in Call : CallBegins(c) \/ CallStalls(c) \/ CallEnds(c)
  \/ Kill \/ Signal \/ StopTransport \/ Shutdown \/ Exit \/ ShutdownTimesOut \/ Restart

Spec == Init /\ [][Next]_vars

(* main and the loops go on when they can; a call of a peer whose caller   *)
(* goes on reading, or is found gone by keepalive (grpc.go:71-78), ends,   *)
(* and nothing is assumed of one that is stalled; the pings of a check end *)
(* by their timeout; a loop that is told to stop and has a tick too picks  *)
(* either at random, and a request waits for healthMutex among others.     *)
Fairness ==
  /\ WF_vars(StopTransport) /\ WF_vars(Shutdown) /\ WF_vars(Exit \/ ShutdownTimesOut)
  /\ \A l \in Loop : WF_vars(LoopBegins(l) \/ TickerPanics(l)) /\ SF_vars(LoopEnds(l))
  /\ WF_vars(CheckEnds)
  /\ \A r \in Request : SF_vars(RequestEnds(r))
  /\ \A c \in Call : WF_vars(c \notin stalled /\ CallEnds(c))

FairSpec == Spec /\ Fairness
------------------------------------------------------------------------------
(* P2P is off in the file and on by OCTOSERVE_P2P_ENABLED: Validate has    *)
(* skipped all it would check of P2P when the variable turns it on.        *)
Forced == file.read = "parsed" /\ ~file.config.p2p /\ env.p2p = "true"

(* No configuration that went through Load makes the process panic, in     *)
(* NewTicker or in the pool of a health check, whichever variables are     *)
(* set, except where P2P is forced (config.go:284, 347-362, 420;           *)
(* manager.go:231, 252, 330).                                              *)
PanicsOnlyIfForced == phase = "panicked" => Forced

(* "discovery interval must be positive", "health check interval must be   *)
(* positive", "health check workers must be at least 1" (config.go:348,    *)
(* 354, 363): what needs that never panics.  Refuted where P2P is forced.  *)
NeverPanics == phase # "panicked"

(* The name an operator gave the node, or its host's. *)
GivenId ==
  CASE env.id # NoId -> env.id
    [] env.id = NoId /\ file.read = "parsed" /\ file.config.id # NoId -> file.config.id
    [] env.id = NoId /\ file.read = "parsed" /\ file.config.id = NoId /\ file.config.p2p -> HostName
    [] OTHER -> NoId

(* Peers know a node by its ID, also over restarts: a node that has a name *)
(* appears under it and no other at every start (config.go:294-300, 424;   *)
(* manager.go:45-48).  Where there is none, or P2P is on only by the       *)
(* environment so that Validate has not asked for the host's, every start  *)
(* makes up a new one.                                                     *)
IdentityKept == [][GivenId # NoId => node' \in {node, GivenId}]_vars

(* "Graceful shutdown - proper signal handling and cleanup" (README.md:13):*)
(* a process that ends with status 0 has broken off no request and no call *)
(* of a peer, those included that began while the manager was stopping     *)
(* (main.go:209-231, grpc.go:121-123).                                     *)
CleanExit == phase = "clean" => cut = {}

(* A signal that was caught ends the process, whatever the loops and the   *)
(* clients were doing, with health checks under way and calls that began   *)
(* while the manager stopped, provided that no call of a peer stays        *)
(* stalled for ever (main.go:203-231, manager.go:115-123, grpc.go:122).    *)
SignalEnds ==
  (\A c \in Call : []<>(c \notin stalled)) => (phase \in Stopping ~> phase \in Ended)

(* "Graceful shutdown - proper signal handling and cleanup" (README.md:13) *)
(* and main's "Graceful shutdown" of thirty seconds (main.go:212-214) have *)
(* the process end after a signal, without that proviso.                   *)
ShutdownIsBounded == phase \in Stopping ~> phase \in Ended

(* A request that wants healthy peers is served: no health check keeps     *)
(* healthMutex for ever.  Where P2P is forced the check may have no worker *)
(* and keep it until the process is told to stop (manager.go:330, 376).    *)
RequestsServed == \A r \in Request : r \in requests ~> r \notin requests \/ Forced
=============================================================================
