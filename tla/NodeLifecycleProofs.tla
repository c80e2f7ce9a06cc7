-------------------------- MODULE NodeLifecycleProofs --------------------------
(* Theorems about NodeLifecycle, for every set of configuration files and  *)
(* environments, every number of starts, requests and calls of peers.      *)
EXTENDS NodeLifecycle, TLAPS

(* Before the manager is started and after the end nothing runs. *)
Idle ==
  phase \in {"load", "configured", "created"} \cup Ended =>
    /\ known = {} /\ http = "none" /\ grpc = "none"
    /\ \A l \in Loop : loop[l] = "none"

TypeInv == TypeOK /\ Idle

(* What cfg has is sound where P2P is on, unless the environment has       *)
(* turned it on behind the back of Validate; only with P2P are there loops.*)
ConfigInv ==
  /\ TypeInv
  /\ cfg.p2p => Forced \/ (cfg.interval > 0 /\ cfg.workers >= 1)
  /\ \A l \in Loop : loop[l] # "none" => cfg.p2p
  /\ phase = "configured" => cfg = FromEnv(Loaded(file), env)
  /\ phase = "panicked" => Forced

(* When server.Shutdown runs, the calls of peers are over and none begins. *)
ExitInv ==
  /\ phase = "shutdown" => calls = {} /\ grpc = "none"
  /\ phase = "clean" => cut = {}
-----------------------------------------------------------------------------
LEMMA FileParts ==
  ASSUME NEW f \in File
  PROVE  f.read \in {"missing", "broken", "parsed"} /\ f.config \in Config
  BY FileAssumption

LEMMA EnvParts ==
  ASSUME NEW e \in Env
  PROVE  /\ e.p2p \in {"unset", "true", "other"} /\ e.id \in Id \cup {NoId}
         /\ e.peers \in SUBSET Address /\ e.method \in Method \cup {"unset"}
  BY EnvAssumption

(* Validate names a node that has no name, and leaves the rest. *)
LEMMA NamedKeeps ==
  ASSUME NEW c \in Config
  PROVE  /\ Named(c) \in Config
         /\ Named(c).p2p = c.p2p /\ Named(c).interval = c.interval
         /\ Named(c).workers = c.workers
         /\ Named(c).id = IF c.p2p /\ c.id = NoId THEN HostName ELSE c.id
<1>1. CASE c.p2p /\ c.id = NoId
  BY <1>1, HostNameAssumption DEF Named, Config
<1>2. CASE ~(c.p2p /\ c.id = NoId)
  BY <1>2 DEF Named
<1> QED
  BY <1>1, <1>2

(* What the environment changes, and what it leaves. *)
LEMMA FromEnvParts ==
  ASSUME NEW c \in Config, NEW e \in Env
  PROVE  /\ FromEnv(c, e) \in Config
         /\ FromEnv(c, e).p2p = IF e.p2p = "unset" THEN c.p2p ELSE e.p2p = "true"
         /\ FromEnv(c, e).id = IF e.id = NoId THEN c.id ELSE e.id
         /\ FromEnv(c, e).interval = c.interval
         /\ FromEnv(c, e).workers = c.workers
<1> DEFINE on == IF e.p2p = "unset" THEN c.p2p ELSE e.p2p = "true"
           id == IF e.id = NoId THEN c.id ELSE e.id
           peers == IF e.peers = {} THEN c.peers ELSE e.peers
           method == IF e.method = "unset" THEN c.method ELSE e.method
<1>1. on \in BOOLEAN /\ id \in Id \cup {NoId} /\ peers \in SUBSET Address /\ method \in Method
  BY EnvParts DEF Config
<1>2. FromEnv(c, e) = [c EXCEPT !.p2p = on, !.id = id, !.peers = peers, !.method = method]
  BY DEF FromEnv
<1> HIDE DEF on, id, peers, method
<1>3. /\ FromEnv(c, e) \in Config
      /\ FromEnv(c, e).p2p = on /\ FromEnv(c, e).id = id
      /\ FromEnv(c, e).interval = c.interval /\ FromEnv(c, e).workers = c.workers
  BY <1>1, <1>2 DEF Config
<1> QED
  BY <1>3 DEF on, id

LEMMA DefaultIsConfig ==
  /\ Default \in Config
  /\ Default.p2p = FALSE /\ Default.id = NoId /\ Default.interval = 15 /\ Default.workers = 10
  BY DEF Default, Config, Method

LEMMA LoadedIsConfig ==
  ASSUME NEW f \in File
  PROVE  Loaded(f) \in Config
  BY FileParts, NamedKeeps, DefaultIsConfig DEF Loaded

LEMMA StaticPeersAreIds ==
  ASSUME NEW c \in Config
  PROVE  StaticPeers(c) \subseteq Id
<1>1. c.peers \subseteq Address
  BY DEF Config
<1>2. \A a \in Address : PeerId(a) \in Id
  BY AddressAssumption, HostPortAssumption DEF PeerId
<1> QED
  BY <1>1, <1>2 DEF StaticPeers

LEMMA InitTypeInv == Init => TypeInv
  BY DefaultIsConfig, UuidAssumption
     DEF Init, TypeInv, TypeOK, Idle, Loop, Label, Starting

LEMMA EndIsIdle ==
  ASSUME TypeInv, NEW how \in Ended, End(how)
  PROVE  TypeInv'
  BY DEF End, TypeInv, TypeOK, Idle, Loop, Label, input

LEMMA TypeStep ==
  ASSUME TypeInv, [Next]_vars
  PROVE  TypeInv'
<1> USE DEF TypeInv, TypeOK, Idle, input, serving, server, Continue, Starting, Stopping, Ended, Loop, Label
<1>1. CASE Load
  <2>1. cfg' \in Config
    BY <1>1, LoadedIsConfig, FromEnvParts DEF Load
  <2> QED
    BY <1>1, <2>1 DEF Load
<1>2. CASE Create
  <2>1. node' \in Id \cup {NoId}
    BY <1>2, UuidAssumption DEF Create, Config
  <2>2. known = {}
    BY <1>2 DEF Create
  <2> QED
    BY <1>2, <2>1, <2>2 DEF Create
<1>3. CASE StartManager
  BY <1>3 DEF StartManager
<1>4. CASE StartServer \/ Notify \/ Listen \/ Signal \/ Shutdown
  BY <1>4 DEF StartServer, Notify, Listen, Signal, Shutdown
<1>5. CASE StopTransport
  BY <1>5 DEF StopTransport
<1>6. ASSUME NEW l \in Loop, LoopBegins(l) \/ LoopEnds(l) PROVE TypeInv'
  <2>1. phase \notin {"load", "configured", "created"} \cup Ended
    BY <1>6 DEF LoopBegins, LoopEnds
  <2>2. \E s \in {"select", "done"} : loop' = [loop EXCEPT ![l] = s]
    BY <1>6 DEF LoopBegins, LoopEnds, Goto
  <2> QED
    BY <1>6, <2>1, <2>2 DEF LoopBegins, LoopEnds, Goto
<1>7. CASE Discover
  <2>1. phase \notin {"load", "configured", "created"} \cup Ended
    BY <1>7 DEF Discover
  <2>2. StaticPeers(cfg) \subseteq Id
    BY StaticPeersAreIds
  <2> QED
    BY <1>7, <2>1, <2>2 DEF Discover, Goto
<1>8. CASE CheckBegins \/ CheckEnds
  <2>1. phase \notin {"load", "configured", "created"} \cup Ended
    BY <1>8 DEF CheckBegins, CheckEnds
  <2> QED
    BY <1>8, <2>1 DEF CheckBegins, CheckEnds, Goto
<1>9. ASSUME NEW r \in Request, RequestBegins(r) \/ RequestEnds(r) PROVE TypeInv'
  BY <1>9 DEF RequestBegins, RequestEnds, Serve
<1>10. ASSUME NEW c \in Call, CallBegins(c) \/ CallStalls(c) \/ CallEnds(c) PROVE TypeInv'
  BY <1>10 DEF CallBegins, CallStalls, CallEnds, Serve
<1>11. ASSUME NEW how \in Ended, End(how) PROVE TypeInv'
  BY <1>11, EndIsIdle
<1>12. CASE Restart
  BY <1>12, UuidAssumption DEF Restart
<1>13. CASE UNCHANGED vars
  BY <1>13 DEF vars
<1> QED
  BY <1>1, <1>2, <1>3, <1>4, <1>5, <1>6, <1>7, <1>8, <1>9, <1>10, <1>11, <1>12, <1>13
     DEF Next, LoadFails, CreateFails, StartFails, ListenFails, TickerPanics, CheckPanics, Kill,
         Exit, ShutdownTimesOut

(* The state of the process keeps its type; no node knows itself.          *)
THEOREM TypeCorrect == Spec => []TypeOK
<1>1. TypeInv /\ [Next]_vars => TypeInv'
  BY TypeStep
<1>2. TypeInv => TypeOK
  BY DEF TypeInv
<1> QED
  BY <1>1, <1>2, InitTypeInv, PTL DEF Spec
-----------------------------------------------------------------------------
(* Loading gives a configuration whose intervals and workers are sound,    *)
(* unless P2P is forced.                                                   *)
LEMMA LoadSound ==
  ASSUME file \in File, env \in Env, Loads(file), FromEnv(Loaded(file), env).p2p
  PROVE  \/ Forced
         \/ /\ FromEnv(Loaded(file), env).interval > 0
            /\ FromEnv(Loaded(file), env).workers >= 1
<1> DEFINE c == Loaded(file)
<1>1. c \in Config /\ env.p2p \in {"unset", "true", "other"}
  BY LoadedIsConfig, EnvParts
<1>2. /\ FromEnv(c, env).p2p = IF env.p2p = "unset" THEN c.p2p ELSE env.p2p = "true"
      /\ FromEnv(c, env).interval = c.interval /\ FromEnv(c, env).workers = c.workers
  BY <1>1, FromEnvParts
<1>3. CASE file.read = "missing"
  BY <1>2, <1>3, DefaultIsConfig DEF Loaded
<1>4. CASE file.read = "parsed"
  <2>1. c.p2p = file.config.p2p /\ c.interval = file.config.interval /\ c.workers = file.config.workers
    BY <1>4, FileParts, NamedKeeps DEF Loaded
  <2>2. CASE file.config.p2p
    BY <1>2, <1>4, <2>1, <2>2 DEF Loads, ValidP2P
  <2>3. CASE ~file.config.p2p
    BY <1>2, <1>4, <2>1, <2>3 DEF Forced
  <2> QED
    BY <2>2, <2>3
<1> QED
  BY <1>3, <1>4 DEF Loads

(* Every step keeps ConfigInv: only Load sets the configuration.           *)
LEMMA ConfigStep ==
  ASSUME ConfigInv, [Next]_vars
  PROVE  ConfigInv'
<1>1. TypeInv /\ TypeInv'
  BY TypeStep DEF ConfigInv
<1>2. UNCHANGED input /\ (Forced' <=> Forced)
  <2>1. UNCHANGED input
    BY DEF Next, vars, Load, LoadFails, Create, CreateFails, StartManager, StartFails,
           StartServer, Notify, Listen, ListenFails, LoopBegins, TickerPanics, LoopEnds, Discover,
           CheckBegins, CheckPanics, CheckEnds, RequestBegins, RequestEnds, CallBegins,
           CallStalls, CallEnds, Kill, Signal, StopTransport, Shutdown, Exit, ShutdownTimesOut, Restart, End, Continue,
           Goto, Serve, input
  <2> QED
    BY <2>1 DEF input, Forced
<1> USE DEF ConfigInv, Loop
<1>3. ASSUME UNCHANGED cfg, \A l \in Loop : loop'[l] # "none" => loop[l] # "none" \/ cfg.p2p,
             phase' = "configured" => phase = "configured",
             phase' = "panicked" => phase = "panicked" \/ Forced
      PROVE  ConfigInv'
  BY <1>1, <1>2, <1>3 DEF input
<1>4. CASE Load
  <2>1. /\ Loads(file) /\ file \in File /\ env \in Env /\ phase = "load"
        /\ cfg' = FromEnv(Loaded(file), env)
    BY <1>1, <1>4 DEF Load, TypeInv, TypeOK
  <2>2. cfg'.p2p => Forced' \/ (cfg'.interval > 0 /\ cfg'.workers >= 1)
    BY <1>2, <2>1, LoadSound
  <2>3. phase' = "configured" /\ loop' = loop /\ \A l \in Loop : loop[l] = "none"
    BY <1>1, <1>4 DEF Load, Continue, server, TypeInv, Idle
  <2> QED
    BY <1>1, <1>2, <2>1, <2>2, <2>3 DEF input
<1>5. CASE Create \/ StartServer \/ Notify \/ Listen \/ Signal \/ StopTransport \/ Shutdown \/ Restart
  BY <1>3, <1>5 DEF Create, StartServer, Notify, Listen, Signal, StopTransport, Shutdown, Restart,
                    Continue, server
<1>6. CASE StartManager
  BY <1>3, <1>6 DEF StartManager, Continue
<1>7. ASSUME NEW l \in Loop, LoopBegins(l) \/ LoopEnds(l) PROVE ConfigInv'
  <2>1. UNCHANGED <<cfg, phase>> /\ loop[l] # "none"
        /\ \A k \in Loop : k # l => loop'[k] = loop[k]
    BY <1>1, <1>7 DEF LoopBegins, LoopEnds, Goto, TypeInv, TypeOK
  <2> QED
    BY <1>3, <2>1
<1>8. CASE Discover \/ CheckBegins \/ CheckEnds
  <2>1. UNCHANGED <<cfg, phase>>
        /\ \E l \in Loop : loop[l] # "none" /\ \A k \in Loop : k # l => loop'[k] = loop[k]
    BY <1>1, <1>8 DEF Discover, CheckBegins, CheckEnds, Goto, TypeInv, TypeOK
  <2> QED
    BY <1>3, <2>1
<1>9. ASSUME NEW r \in Request, RequestBegins(r) \/ RequestEnds(r) PROVE ConfigInv'
  BY <1>3, <1>9 DEF RequestBegins, RequestEnds, Serve
<1>10. ASSUME NEW c \in Call, CallBegins(c) \/ CallStalls(c) \/ CallEnds(c) PROVE ConfigInv'
  BY <1>3, <1>10 DEF CallBegins, CallStalls, CallEnds, Serve
<1>11. ASSUME NEW how \in Ended, End(how), how = "panicked" => Forced PROVE ConfigInv'
  BY <1>3, <1>11 DEF End, Ended
<1>12. ASSUME NEW l \in Loop, TickerPanics(l) PROVE ConfigInv'
  <2>1. cfg.p2p /\ ~(cfg.interval > 0)
    BY <1>1, <1>12 DEF TickerPanics, TypeInv, TypeOK, Config
  <2> QED
    BY <1>11, <1>12, <2>1 DEF TickerPanics, Ended
<1>13. CASE CheckPanics
  <2>1. cfg.p2p /\ ~(cfg.workers >= 1)
    BY <1>1, <1>13 DEF CheckPanics, TypeInv, TypeOK, Config
  <2> QED
    BY <1>11, <1>13, <2>1 DEF CheckPanics, Ended
<1>14. CASE UNCHANGED vars
  BY <1>3, <1>14 DEF vars, server
<1> QED
  BY <1>4, <1>5, <1>6, <1>7, <1>8, <1>9, <1>10, <1>11, <1>12, <1>13, <1>14
     DEF Next, LoadFails, CreateFails, StartFails, ListenFails, Kill, Exit, ShutdownTimesOut, Ended

LEMMA ConfigInvariant == Spec => []ConfigInv
<1>1. Init => ConfigInv
  BY InitTypeInv, DefaultIsConfig DEF Init, ConfigInv
<1>2. ConfigInv /\ [Next]_vars => ConfigInv'
  BY ConfigStep
<1> QED
  BY <1>1, <1>2, PTL DEF Spec

(* No configuration that went through Load makes the process panic, except *)
(* where P2P is forced.                                                    *)
THEOREM PanicsOnlyIfForcedInvariant == Spec => []PanicsOnlyIfForced
<1>1. ConfigInv => PanicsOnlyIfForced
  BY DEF ConfigInv, PanicsOnlyIfForced
<1> QED
  BY <1>1, ConfigInvariant, PTL
-----------------------------------------------------------------------------
(* The manager takes the name from the configuration that Load left: where *)
(* the operator or the host gave one, that is it.                          *)
LEMMA GivenIsLoaded ==
  ASSUME file \in File, env \in Env, GivenId # NoId
  PROVE  FromEnv(Loaded(file), env).id = GivenId
<1> DEFINE c == Loaded(file)
<1>1. c \in Config
  BY LoadedIsConfig
<1>2. FromEnv(c, env).id = IF env.id = NoId THEN c.id ELSE env.id
  BY <1>1, FromEnvParts
<1>3. CASE env.id # NoId
  BY <1>2, <1>3 DEF GivenId
<1>4. CASE env.id = NoId
  <2>1. file.read = "parsed" /\ (file.config.id # NoId \/ file.config.p2p)
    BY <1>4 DEF GivenId
  <2>2. GivenId = IF file.config.id # NoId THEN file.config.id ELSE HostName
    BY <1>4, <2>1 DEF GivenId
  <2>3. c = Named(file.config) /\ file.config \in Config
    BY <2>1, FileParts DEF Loaded
  <2>4. c.id = IF file.config.p2p /\ file.config.id = NoId THEN HostName ELSE file.config.id
    BY <2>3, NamedKeeps
  <2> QED
    BY <1>2, <1>4, <2>1, <2>2, <2>4
<1> QED
  BY <1>3, <1>4

LEMMA IdentityStep ==
  ASSUME ConfigInv, [Next]_vars, GivenId # NoId
  PROVE  node' \in {node, GivenId}
<1>1. CASE Create
  <2>1. file \in File /\ env \in Env /\ cfg = FromEnv(Loaded(file), env)
    BY <1>1 DEF Create, ConfigInv, TypeInv, TypeOK
  <2>2. cfg.id = GivenId
    BY <2>1, GivenIsLoaded
  <2>3. cfg.p2p \in BOOLEAN
    BY DEF ConfigInv, TypeInv, TypeOK, Config
  <2> QED
    BY <1>1, <2>2, <2>3 DEF Create
<1>2. CASE ~Create
  <2>1. node' = node
    BY <1>2 DEF Next, vars, Load, LoadFails, CreateFails, StartManager, StartFails, StartServer,
           Notify, Listen, ListenFails, LoopBegins, TickerPanics, LoopEnds, Discover, CheckBegins,
           CheckPanics, CheckEnds, RequestBegins, RequestEnds, CallBegins, CallStalls, CallEnds, Kill,
           Signal,
           StopTransport, Shutdown, Exit, ShutdownTimesOut, Restart, End, Continue, Goto, Serve
  <2> QED
    BY <2>1
<1> QED
  BY <1>1, <1>2

(* A node that has a name appears under it and no other at every start. *)
THEOREM IdentityKeptProperty == Spec => IdentityKept
<1>1. ConfigInv /\ [Next]_vars => [GivenId # NoId => node' \in {node, GivenId}]_vars
  BY IdentityStep
<1> QED
  BY <1>1, ConfigInvariant, PTL DEF Spec, IdentityKept
-----------------------------------------------------------------------------
LEMMA ExitStep ==
  ASSUME ExitInv, [Next]_vars
  PROVE  ExitInv'
<1> USE DEF ExitInv, input, serving, server, Continue
<1>1. ASSUME UNCHANGED <<phase, cut>>, calls' \subseteq calls \/ grpc # "none",
             grpc' = grpc
      PROVE  ExitInv'
  BY <1>1
<1>2. ASSUME phase' \notin {"shutdown", "clean"} PROVE ExitInv'
  BY <1>2
<1>3. ASSUME NEW how \in Ended, End(how), how # "clean" PROVE ExitInv'
  BY <1>3 DEF End, Ended
<1>4. CASE Load \/ Create \/ StartManager \/ StartServer \/ Notify \/ Signal \/ StopTransport \/ Restart
  BY <1>2, <1>4 DEF Load, Create, StartManager, StartServer, Notify, Signal, StopTransport, Restart
<1>5. CASE Shutdown
  BY <1>5 DEF Shutdown
<1>6. CASE Exit
  BY <1>6 DEF Exit, End
<1>7. CASE Listen \/ Discover \/ CheckBegins \/ CheckEnds
  BY <1>1, <1>7 DEF Listen, Discover, CheckBegins, CheckEnds, Goto
<1>8. ASSUME NEW l \in Loop, LoopBegins(l) \/ LoopEnds(l) PROVE ExitInv'
  BY <1>1, <1>8 DEF LoopBegins, LoopEnds, Goto
<1>9. ASSUME NEW r \in Request, RequestBegins(r) \/ RequestEnds(r) PROVE ExitInv'
  BY <1>1, <1>9 DEF RequestBegins, RequestEnds, Serve
<1>10. ASSUME NEW c \in Call, CallBegins(c) \/ CallStalls(c) \/ CallEnds(c) PROVE ExitInv'
  BY <1>1, <1>10 DEF CallBegins, CallStalls, CallEnds, Serve
<1>11. CASE UNCHANGED vars
  BY <1>11 DEF vars
<1> QED
  BY <1>3, <1>4, <1>5, <1>6, <1>7, <1>8, <1>9, <1>10, <1>11
     DEF Next, LoadFails, CreateFails, StartFails, ListenFails, TickerPanics, CheckPanics, Kill,
         ShutdownTimesOut, Ended

(* A process that ends with status 0 has broken off nothing. *)
THEOREM CleanExitInvariant == Spec => []CleanExit
<1>1. Init => ExitInv
  BY DEF Init, ExitInv
<1>2. ExitInv /\ [Next]_vars => ExitInv'
  BY ExitStep
<1>3. ExitInv => CleanExit
  BY DEF ExitInv, CleanExit
<1> QED
  BY <1>1, <1>2, <1>3, PTL DEF Spec
=============================================================================
