-------------------------- MODULE DistributedStore --------------------------
(***************************************************************************)
(* The blobs and manifests of a cluster: each node wraps its filesystem    *)
(* store in distributed.Store, which asks peers for what it does not have, *)
(* keeps a copy of what they send, and sends what clients put to peers.    *)
(* The store of a node is reduced to what BlobStore and ManifestStore      *)
(* establish of it: a put is done or fails, and other nodes' calls reach   *)
(* it directly (the gRPC server has the filesystem store, main.go:77).     *)
(*                                                                         *)
(* A Request is one HTTP request at one node.  A put starts a goroutine,   *)
(* its task, that sends the content to peers and is not waited for.  The   *)
(* task uses the context of the request, which net/http cancels when the   *)
(* handler returns.  Any call to a peer can fail at any time, and what the *)
(* P2P manager says of the peers' health is arbitrary here.                *)
(***************************************************************************)
EXTENDS Integers, FiniteSets

CONSTANTS
  Node,
  Peers,              \* [Node -> SUBSET Node]: peers that the node's manager knows
  Blob,               \* digests of blobs
  Small,              \* blobs of less than 1 MiB
  Tag,                \* manifest references that are tags
  Manifest,           \* documents; also the references that are digests
  Strategy,           \* p2p.replication.strategy
  ReplicationFactor,  \* p2p.replication.factor
  Request,
  None

ASSUME PeersAssumption == Peers \in [Node -> SUBSET Node]
ASSUME FactorAssumption == ReplicationFactor \in Int
ASSUME KeyAssumption == Blob \cap (Tag \cup Manifest) = {} /\ Tag \cap Manifest = {}
ASSUME NoneAssumption == None \notin Node \cup Blob \cup Tag \cup Manifest

(* The peers of a node are in a Go map (manager.go:28). *)
ASSUME FinitePeersAssumption == \A n \in Node : IsFiniteSet(Peers[n])

Ref == Tag \cup Manifest
Key == Blob \cup Ref
Content == Blob \cup Manifest

VARIABLES
  store,    \* [Node -> [Key -> Content or None]]
  pc,       \* [Request -> Label]
  op,       \* [Request -> Op]
  at,       \* [Request -> Node]: the node that serves it
  key,      \* [Request -> Key]
  val,      \* [Request -> Content or None]: what a peer sent
  asking,   \* [Request -> SUBSET Node]: peers that have not said whether they have it
  have,     \* [Request -> SUBSET Node]: peers that said so and were not tried yet
  replied,  \* requests whose handler has returned: their context is cancelled
  task      \* [Request -> Task or None]: the goroutine the put started

(* History, for the properties. *)
VARIABLES
  steady,   \* [Request -> SUBSET Node]: nodes that had it all along and failed no call
  excused,  \* blobs whose replication met an unhealthy peer, a failed call or a DELETE
  last,     \* [Tag -> Manifest or None]: the last put, if nothing overlapped it
  missed    \* [Tag -> SUBSET Node]: nodes that this put did not reach

requestVars == <<op, at, key>>
searchVars == <<asking, have>>
tagHistory == <<last, missed>>
vars == <<store, pc, requestVars, val, searchVars, replied, task, steady, excused, tagHistory>>

Op == {"get", "head", "delete", "put", "upload"}
Outcome == {"ok", "notfound", "error", "dead"}
Label == Outcome \cup {"new", "exists", "probe", "local", "search", "fetch", "cache", "reread",
                       "size", "delete"}
Task == [stage : {"read", "send"}, val : Content, to : SUBSET Node, sent : SUBSET Node]

ASSUME TaskAssumption == None \notin Task

(* findPeersWithBlobDirect, findPeersWithManifest: all peers at once. *)
Asking(p) == pc[p] \in {"probe", "search"}

TypeOK ==
  /\ store \in [Node -> [Key -> Content \cup {None}]]
  /\ pc \in [Request -> Label]
  /\ op \in [Request -> Op]
  /\ at \in [Request -> Node \cup {None}]
  /\ key \in [Request -> Key \cup {None}]
  /\ val \in [Request -> Content \cup {None}]
  /\ asking \in [Request -> SUBSET Node]
  /\ have \in [Request -> SUBSET Node]
  /\ replied \in SUBSET Request
  /\ task \in [Request -> Task \cup {None}]
  /\ steady \in [Request -> SUBSET Node]
  /\ excused \in SUBSET Blob
  /\ last \in [Tag -> Manifest \cup {None}]
  /\ missed \in [Tag -> SUBSET Node]
  /\ \A p \in Request : Asking(p) \/ pc[p] \in {"fetch", "cache"} =>
                       asking[p] \cup have[p] \subseteq Peers[at[p]]

Init ==
  /\ store = [n \in Node |-> [k \in Key |-> None]]
  /\ pc = [p \in Request |-> "new"]
  /\ op = [p \in Request |-> "get"]
  /\ at = [p \in Request |-> None] /\ key = [p \in Request |-> None]
  /\ val = [p \in Request |-> None]
  /\ asking = [p \in Request |-> {}] /\ have = [p \in Request |-> {}]
  /\ replied = {}
  /\ task = [p \in Request |-> None]
  /\ steady = [p \in Request |-> {}]
  /\ excused = {}
  /\ last = [t \in Tag |-> None] /\ missed = [t \in Tag |-> {}]

Has(n, k) == store[n][k] # None
Holders(k) == {n \in Node : Has(n, k)}
HasHere(p) == Has(at[p], key[p])
Goto(p, label) == pc' = [pc EXCEPT ![p] = label]
Set(n, k, v) == store' = [store EXCEPT ![n][k] = v]

(* The task of p is still to send the key k. *)
Sending(p, k) == task[p] # None /\ key[p] = k

(* p missed k in its own store and has not finished getting it from a peer. *)
Pulling(p, k) == pc[p] \in {"search", "fetch", "cache"} /\ key[p] = k
------------------------------------------------------------------------------
(* A request that reads or deletes: blobs.go, manifests.go. *)

Begin(p, o, n, k, label) ==
  /\ pc[p] = "new"
  /\ Goto(p, label)
  /\ op' = [op EXCEPT ![p] = o]
  /\ at' = [at EXCEPT ![p] = n]
  /\ key' = [key EXCEPT ![p] = k]
  /\ steady' = [steady EXCEPT ![p] = Holders(k) \cap (Peers[n] \cup {n})]
  /\ UNCHANGED <<store, val, searchVars, replied, task, excused, tagHistory>>

GetBlob(p, n, b) == Begin(p, "get", n, b, "exists")
HeadBlob(p, n, b) == Begin(p, "head", n, b, "exists")
DeleteBlob(p, n, b) == Begin(p, "delete", n, b, "exists")
GetManifest(p, n, r) == Begin(p, "get", n, r, "local")
HeadManifest(p, n, r) == Begin(p, "head", n, r, "exists")
DeleteManifest(p, n, r) == Begin(p, "delete", n, r, "exists")

(* Where a handler goes once BlobExists or ManifestExists said yes. *)
Existing(p) ==
  CASE op[p] = "delete" -> "delete"
    [] op[p] = "head" /\ key[p] \in Blob -> "size"
    [] OTHER -> "local"

(* What it answers when nobody has it.  Only for BlobExists, ManifestExists *)
(* and the GET of a manifest is that 404.                                   *)
Nowhere(p) ==
  IF pc[p] = "probe" \/ (op[p] = "get" /\ key[p] \in Ref) THEN "notfound" ELSE "error"

(* The slip: the node itself is asked too. *)
AskEverybody(p) ==
  /\ asking' = [asking EXCEPT ![p] = Peers[at[p]] \cup {at[p]}]
  /\ have' = [have EXCEPT ![p] = {}]

AskPeers(p) ==
  /\ asking' = [asking EXCEPT ![p] = Peers[at[p]]]
  /\ have' = [have EXCEPT ![p] = {}]

(* BlobExists, ManifestExists: a peer that has it is as good. *)
Exists(p) ==
  /\ pc[p] = "exists"
  /\ \/ HasHere(p) /\ Goto(p, Existing(p)) /\ UNCHANGED searchVars
     \/ ~HasHere(p) /\ Goto(p, "probe") /\ AskPeers(p)
  /\ UNCHANGED <<store, requestVars, val, replied, task, steady, excused, tagHistory>>

(* GetBlob, GetManifest of the store. *)
Local(p) ==
  /\ pc[p] = "local"
  /\ \/ /\ HasHere(p)
        /\ Goto(p, IF key[p] \in Blob THEN "size" ELSE "ok")
        /\ UNCHANGED <<searchVars, last>>
     \/ /\ ~HasHere(p)
        /\ Goto(p, "search")
        /\ AskPeers(p)
        /\ last' = [t \in Tag |-> IF t = key[p] /\ \E q \in Request : Sending(q, t)
                                  THEN None ELSE last[t]]
  /\ UNCHANGED <<store, requestVars, val, replied, task, steady, excused, missed>>

(* Each peer says whether it has it, ... *)
Answer(p, q) ==
  /\ Asking(p) /\ q \in asking[p]
  /\ asking' = [asking EXCEPT ![p] = @ \ {q}]
  /\ have' = [have EXCEPT ![p] = IF Has(q, key[p]) THEN @ \cup {q} ELSE @]
  /\ UNCHANGED <<store, pc, requestVars, val, replied, task, steady, excused, tagHistory>>

(* ... or the call fails. *)
AnswerFails(p, q) ==
  /\ Asking(p) /\ q \in asking[p]
  /\ asking' = [asking EXCEPT ![p] = @ \ {q}]
  /\ steady' = [steady EXCEPT ![p] = @ \ {q}]
  /\ UNCHANGED <<store, pc, requestVars, val, have, replied, task, excused, tagHistory>>

(* RequestTimeout, or the client is gone: the peers found so far are       *)
(* forgotten as well.                                                      *)
TimesOut(p) ==
  /\ Asking(p) /\ asking[p] # {}
  /\ Goto(p, Nowhere(p))
  /\ asking' = [asking EXCEPT ![p] = {}] /\ have' = [have EXCEPT ![p] = {}]
  /\ steady' = [steady EXCEPT ![p] = {}]
  /\ UNCHANGED <<store, requestVars, val, replied, task, excused, tagHistory>>

Answered(p) ==
  /\ Asking(p) /\ asking[p] = {}
  /\ \/ have[p] = {} /\ Goto(p, Nowhere(p)) /\ UNCHANGED have
     \/ /\ have[p] # {} /\ pc[p] = "probe"
        /\ Goto(p, Existing(p))
        /\ have' = [have EXCEPT ![p] = {}]
     \/ have[p] # {} /\ pc[p] = "search" /\ Goto(p, "fetch") /\ UNCHANGED have
  /\ UNCHANGED <<store, requestVars, val, asking, replied, task, steady, excused, tagHistory>>

(* RequestBlob, RequestManifest. *)
Fetch(p, q) ==
  /\ pc[p] = "fetch" /\ q \in have[p]
  /\ Has(q, key[p])
  /\ Goto(p, "cache")
  /\ have' = [have EXCEPT ![p] = @ \ {q}]
  /\ val' = [val EXCEPT ![p] = store[q][key[p]]]
  /\ UNCHANGED <<store, requestVars, asking, replied, task, steady, excused, tagHistory>>

(* The slip of FetchFails: the first peer that fails ends the search. *)
FetchFailsAtOnce(p, q) ==
  /\ pc[p] = "fetch" /\ q \in have[p]
  /\ Goto(p, Nowhere(p))
  /\ have' = [have EXCEPT ![p] = {}]
  /\ steady' = [steady EXCEPT ![p] = @ \ {q}]
  /\ UNCHANGED <<store, requestVars, val, asking, replied, task, excused, tagHistory>>

FetchFails(p, q) ==
  /\ pc[p] = "fetch" /\ q \in have[p]
  /\ have' = [have EXCEPT ![p] = @ \ {q}]
  /\ steady' = [steady EXCEPT ![p] = @ \ {q}]
  /\ UNCHANGED <<store, pc, requestVars, val, asking, replied, task, excused, tagHistory>>

NoneLeft(p) ==
  /\ pc[p] = "fetch" /\ have[p] = {}
  /\ Goto(p, Nowhere(p))
  /\ UNCHANGED <<store, requestVars, val, searchVars, replied, task, steady, excused, tagHistory>>

(* The slip: a manifest is kept under the digest of what came. *)
CacheByDigest(p) ==
  /\ pc[p] = "cache"
  /\ Set(at[p], val[p], val[p])
  /\ Goto(p, IF key[p] \in Blob THEN "reread" ELSE "ok")
  /\ val' = [val EXCEPT ![p] = None]
  /\ have' = [have EXCEPT ![p] = IF key[p] \in Blob THEN @ ELSE {}]
  /\ UNCHANGED <<requestVars, asking, replied, task, steady, excused, tagHistory>>

(* What was fetched goes to the node's own store, under the reference it   *)
(* was asked for; the digest does not travel (json:"-").                   *)
Cache(p) ==
  /\ pc[p] = "cache"
  /\ Set(at[p], key[p], val[p])
  /\ Goto(p, IF key[p] \in Blob THEN "reread" ELSE "ok")
  /\ val' = [val EXCEPT ![p] = None]
  /\ have' = [have EXCEPT ![p] = IF key[p] \in Blob THEN @ ELSE {}]
  /\ UNCHANGED <<requestVars, asking, replied, task, steady, excused, tagHistory>>

(* A manifest is returned all the same; a blob is asked of the next peer. *)
CacheFails(p) ==
  /\ pc[p] = "cache"
  /\ Goto(p, IF key[p] \in Blob THEN "fetch" ELSE "ok")
  /\ val' = [val EXCEPT ![p] = None]
  /\ have' = [have EXCEPT ![p] = IF key[p] \in Blob THEN @ ELSE {}]
  /\ steady' = [steady EXCEPT ![p] = {}]
  /\ UNCHANGED <<store, requestVars, asking, replied, task, excused, tagHistory>>

Reread(p) ==
  /\ pc[p] = "reread"
  /\ Goto(p, IF HasHere(p) THEN "size" ELSE "error")
  /\ have' = [have EXCEPT ![p] = {}]
  /\ UNCHANGED <<store, requestVars, val, asking, replied, task, steady, excused, tagHistory>>

(* GetBlobSize, of the node's own store only. *)
Size(p) ==
  /\ pc[p] = "size"
  /\ Goto(p, IF HasHere(p) THEN "ok" ELSE "error")
  /\ UNCHANGED <<store, requestVars, val, searchVars, replied, task, steady, excused, tagHistory>>

(* Only the node's own copy is removed; where there is none, 202 too. *)
Delete(p) ==
  /\ pc[p] = "delete"
  /\ Goto(p, "ok")
  /\ Set(at[p], key[p], None)
  /\ \/ /\ HasHere(p)
        /\ steady' = [r \in Request |-> IF key[r] # key[p] THEN steady[r]
                                        ELSE IF at[r] = at[p] THEN {} ELSE steady[r] \ {at[p]}]
        /\ excused' = excused \cup (Blob \cap {key[p]})
        /\ missed' = [t \in Tag |-> IF t = key[p] THEN missed[t] \cup {at[p]} ELSE missed[t]]
     \/ ~HasHere(p) /\ UNCHANGED <<steady, excused, missed>>
  /\ UNCHANGED <<requestVars, val, searchVars, replied, task, last>>
------------------------------------------------------------------------------
(* A request that puts. *)

(* PutBlob of the store: hybrid looks at the size of what it stored, lazy  *)
(* leaves the blob where it is, any other word means eager.                *)
Replicates(b) ==
  /\ Strategy # "lazy"
  /\ Strategy = "hybrid" => b \in Small

NewTask(v) == [stage |-> "read", val |-> v, to |-> {}, sent |-> {}]

Put(p, o, n, k) ==
  /\ pc[p] = "new"
  /\ Goto(p, "ok")
  /\ op' = [op EXCEPT ![p] = o]
  /\ at' = [at EXCEPT ![p] = n]
  /\ key' = [key EXCEPT ![p] = k]
  /\ UNCHANGED <<val, searchVars, replied, steady, excused>>

(* POST with a digest. *)
PutBlob(p, n, b) ==
  /\ Put(p, "put", n, b)
  /\ Set(n, b, b)
  /\ task' = [task EXCEPT ![p] = IF Replicates(b) THEN NewTask(b) ELSE None]
  /\ UNCHANGED tagHistory

(* PUT of an upload session: CompleteUpload of the node's own store. *)
CompleteUpload(p, n, b) ==
  /\ Put(p, "upload", n, b)
  /\ Set(n, b, b)
  /\ UNCHANGED <<task, tagHistory>>

(* By tag, and then by digest too. *)
PutManifest(p, n, r, m) ==
  /\ Put(p, "put", n, r)
  /\ store' = [store EXCEPT ![n][r] = m, ![n][IF r \in Tag THEN m ELSE r] = m]
  /\ task' = [task EXCEPT ![p] = NewTask(m)]
  /\ last' = [t \in Tag |->
                IF t # r THEN last[t]
                ELSE IF \E q \in Request : Sending(q, t) \/ Pulling(q, t) THEN None ELSE m]
  /\ missed' = [t \in Tag |-> IF t = r THEN Node \ (Peers[n] \cup {n}) ELSE missed[t]]

(* The handler returns, and the context of its goroutines is cancelled. *)
Reply(p) ==
  /\ pc[p] \in Outcome /\ p \notin replied
  /\ replied' = replied \cup {p}
  /\ steady' = [steady EXCEPT ![p] = {}]
  /\ UNCHANGED <<store, pc, requestVars, val, searchVars, task, excused, tagHistory>>
------------------------------------------------------------------------------
(* The task: replicateBlobToPeers, replicateManifestToPeers. *)

Least(a, b) == IF a <= b THEN a ELSE b

Copies == IF ReplicationFactor <= 0 THEN 1 ELSE ReplicationFactor

(* The slip of Targets: the factor is not looked at. *)
TargetsAll(k, healthy) == {healthy}

(* The slip: or it is for manifests too. *)
TargetsFactor(k, healthy) ==
  {to \in SUBSET healthy : Cardinality(to) = Least(Copies, Cardinality(healthy))}

(* selectReplicationTargets takes the first healthy peers, in the order of *)
(* a Go map; a manifest goes to all of them.                               *)
Targets(k, healthy) ==
  IF k \in Ref THEN {healthy}
  ELSE {to \in SUBSET healthy : Cardinality(to) = Least(Copies, Cardinality(healthy))}

SetTask(p, to, sent) ==
  task' = [task EXCEPT ![p] = IF to \cup sent = {} THEN None
                              ELSE [@ EXCEPT !.stage = "send", !.to = to, !.sent = sent]]

Excuse(b) == excused' = excused \cup (Blob \cap {b})
Miss(k, nodes) == missed' = [t \in Tag |-> IF t = k THEN missed[t] \cup nodes ELSE missed[t]]

(* A blob is read again, a manifest is passed along; then the peers. *)
SelectTargets(p) ==
  /\ task[p] # None /\ task[p].stage = "read"
  /\ \/ /\ key[p] \in Blob /\ ~HasHere(p)
        /\ SetTask(p, {}, {})
        /\ UNCHANGED <<excused, missed>>
     \/ /\ key[p] \in Ref \/ HasHere(p)
        /\ \E healthy \in SUBSET Peers[at[p]] : \E to \in Targets(key[p], healthy) :
             /\ SetTask(p, to, {})
             /\ IF healthy # Peers[at[p]] THEN Excuse(key[p]) ELSE UNCHANGED excused
             /\ Miss(key[p], Peers[at[p]] \ healthy)
  /\ UNCHANGED <<store, pc, requestVars, val, searchVars, replied, steady, last>>

(* gRPC begins no call with a cancelled context. *)
SendBegins(p, q) ==
  /\ task[p] # None /\ q \in task[p].to
  /\ p \notin replied
  /\ SetTask(p, task[p].to \ {q}, task[p].sent \cup {q})
  /\ UNCHANGED <<store, pc, requestVars, val, searchVars, replied, steady, excused, tagHistory>>

(* A call that has begun may still be served. *)
Delivered(p, q) ==
  /\ task[p] # None /\ q \in task[p].sent
  /\ Set(q, key[p], task[p].val)
  /\ SetTask(p, task[p].to, task[p].sent \ {q})
  /\ UNCHANGED <<pc, requestVars, val, searchVars, replied, steady, excused, tagHistory>>

(* A failure is logged; nothing tries again. *)
SendFails(p, q) ==
  /\ task[p] # None /\ q \in task[p].to \cup task[p].sent
  /\ SetTask(p, task[p].to \ {q}, task[p].sent \ {q})
  /\ IF p \notin replied THEN Excuse(key[p]) ELSE UNCHANGED excused
  /\ Miss(key[p], {q})
  /\ UNCHANGED <<store, pc, requestVars, val, searchVars, replied, steady, last>>

(* The process of a node dies: its requests and tasks are gone, and nobody *)
(* takes them up again.                                                    *)
Crash(n) ==
  LET lost == {p \in Request : at[p] = n /\ (task[p] # None \/
                                             (pc[p] # "new" /\ p \notin replied))}
      unsent(t) == UNION {IF Sending(p, t) THEN Peers[n] ELSE {} : p \in lost}
  IN
  /\ lost # {}
  /\ pc' = [p \in Request |-> IF p \in lost /\ pc[p] \notin Outcome THEN "dead" ELSE pc[p]]
  /\ replied' = replied \cup lost
  /\ task' = [p \in Request |-> IF p \in lost THEN None ELSE task[p]]
  /\ val' = [p \in Request |-> IF p \in lost THEN None ELSE val[p]]
  /\ asking' = [p \in Request |-> IF p \in lost THEN {} ELSE asking[p]]
  /\ have' = [p \in Request |-> IF p \in lost THEN {} ELSE have[p]]
  /\ steady' = [p \in Request |-> IF p \in lost THEN {} ELSE steady[p]]
  /\ excused' = excused \cup {b \in Blob : \E p \in lost : Sending(p, b)}
  /\ missed' = [t \in Tag |-> missed[t] \cup unsent(t)]
  /\ UNCHANGED <<store, requestVars, last>>

HandlerStep(p) ==
  \/ Exists(p) \/ Local(p) \/ TimesOut(p) \/ Answered(p) \/ NoneLeft(p)
  \/ Cache(p) \/ CacheFails(p) \/ Reread(p) \/ Size(p) \/ Delete(p) \/ Reply(p)
  \/ \E q \in Node : Answer(p, q) \/ AnswerFails(p, q) \/ Fetch(p, q) \/ FetchFails(p, q)

TaskStep(p) ==
  \/ SelectTargets(p)
  \/ \E q \in Node : SendBegins(p, q) \/ Delivered(p, q) \/ SendFails(p, q)

Arrives(p) ==
  \E n \in Node :
    \/ \E b \in Blob : \/ GetBlob(p, n, b) \/ HeadBlob(p, n, b) \/ DeleteBlob(p, n, b)
                       \/ PutBlob(p, n, b) \/ CompleteUpload(p, n, b)
    \/ \E r \in Ref : GetManifest(p, n, r) \/ HeadManifest(p, n, r) \/ DeleteManifest(p, n, r)
    \/ \E r \in Ref, m \in Manifest : PutManifest(p, n, r, m)

Next ==
  \/ \E p \in Request : Arrives(p) \/ HandlerStep(p) \/ TaskStep(p)
  \/ \E n \in Node : Crash(n)

Spec == Init /\ [][Next]_vars
------------------------------------------------------------------------------
(* A GET finds what its node or a peer of it has all along, unless a call  *)
(* to that peer failed, the search timed out or somebody deleted the copy  *)
(* on the node that serves it: peers that fail, or lost it since they said *)
(* they have it, do not end the search (getBlobFromPeers, store.go:329).   *)
GetFinds ==
  \A p \in Request : op[p] = "get" /\ pc[p] \in {"notfound", "error"} => steady[p] = {}

(* A blob is on no more nodes than clients put it on or asked for it, and  *)
(* the replication factor of each put that replicates: other than by these *)
(* it does not spread (selectReplicationTargets, store.go:595-619).        *)
BoundedSpread ==
  \A b \in Blob :
    LET served == {p \in Request : key[p] = b /\ pc[p] # "new"}
        pushes == {p \in served : op[p] = "put" /\ Replicates(b)}
    IN Cardinality(Holders(b) \ {at[p] : p \in served}) <= Copies * Cardinality(pushes)

(* "Manifests are critical, so we always replicate eagerly" (store.go:169):*)
(* after a put of a tag that overlapped no other put and no pull of it     *)
(* every node that its task reached, and from which the tag was not        *)
(* deleted, has that manifest, whatever the nodes had before.              *)
SerialPutsAgree ==
  \A t \in Tag : last[t] # None /\ (\A p \in Request : ~Sending(p, t)) =>
     \A n \in Node \ missed[t] : store[n][t] = last[t]

(* "Replicate to peers for consistency" (store.go:168), "eventual" in the  *)
(* configuration (README.md:70): when the tasks and pulls of a tag are     *)
(* over, and since its last put no node was missed, and none lost it to a  *)
(* DELETE, all nodes have the same.  Refuted: the manifests of two puts    *)
(* are delivered in any order, and whatever comes last stays.              *)
PutsAgree ==
  \A t \in Tag : missed[t] = {} /\ (\A p \in Request : ~Sending(p, t) /\ ~Pulling(p, t)) =>
     \A n, k \in Node : store[n][t] = store[k][t]

(* "HEAD: Check blob exists" (README.md:290) of a blob that the node or a  *)
(* peer has all along, and whose calls do not fail.  Refuted: HEAD asks    *)
(* peers whether it exists, and only the node itself for its size.         *)
HeadFinds ==
  \A p \in Request : op[p] = "head" /\ pc[p] \in {"notfound", "error"} => steady[p] = {}

(* "Eager: content is replicated immediately upon write" (README.md:238).  *)
(* Refuted: the replication of a blob runs with the context of a request   *)
(* that is already over.                                                   *)
EagerReplicates ==
  \A b \in Blob \ excused :
     (\E p \in Request : op[p] = "put" /\ key[p] = b /\ Replicates(b)) /\
     (\A p \in Request : ~Sending(p, b))
     => Cardinality(Holders(b)) > 1

(* The copies under way: what a request has from a peer and is about to    *)
(* keep, and what the tasks have still to send.                            *)
Bound(p) == IF task[p].stage = "read" THEN Peers[at[p]] ELSE task[p].to \cup task[p].sent

UnderWay ==
  {<<at[p], key[p], val[p]>> : p \in {r \in Request : pc[r] = "cache"}} \cup
  UNION {{<<q, key[p], task[p].val>> : q \in Bound(p)} : p \in {r \in Request : task[r] # None}}

Begun == {p \in Request : pc[p] # "new"}

Doomed == {<<at[p], key[p]>> : p \in {r \in Begun : op[r] = "delete" /\ pc[r] \notin Outcome}}

Network == INSTANCE ContentNetwork
           WITH afloat <- UnderWay, begun <- Begun, doomed <- Doomed

(* However searches, pulls, replications, failures and crashes interleave, *)
(* the nodes only exchange copies of what clients put: nothing is kept     *)
(* under another key than it was put under, comes from nowhere, goes to a  *)
(* node that has no part in it, or leaves a node that was not asked to     *)
(* delete it (getBlobFromPeers, getManifestFromPeers, replicateBlobToPeers,*)
(* replicateManifestToPeers, store.go:313-361, 412-447, 449-592).          *)
ImplementsContentNetwork == Network!Spec
=============================================================================
