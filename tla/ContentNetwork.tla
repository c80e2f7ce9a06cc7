--------------------------- MODULE ContentNetwork ---------------------------
(***************************************************************************)
(* What a cluster of registries promises its clients: nodes hold content   *)
(* under keys and send each other copies over a network that may lose,     *)
(* delay and repeat them, but that makes nothing up.  Content comes into   *)
(* the cluster by a client's put only, goes from a node to those that have *)
(* it for a peer, under the key it was put under, and leaves a node only   *)
(* when a client asks that node to delete it.                              *)
(***************************************************************************)
CONSTANTS
  Node,
  Peers,     \* [Node -> SUBSET Node]
  Blob,      \* content that is its own key
  Tag,       \* keys of manifests that are not their own
  Manifest,
  Request,   \* of clients; each comes once
  None       \* what a node holds under a key that it has nothing for

VARIABLES
  store,     \* [Node -> [Key -> Content or None]]
  afloat,    \* copies under way: <<node, key, content>>
  begun,     \* requests that have come
  doomed     \* what nodes are asked to delete: <<node, key>>

contents == <<store, afloat, begun, doomed>>

Name == Tag \cup Manifest

Init ==
  /\ store = [n \in Node |-> [k \in Blob \cup Name |-> None]]
  /\ afloat = {} /\ begun = {} /\ doomed = {}

Comes(p) == p \notin begun /\ begun' = begun \cup {p}

(* What is put under a tag can be had by its digest too, from that node;   *)
(* copies go to the node's peers or to nobody.                             *)
Put(p, n, k, v) ==
  /\ Comes(p)
  /\ store' = [store EXCEPT ![n][k] = v, ![n][IF k \in Tag THEN v ELSE k] = v]
  /\ \E to \in {{}, Peers[n]} : afloat' = afloat \cup {<<q, k, v>> : q \in to}
  /\ UNCHANGED doomed

(* A request that reads or deletes. *)
Ask(p, n, k) ==
  /\ Comes(p)
  /\ doomed' \in {doomed, doomed \cup {<<n, k>>}}
  /\ UNCHANGED <<store, afloat>>

(* A node that has q for a peer asks it for a copy. *)
Send(q, n, k) ==
  /\ q \in Peers[n] /\ store[q][k] # None
  /\ afloat' = afloat \cup {<<n, k, store[q][k]>>}
  /\ UNCHANGED <<store, begun, doomed>>

Receive(n, k, v) ==
  /\ <<n, k, v>> \in afloat
  /\ store' = [store EXCEPT ![n][k] = v]
  /\ afloat' \in {afloat, afloat \ {<<n, k, v>>}}
  /\ UNCHANGED <<begun, doomed>>

Delete(n, k) ==
  /\ <<n, k>> \in doomed
  /\ store' = [store EXCEPT ![n][k] = None]
  /\ doomed' \in {doomed, doomed \ {<<n, k>>}}
  /\ UNCHANGED <<afloat, begun>>

(* Copies are lost and requests to delete given up. *)
Lapse ==
  /\ afloat' \subseteq afloat /\ doomed' \subseteq doomed
  /\ UNCHANGED <<store, begun>>

Next ==
  \/ \E p \in Request, n \in Node :
       \/ \E k \in Blob \cup Name : Ask(p, n, k)
       \/ \E b \in Blob : Put(p, n, b, b)
       \/ \E r \in Name, m \in Manifest : Put(p, n, r, m)
  \/ \E n \in Node, k \in Blob \cup Name :
       \/ Delete(n, k)
       \/ \E q \in Node : Send(q, n, k)
       \/ \E v \in Blob \cup Manifest : Receive(n, k, v)
  \/ Lapse

Spec == Init /\ [][Next]_contents
=============================================================================
