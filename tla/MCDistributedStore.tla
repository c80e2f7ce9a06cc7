------------------------- MODULE MCDistributedStore -------------------------
(* Small instances of DistributedStore. *)
EXTENDS DistributedStore, TLC

CONSTANTS n1, n2, n3, b1, t1, m1, m2, p1, p2, p3

TwoNodes == {n1, n2}
ThreeNodes == {n1, n2, n3}
FullMesh == [n \in Node |-> Node \ {n}]
OneBlob == {b1}
OneTag == {t1}
TwoManifests == {m1, m2}
TwoRequests == {p1, p2}
ThreeRequests == {p1, p2, p3}
Hybrid == "hybrid"
Eager == "eager"

(* Blobs and manifests do not meet here, manifests are put by tag, and no  *)
(* two references are asked for in one behaviour.                          *)
OneKey ==
  /\ \/ \A p \in Request : key[p] \in Blob \cup {None}
     \/ \A p \in Request : key[p] \in Ref \cup {None}
  /\ \A p \in Request : op[p] = "put" => key[p] \in Blob \cup Tag
  /\ \A p, q \in Request :
       key[p] # None /\ key[q] # None /\ op[p] # "put" /\ op[q] # "put" => key[p] = key[q]

Over(p) == pc[p] \in Outcome /\ task[p] = None

(* Two requests or their tasks overlap, the third comes before or after. *)
TwoAtOnce == Cardinality({p \in Request : pc[p] # "new" /\ ~Over(p)}) <= 2

(* What no later step and no property of the passing run reads. *)
ActiveView ==
  <<store, [p \in Request |-> IF Over(p) THEN "over" ELSE pc[p]],
    [p \in Request |-> IF Over(p) /\ key[p] \in Ref THEN None ELSE <<op[p], at[p], key[p]>>],
    val, searchVars, {p \in replied : ~Over(p)}, task,
    [p \in Request |-> IF op[p] = "get" /\ pc[p] # "ok" THEN steady[p] ELSE {}], last,
    [t \in Tag |-> IF last[t] = None THEN {} ELSE missed[t]]>>

Symmetry == Permutations(Node) \cup Permutations(Request) \cup Permutations(Manifest)
=============================================================================
