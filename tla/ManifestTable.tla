--------------------------- MODULE ManifestTable ---------------------------
(***************************************************************************)
(* What a repository promises those who put and get manifests: a table of  *)
(* references.  A put takes effect in one step between its request and its *)
(* answer, first under the tag and then under the digest, or fails and has *)
(* no effect; a get answers with what the table held when it looked,       *)
(* whatever happens to the reference before it has read.  Of a reference   *)
(* whose puts overlap nothing is promised until the next put.              *)
(***************************************************************************)
CONSTANTS
  Tag,
  Digest,
  Manifest,
  DigestOf,  \* [Manifest -> Digest]
  Stored,    \* [Manifest -> what is stored of it]
  Request,   \* what may be put: pairs of a reference and a manifest
  Reader,
  Nothing    \* no manifest, or none that can be relied on

VARIABLES
  table,     \* [Ref -> what can be got, or Nothing]
  wanted,    \* puts that are under way: pairs of a reference and a manifest
  reading    \* [Reader -> what it answers with, or Nothing]

cells == <<table, wanted, reading>>

Ref == Tag \cup Digest

Init ==
  /\ table = [n \in Ref |-> Nothing] /\ wanted = {}
  /\ reading = [r \in Reader |-> Nothing]

Ask(n, m) ==
  /\ wanted' = wanted \cup {<<n, m>>}
  /\ UNCHANGED <<table, reading>>

(* The put of a tag goes on to the digest. *)
Install(n, m) ==
  LET left == IF n \in Tag THEN wanted \cup {<<DigestOf[m], m>>} ELSE wanted IN
  /\ <<n, m>> \in wanted
  /\ wanted' \in {left, left \ {<<n, m>>}}
  /\ \E v \in {Stored[m], Nothing} : table' = [table EXCEPT ![n] = v]
  /\ UNCHANGED reading

GiveUp ==
  /\ wanted' \subseteq wanted
  /\ UNCHANGED <<table, reading>>

Remove(n) ==
  /\ table' = [table EXCEPT ![n] = Nothing]
  /\ UNCHANGED <<wanted, reading>>

Look(r, n) ==
  /\ reading' = [reading EXCEPT ![r] = table[n]]
  /\ UNCHANGED <<table, wanted>>

Answer(r) ==
  /\ reading' = [reading EXCEPT ![r] = Nothing]
  /\ UNCHANGED <<table, wanted>>

(* The requests are gone, and the table stays. *)
Restart ==
  /\ wanted' = {} /\ reading' = [r \in Reader |-> Nothing]
  /\ UNCHANGED table

Next ==
  \/ \E q \in Request : Ask(q[1], q[2])
  \/ \E n \in Ref, m \in Manifest : Install(n, m)
  \/ GiveUp \/ Restart
  \/ \E n \in Ref : Remove(n) \/ \E r \in Reader : Look(r, n)
  \/ \E r \in Reader : Answer(r)

Spec == Init /\ [][Next]_cells
=============================================================================
