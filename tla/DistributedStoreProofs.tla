----------------------- MODULE DistributedStoreProofs -----------------------
(* Theorems about DistributedStore, for every set of nodes, peers, keys    *)
(* and requests, every strategy and every replication factor.              *)
EXTENDS DistributedStore, FiniteSetTheorems, TLAPS

(* A request that has arrived is at a node, for a key. *)
Arrived ==
  \A p \in Request : /\ pc[p] # "new" => at[p] \in Node /\ key[p] \in Key
                     /\ pc[p] = "new" => task[p] = None

TypeInv == TypeOK /\ Arrived

(* A node in steady is the node of p or a peer of it, and has the key.     *)
(* While p searches, a steady peer is yet to answer or to be tried; once   *)
(* the node's own copy is being read, it is there or steady is empty.      *)
SteadyFound(p) ==
  /\ pc[p] = "new" => steady[p] = {}
  /\ steady[p] \subseteq Peers[at[p]] \cup {at[p]}
  /\ \A n \in steady[p] : Has(n, key[p])
  /\ Asking(p) => steady[p] \subseteq asking[p] \cup have[p]
  /\ pc[p] = "fetch" => steady[p] \subseteq have[p]
  /\ pc[p] = "cache" => val[p] # None
  /\ pc[p] = "reread" \/ (pc[p] = "size" /\ op[p] = "get") => HasHere(p) \/ steady[p] = {}
  /\ op[p] = "get" /\ pc[p] \in {"notfound", "error"} => steady[p] = {}

FindInv == TypeInv /\ \A p \in Request : SteadyFound(p)
-----------------------------------------------------------------------------
LEMMA InitTypeInv == Init => TypeInv
  BY DEF Init, TypeInv, TypeOK, Arrived, Label, Outcome, Op, Asking

LEMMA Labels ==
  ASSUME NEW p
  PROVE  /\ Existing(p) \in {"delete", "size", "local"}
         /\ Nowhere(p) \in {"notfound", "error"}
  BY DEF Existing, Nowhere

LEMMA TaskSet ==
  ASSUME TypeOK, NEW p \in Request, task[p] # None, NEW to \in SUBSET Node,
         NEW sent \in SUBSET Node, SetTask(p, to, sent)
  PROVE  task' \in [Request -> Task \cup {None}]
<1>1. task[p] \in Task
  BY DEF TypeOK
<1>2. [task[p] EXCEPT !.stage = "send", !.to = to, !.sent = sent] \in Task
  BY <1>1 DEF Task
<1> QED
  BY <1>2 DEF SetTask, TypeOK

LEMMA StoreSet ==
  ASSUME TypeOK, NEW n \in Node, NEW k \in Key, NEW v \in Content \cup {None}, Set(n, k, v)
  PROVE  store' \in [Node -> [Key -> Content \cup {None}]]
<1>1. [store[n] EXCEPT ![k] = v] \in [Key -> Content \cup {None}]
  BY DEF TypeOK
<1> QED
  BY <1>1 DEF Set, TypeOK

(* A search that begins asks the peers of its node. *)
LEMMA AskPeersType ==
  ASSUME TypeInv, NEW p \in Request, pc[p] # "new", UNCHANGED requestVars, AskPeers(p),
         NEW l \in Label, pc' = [pc EXCEPT ![p] = l]
  PROVE  /\ asking' \in [Request -> SUBSET Node] /\ have' \in [Request -> SUBSET Node]
         /\ pc' \in [Request -> Label]
         /\ \A r \in Request : Asking(r)' \/ pc'[r] \in {"fetch", "cache"} =>
                                asking'[r] \cup have'[r] \subseteq Peers[at'[r]]
<1> USE DEF TypeInv, TypeOK, Arrived, requestVars
<1>1. at[p] \in Node /\ Peers[at[p]] \in SUBSET Node
  BY PeersAssumption
<1>2. ASSUME NEW r \in Request, Asking(r)' \/ pc'[r] \in {"fetch", "cache"}
      PROVE  asking'[r] \cup have'[r] \subseteq Peers[at'[r]]
  <2>1. CASE r = p
    BY <2>1 DEF AskPeers
  <2>2. CASE r # p
    BY <1>2, <2>2 DEF Asking, AskPeers
  <2> QED
    BY <2>1, <2>2
<1> QED
  BY <1>1, <1>2 DEF AskPeers

LEMMA TypeStep ==
  ASSUME TypeInv, [Next]_vars
  PROVE  TypeOK'
<1> USE DEF TypeInv, TypeOK, Arrived, requestVars, searchVars, tagHistory, Goto, Label, Outcome,
            Asking
<1>1. ASSUME NEW p \in Request, NEW o \in Op, NEW n \in Node, NEW k \in Key,
             NEW l \in {"exists", "local"}, Begin(p, o, n, k, l)
      PROVE  TypeOK'
  BY <1>1 DEF Begin, Holders
<1>2. ASSUME NEW p \in Request, Exists(p) PROVE TypeOK'
  <2>1. CASE HasHere(p)
    <3>1. Existing(p) \in {"delete", "size", "local"}
      BY Labels
    <3> QED
      BY <1>2, <2>1, <3>1 DEF Exists
  <2>2. CASE ~HasHere(p)
    BY <1>2, <2>2, AskPeersType DEF Exists
  <2> QED
    BY <2>1, <2>2
<1>3. ASSUME NEW p \in Request, Local(p) PROVE TypeOK'
  <2>1. CASE HasHere(p)
    BY <1>3, <2>1 DEF Local
  <2>2. CASE ~HasHere(p)
    <3>1. /\ pc[p] = "local" /\ pc' = [pc EXCEPT ![p] = "search"] /\ AskPeers(p)
          /\ UNCHANGED <<store, requestVars, val, replied, task, steady, excused, missed>>
      BY <1>3, <2>2 DEF Local
    <3>2. PICK S \in SUBSET Tag : last' = [t \in Tag |-> IF t \in S THEN None ELSE last[t]]
      <4> DEFINE Skipped == {t \in Tag : t = key[p] /\ \E q \in Request : Sending(q, t)}
      <4>1. last' = [t \in Tag |-> IF t \in Skipped THEN None ELSE last[t]]
        BY <1>3, <2>2 DEF Local
      <4> QED
        BY <4>1
    <3>3. last' \in [Tag -> Manifest \cup {None}]
      BY <3>2
    <3>4. "search" \in Label
      OBVIOUS
    <3> HIDE DEF Label, Asking
    <3> QED
      BY <3>1, <3>3, <3>4, AskPeersType
  <2> QED
    BY <2>1, <2>2
<1>4. ASSUME NEW p \in Request, NEW q \in Node, Answer(p, q) \/ AnswerFails(p, q) PROVE TypeOK'
  <2>1. CASE Answer(p, q)
    BY <2>1 DEF Answer
  <2>2. CASE AnswerFails(p, q)
    BY <2>2 DEF AnswerFails
  <2> QED
    BY <1>4, <2>1, <2>2
<1>5. ASSUME NEW p \in Request, TimesOut(p) \/ Answered(p) \/ NoneLeft(p) PROVE TypeOK'
  <2>1. CASE TimesOut(p)
    BY <2>1, Labels DEF TimesOut
  <2>2. CASE Answered(p)
    <3>1. /\ UNCHANGED <<store, requestVars, val, asking, replied, task, steady, excused, tagHistory>>
          /\ Existing(p) \in Label /\ Nowhere(p) \in Label /\ pc[p] # "new"
      BY <2>2, Labels DEF Answered
    <3>2. CASE have[p] = {} /\ Goto(p, Nowhere(p)) /\ UNCHANGED have
      BY <3>1, <3>2, Labels
    <3>3. CASE have[p] # {} /\ pc[p] = "probe" /\ Goto(p, Existing(p)) /\ have' = [have EXCEPT ![p] = {}]
      BY <3>1, <3>3, Labels
    <3>4. CASE have[p] # {} /\ pc[p] = "search" /\ Goto(p, "fetch") /\ UNCHANGED have
      BY <3>1, <3>4
    <3> QED
      BY <2>2, <3>2, <3>3, <3>4 DEF Answered
  <2>3. CASE NoneLeft(p)
    BY <2>3, Labels DEF NoneLeft
  <2> QED
    BY <1>5, <2>1, <2>2, <2>3
<1>6. ASSUME NEW p \in Request, NEW q \in Node, Fetch(p, q) \/ FetchFails(p, q) PROVE TypeOK'
  <2>1. CASE Fetch(p, q)
    <3>1. store[q][key[p]] \in Content \cup {None}
      BY <2>1 DEF Fetch
    <3> QED
      BY <2>1, <3>1 DEF Fetch
  <2>2. CASE FetchFails(p, q)
    BY <2>2 DEF FetchFails
  <2> QED
    BY <1>6, <2>1, <2>2
<1>7. ASSUME NEW p \in Request, Cache(p) PROVE TypeOK'
  <2>1. store' \in [Node -> [Key -> Content \cup {None}]]
    BY <1>7, StoreSet DEF Cache
  <2> QED
    BY <1>7, <2>1 DEF Cache
<1>8. ASSUME NEW p \in Request, CacheFails(p) \/ Reread(p) \/ Size(p) PROVE TypeOK'
  <2>1. CASE CacheFails(p)
    <3>1. CASE key[p] \in Blob
      BY <2>1, <3>1 DEF CacheFails
    <3>2. CASE key[p] \notin Blob
      BY <2>1, <3>2 DEF CacheFails
    <3> QED
      BY <3>1, <3>2
  <2>2. CASE Reread(p)
    BY <2>2 DEF Reread
  <2>3. CASE Size(p)
    BY <2>3 DEF Size
  <2> QED
    BY <1>8, <2>1, <2>2, <2>3
<1>9. ASSUME NEW p \in Request, Delete(p) PROVE TypeOK'
  <2>1. store' \in [Node -> [Key -> Content \cup {None}]]
    BY <1>9, StoreSet DEF Delete
  <2>2. steady' \in [Request -> SUBSET Node]
    BY <1>9 DEF Delete
  <2>3. missed' \in [Tag -> SUBSET Node]
    BY <1>9 DEF Delete
  <2> QED
    BY <1>9, <2>1, <2>2, <2>3 DEF Delete
<1>10. ASSUME NEW p \in Request, Reply(p) PROVE TypeOK'
  BY <1>10 DEF Reply
<1>11. ASSUME NEW p \in Request, NEW n \in Node, NEW b \in Blob, PutBlob(p, n, b) PROVE TypeOK'
  <2>1. store' \in [Node -> [Key -> Content \cup {None}]]
    BY <1>11, StoreSet DEF PutBlob, Key, Content
  <2>2. NewTask(b) \in Task
    BY DEF NewTask, Task, Content
  <2> QED
    BY <1>11, <2>1, <2>2 DEF PutBlob, Put, Key, Op
<1>12. ASSUME NEW p \in Request, NEW n \in Node, NEW b \in Blob, CompleteUpload(p, n, b)
       PROVE  TypeOK'
  <2>1. store' \in [Node -> [Key -> Content \cup {None}]]
    BY <1>12, StoreSet DEF CompleteUpload, Key, Content
  <2> QED
    BY <1>12, <2>1 DEF CompleteUpload, Put, Key, Op
<1>13. ASSUME NEW p \in Request, NEW n \in Node, NEW r \in Ref, NEW m \in Manifest,
              PutManifest(p, n, r, m)
       PROVE  TypeOK'
  BY <1>13 DEF PutManifest, Put, NewTask, Task, Key, Ref, Content, Op
<1>14. ASSUME NEW p \in Request, SelectTargets(p) PROVE TypeOK'
  <2>1. task[p] # None /\ at[p] \in Node
    BY <1>14 DEF SelectTargets
  <2>2. PICK to \in SUBSET Node : SetTask(p, to, {})
    BY <1>14, <2>1, PeersAssumption DEF SelectTargets, Targets
  <2>3. task' \in [Request -> Task \cup {None}]
    BY <2>1, <2>2, TaskSet
  <2>4. excused' \in SUBSET Blob /\ missed' \in [Tag -> SUBSET Node]
    BY <1>14, <2>1, PeersAssumption DEF SelectTargets, Excuse, Miss
  <2> QED
    BY <1>14, <2>3, <2>4 DEF SelectTargets
<1>15. ASSUME NEW p \in Request, NEW q \in Node,
              SendBegins(p, q) \/ Delivered(p, q) \/ SendFails(p, q)
       PROVE TypeOK'
  <2>1. task[p] # None /\ task[p] \in Task
    BY <1>15 DEF SendBegins, Delivered, SendFails
  <2>2. task[p].to \in SUBSET Node /\ task[p].sent \in SUBSET Node /\ task[p].val \in Content
    BY <2>1 DEF Task
  <2>3. \E to, sent \in SUBSET Node : SetTask(p, to, sent)
    <3>1. CASE SendBegins(p, q)
      BY <2>2, <3>1 DEF SendBegins
    <3>2. CASE Delivered(p, q)
      BY <2>2, <3>2 DEF Delivered
    <3>3. CASE SendFails(p, q)
      BY <2>2, <3>3 DEF SendFails
    <3> QED
      BY <1>15, <3>1, <3>2, <3>3
  <2>4. task' \in [Request -> Task \cup {None}]
    BY <2>1, <2>3, TaskSet
  <2>5. CASE SendBegins(p, q)
    BY <2>5, <2>4 DEF SendBegins
  <2>6. CASE Delivered(p, q)
    <3>1. key[p] \in Key
      BY <2>1
    <3>2. store' \in [Node -> [Key -> Content \cup {None}]]
      BY <2>2, <2>6, <3>1, StoreSet DEF Delivered
    <3> QED
      BY <2>6, <2>4, <3>2 DEF Delivered
  <2>7. CASE SendFails(p, q)
    <3>1. excused' \in SUBSET Blob /\ missed' \in [Tag -> SUBSET Node]
      BY <2>7 DEF SendFails, Excuse, Miss
    <3> QED
      BY <2>7, <2>4, <3>1 DEF SendFails
  <2> QED
    BY <1>15, <2>5, <2>6, <2>7
<1>16. ASSUME NEW n \in Node, Crash(n) PROVE TypeOK'
  <2> DEFINE lost == {p \in Request : at[p] = n /\ (task[p] # None \/
                                                    (pc[p] # "new" /\ p \notin replied))}
             unsent(t) == UNION {IF Sending(p, t) THEN Peers[n] ELSE {} : p \in lost}
  <2>1. \A t \in Tag : unsent(t) \in SUBSET Node
    BY PeersAssumption
  <2>2. missed' \in [Tag -> SUBSET Node]
    BY <1>16, <2>1 DEF Crash
  <2>3. pc' \in [Request -> Label] /\ task' \in [Request -> Task \cup {None}]
    BY <1>16 DEF Crash
  <2> QED
    BY <1>16, <2>2, <2>3 DEF Crash
<1>17. CASE UNCHANGED vars
  BY <1>17 DEF vars
<1> QED
  BY <1>1, <1>2, <1>3, <1>4, <1>5, <1>6, <1>7, <1>8, <1>9, <1>10, <1>11, <1>12, <1>13, <1>14,
     <1>15, <1>16, <1>17
     DEF Next, Arrives, HandlerStep, TaskStep, GetBlob, HeadBlob, DeleteBlob, GetManifest,
         HeadManifest, DeleteManifest, Key, Op

(* A request arrives once, a put with its task; later steps of it and its  *)
(* task leave its node and key alone.                                      *)
LEMMA ArrivedStep ==
  ASSUME TypeInv, [Next]_vars
  PROVE  Arrived'
<1> USE DEF TypeInv, TypeOK, Arrived, Goto, requestVars
<1>1. ASSUME NEW p \in Request, NEW o \in Op, NEW n \in Node, NEW k \in Key,
             NEW l \in {"exists", "local"}, Begin(p, o, n, k, l)
      PROVE  Arrived'
  BY <1>1 DEF Begin
<1>2. ASSUME NEW p \in Request, NEW o \in Op, NEW n \in Node, NEW k \in Key, Put(p, o, n, k),
             NEW w, task' = [task EXCEPT ![p] = w] \/ task' = task
      PROVE  Arrived'
  BY <1>2 DEF Put
<1>3. ASSUME UNCHANGED requestVars,
             \A p \in Request : /\ pc'[p] = "new" <=> pc[p] = "new"
                                /\ task[p] = None => task'[p] = None
      PROVE  Arrived'
  BY <1>3
<1>4. ASSUME NEW p \in Request, HandlerStep(p) PROVE Arrived'
  <2>1. UNCHANGED <<requestVars, task>>
    BY <1>4 DEF HandlerStep, Exists, Local, TimesOut, Answered, NoneLeft, Cache, CacheFails,
                Reread, Size, Delete, Reply, Answer, AnswerFails, Fetch, FetchFails
  <2>2. pc[p] # "new" /\ (pc' = pc \/ \E l : l # "new" /\ Goto(p, l))
    BY <1>4, Labels
       DEF HandlerStep, Exists, Local, TimesOut, Answered, NoneLeft, Cache, CacheFails, Reread,
           Size, Delete, Reply, Answer, AnswerFails, Fetch, FetchFails, Asking, Outcome
  <2> QED
    BY <1>3, <2>1, <2>2
<1>5. ASSUME NEW p \in Request, TaskStep(p) PROVE Arrived'
  <2>1. UNCHANGED <<requestVars, pc>> /\ task[p] # None
    BY <1>5 DEF TaskStep, SelectTargets, SendBegins, Delivered, SendFails
  <2>2. \E w : task' = [task EXCEPT ![p] = w]
    BY <1>5 DEF TaskStep, SelectTargets, SendBegins, Delivered, SendFails, SetTask
  <2> QED
    BY <1>3, <2>1, <2>2
<1>6. ASSUME NEW n \in Node, Crash(n) PROVE Arrived'
  <2>1. UNCHANGED requestVars
    BY <1>6 DEF Crash
  <2>2. \A p \in Request : /\ pc'[p] = "new" <=> pc[p] = "new"
                           /\ task[p] = None => task'[p] = None
    BY <1>6 DEF Crash
  <2> QED
    BY <1>3, <2>1, <2>2
<1>7. CASE UNCHANGED vars
  BY <1>3, <1>7 DEF vars
<1>8. ASSUME NEW p \in Request, NEW n \in Node, NEW b \in Blob,
             PutBlob(p, n, b) \/ CompleteUpload(p, n, b)
      PROVE  Arrived'
  BY <1>2, <1>8 DEF PutBlob, CompleteUpload, Key, Op
<1>9. ASSUME NEW p \in Request, NEW n \in Node, NEW r \in Ref, NEW m \in Manifest,
             PutManifest(p, n, r, m)
      PROVE  Arrived'
  BY <1>2, <1>9 DEF PutManifest, Key, Op
<1> QED
  BY <1>1, <1>4, <1>5, <1>6, <1>7, <1>8, <1>9
     DEF Next, Arrives, GetBlob, HeadBlob, DeleteBlob, GetManifest, HeadManifest,
         DeleteManifest, Key, Op

LEMMA TypeInvariant == Spec => []TypeInv
<1>1. TypeInv /\ [Next]_vars => TypeInv'
  BY TypeStep, ArrivedStep DEF TypeInv
<1> QED
  BY <1>1, InitTypeInv, PTL DEF Spec

(* The variables keep their types, and only peers of its node are asked by *)
(* a request or tried by it.                                               *)
THEOREM TypeCorrect == Spec => []TypeOK
<1>1. TypeInv => TypeOK
  BY DEF TypeInv
<1> QED
  BY <1>1, TypeInvariant, PTL
-----------------------------------------------------------------------------
LEMMA InitFindInv == Init => FindInv
  BY InitTypeInv DEF Init, FindInv, SteadyFound, Asking

(* Nothing that is there goes away, except by a DELETE. *)
Grows == \A n \in Node, k \in Key : Has(n, k) => Has(n, k)'

LEMMA SetGrows ==
  ASSUME TypeOK, NEW n \in Node, NEW k \in Key, NEW v \in Content, Set(n, k, v)
  PROVE  Grows /\ Has(n, k)'
<1>1. v # None
  BY NoneAssumption DEF Content
<1> QED
  BY <1>1 DEF Set, Grows, Has, TypeOK

(* What a step of others, or of the task of p, does to p. *)
LEMMA OthersFind ==
  ASSUME FindInv, NEW p \in Request, Grows,
         op'[p] = op[p], at'[p] = at[p], key'[p] = key[p], pc'[p] = pc[p], val'[p] = val[p],
         asking'[p] = asking[p], have'[p] = have[p], steady'[p] \subseteq steady[p]
  PROVE  SteadyFound(p)'
<1>1. SteadyFound(p)
  BY DEF FindInv
<1>2. pc[p] # "new" => at[p] \in Node /\ key[p] \in Key
  BY DEF FindInv, TypeInv, Arrived
<1>3. steady[p] \subseteq Node
  BY DEF FindInv, TypeInv, TypeOK
<1> QED
  BY <1>1, <1>2, <1>3 DEF SteadyFound, Grows, HasHere, Asking, Has

LEMMA HandlerFinds ==
  ASSUME FindInv, NEW p \in Request, HandlerStep(p), NEW r \in Request
  PROVE  SteadyFound(r)'
<1> USE DEF FindInv, TypeInv, TypeOK, requestVars, searchVars, Goto
<1>1. SteadyFound(p) /\ SteadyFound(r)
  OBVIOUS
<1>2. pc[p] # "new" /\ at[p] \in Node /\ key[p] \in Key
  BY Labels
     DEF Arrived, HandlerStep, Exists, Local, TimesOut, Answered, NoneLeft, Cache, CacheFails,
         Reread, Size, Delete, Reply, Answer, AnswerFails, Fetch, FetchFails, Asking, Outcome
<1>3. ASSUME UNCHANGED store PROVE Grows
  BY <1>3 DEF Grows, Has
<1>4. CASE Exists(p)
  <2>1. CASE r # p
    BY <1>3, <1>4, <2>1, OthersFind DEF Exists, AskPeers
  <2>2. CASE r = p /\ HasHere(p)
    BY <1>1, <1>4, <2>2 DEF Exists, SteadyFound, Existing, Has, HasHere, Asking
  <2>3. CASE r = p /\ ~HasHere(p)
    BY <1>1, <1>4, <2>3 DEF Exists, AskPeers, SteadyFound, Has, HasHere, Asking
  <2> QED
    BY <2>1, <2>2, <2>3
<1>5. CASE Local(p)
  <2>1. CASE r # p
    BY <1>3, <1>5, <2>1, OthersFind DEF Local, AskPeers
  <2>2. CASE r = p /\ HasHere(p)
    BY <1>1, <1>5, <2>2 DEF Local, SteadyFound, Has, HasHere, Asking
  <2>3. CASE r = p /\ ~HasHere(p)
    BY <1>1, <1>5, <2>3 DEF Local, AskPeers, SteadyFound, Has, HasHere, Asking
  <2> QED
    BY <2>1, <2>2, <2>3
<1>6. ASSUME NEW q \in Node, Answer(p, q) PROVE SteadyFound(r)'
  <2>1. CASE r # p
    BY <1>3, <1>6, <2>1, OthersFind DEF Answer
  <2>2. CASE r = p
    BY <1>1, <1>6, <2>2 DEF Answer, SteadyFound, Has, HasHere, Asking
  <2> QED
    BY <2>1, <2>2
<1>7. ASSUME NEW q \in Node, AnswerFails(p, q) PROVE SteadyFound(r)'
  <2>1. CASE r # p
    BY <1>3, <1>7, <2>1, OthersFind DEF AnswerFails
  <2>2. CASE r = p
    BY <1>1, <1>7, <2>2 DEF AnswerFails, SteadyFound, Has, HasHere, Asking
  <2> QED
    BY <2>1, <2>2
<1>8. CASE TimesOut(p)
  <2>1. CASE r # p
    BY <1>3, <1>8, <2>1, OthersFind DEF TimesOut
  <2>2. CASE r = p
    BY <1>1, <1>8, <2>2, Labels DEF TimesOut, SteadyFound, Asking
  <2> QED
    BY <2>1, <2>2
<1>9. CASE Answered(p)
  <2>1. CASE r # p
    BY <1>3, <1>9, <2>1, OthersFind DEF Answered
  <2>2. CASE r = p /\ have[p] = {}
    BY <1>1, <1>9, <2>2, Labels DEF Answered, SteadyFound, Asking, Has
  <2>3. CASE r = p /\ have[p] # {}
    BY <1>1, <1>9, <2>3 DEF Answered, SteadyFound, Existing, Asking, Has
  <2> QED
    BY <2>1, <2>2, <2>3
<1>10. CASE NoneLeft(p)
  <2>1. CASE r # p
    BY <1>3, <1>10, <2>1, OthersFind DEF NoneLeft
  <2>2. CASE r = p
    BY <1>1, <1>10, <2>2, Labels DEF NoneLeft, SteadyFound, Asking, Has
  <2> QED
    BY <2>1, <2>2
<1>11. ASSUME NEW q \in Node, Fetch(p, q) PROVE SteadyFound(r)'
  <2>1. CASE r # p
    BY <1>3, <1>11, <2>1, OthersFind DEF Fetch
  <2>2. CASE r = p
    BY <1>1, <1>11, <2>2 DEF Fetch, SteadyFound, Asking, Has
  <2> QED
    BY <2>1, <2>2
<1>12. ASSUME NEW q \in Node, FetchFails(p, q) PROVE SteadyFound(r)'
  <2>1. CASE r # p
    BY <1>3, <1>12, <2>1, OthersFind DEF FetchFails
  <2>2. CASE r = p
    BY <1>1, <1>12, <2>2 DEF FetchFails, SteadyFound, Asking, Has
  <2> QED
    BY <2>1, <2>2
<1>13. CASE Cache(p)
  <2>1. val[p] \in Content
    BY <1>1, <1>13 DEF Cache, SteadyFound
  <2>2. Grows /\ Has(at[p], key[p])'
    BY <1>2, <1>13, <2>1, SetGrows DEF Cache
  <2>3. CASE r # p
    BY <1>13, <2>2, <2>3, OthersFind DEF Cache
  <2>4. CASE r = p
    <3>1. pc'[p] \in {"reread", "ok"} /\ UNCHANGED <<requestVars, steady>>
      BY <1>13 DEF Cache
    <3>2. HasHere(p)'
      BY <2>2, <3>1 DEF HasHere, Has
    <3>3. \A n \in steady[p] : Has(n, key[p])'
      BY <1>1, <1>2, <2>2, <3>1 DEF SteadyFound, Grows, Has
    <3> QED
      BY <1>1, <2>4, <3>1, <3>2, <3>3 DEF SteadyFound, Asking, Has
  <2> QED
    BY <2>3, <2>4
<1>14. CASE CacheFails(p)
  <2>1. CASE r # p
    BY <1>3, <1>14, <2>1, OthersFind DEF CacheFails
  <2>2. CASE r = p
    BY <1>1, <1>14, <2>2 DEF CacheFails, SteadyFound, Asking
  <2> QED
    BY <2>1, <2>2
<1>15. CASE Reread(p) \/ Size(p)
  <2>1. CASE r # p
    BY <1>3, <1>15, <2>1, OthersFind DEF Reread, Size
  <2>2. CASE r = p /\ HasHere(p)
    BY <1>1, <1>15, <2>2 DEF Reread, Size, SteadyFound, Asking, Has, HasHere
  <2>3. CASE r = p /\ ~HasHere(p)
    BY <1>1, <1>15, <2>3 DEF Reread, Size, SteadyFound, Asking, Has, HasHere
  <2> QED
    BY <2>1, <2>2, <2>3
<1>16. CASE Delete(p)
  <2>1. UNCHANGED <<op, at, key, val, asking, have>>
    BY <1>16 DEF Delete
  <2>2. \A n \in Node, k \in Key : Has(n, k) /\ (n # at[p] \/ k # key[p]) => Has(n, k)'
    BY <1>2, <1>16 DEF Delete, Set, Has
  <2>3. CASE ~HasHere(p)
    <3>1. Grows
      BY <1>2, <2>2, <2>3 DEF Grows, HasHere
    <3>2. CASE r # p
      BY <1>16, <2>1, <2>3, <3>1, <3>2, OthersFind DEF Delete
    <3>3. CASE r = p
      <4>1. pc'[p] = "ok" /\ steady' = steady
        BY <1>16, <2>3 DEF Delete
      <4>2. \A n \in steady[p] : Has(n, key[p])'
        BY <1>1, <1>2, <2>1, <3>1 DEF SteadyFound, Grows, Has
      <4> QED
        BY <1>1, <2>1, <3>3, <4>1, <4>2 DEF SteadyFound, Asking, Has
    <3> QED
      BY <3>2, <3>3
  <2>4. CASE HasHere(p)
    <3>1. steady'[r] = IF key[r] # key[p] THEN steady[r]
                       ELSE IF at[r] = at[p] THEN {} ELSE steady[r] \ {at[p]}
      BY <1>16, <2>4 DEF Delete
    <3>2. pc'[r] = IF r = p THEN "ok" ELSE pc[r]
      BY <1>16 DEF Delete
    <3>3. \A n \in steady'[r] : Has(n, key[r])'
      <4>1. pc[r] = "new" => steady'[r] = {}
        BY <1>1, <3>1 DEF SteadyFound
      <4>2. pc[r] # "new" => key[r] \in Key
        BY DEF Arrived
      <4> QED
        BY <1>1, <2>1, <2>2, <3>1, <4>1, <4>2 DEF SteadyFound, Has
    <3>4. HasHere(r) \/ steady[r] = {} => HasHere(r)' \/ steady'[r] = {} \/ pc[r] = "new"
      <4>1. pc[r] # "new" => key[r] \in Key /\ at[r] \in Node
        BY DEF Arrived
      <4> QED
        BY <2>1, <2>2, <3>1, <4>1 DEF HasHere, Has
    <3>5. steady'[r] \subseteq steady[r]
      BY <3>1
    <3> QED
      BY <1>1, <2>1, <3>2, <3>3, <3>4, <3>5 DEF SteadyFound, Asking, Has
  <2> QED
    BY <2>3, <2>4
<1>17. CASE Reply(p)
  <2>1. CASE r # p
    BY <1>3, <1>17, <2>1, OthersFind DEF Reply
  <2>2. CASE r = p
    BY <1>1, <1>17, <2>2 DEF Reply, SteadyFound, Asking, Has, Outcome
  <2> QED
    BY <2>1, <2>2
<1> QED
  BY <1>4, <1>5, <1>6, <1>7, <1>8, <1>9, <1>10, <1>11, <1>12, <1>13, <1>14, <1>15, <1>16, <1>17
     DEF HandlerStep

LEMMA PutFinds ==
  ASSUME FindInv, NEW p \in Request, NEW o \in {"put", "upload"}, NEW n \in Node, NEW k \in Key,
         Put(p, o, n, k), Grows, NEW r \in Request
  PROVE  SteadyFound(r)'
<1> USE DEF FindInv, TypeInv, TypeOK, requestVars, searchVars, Goto
<1>1. CASE r # p
  BY <1>1, OthersFind DEF Put
<1>2. CASE r = p
  BY <1>2 DEF Put, SteadyFound, Asking
<1> QED
  BY <1>1, <1>2

LEMMA ArrivalFinds ==
  ASSUME FindInv, NEW p \in Request, Arrives(p), NEW r \in Request
  PROVE  SteadyFound(r)'
<1> USE DEF FindInv, TypeInv, TypeOK
<1>1. ASSUME NEW o \in Op, NEW n \in Node, NEW k \in Key, NEW l \in {"exists", "local"},
             Begin(p, o, n, k, l)
      PROVE  SteadyFound(r)'
  <2>1. Grows
    BY <1>1 DEF Begin, Grows, Has
  <2>2. CASE r # p
    BY <1>1, <2>1, <2>2, OthersFind DEF Begin, requestVars, searchVars, Goto
  <2>3. CASE r = p
    BY <1>1, <2>3 DEF Begin, SteadyFound, Holders, Has, Asking, Goto
  <2> QED
    BY <2>2, <2>3
<1>2. ASSUME NEW n \in Node, NEW b \in Blob, PutBlob(p, n, b) \/ CompleteUpload(p, n, b)
      PROVE  SteadyFound(r)'
  <2>1. b \in Key /\ b \in Content
    BY DEF Key, Content
  <2>2. Grows
    BY <1>2, <2>1, SetGrows DEF PutBlob, CompleteUpload
  <2> QED
    BY <1>2, <2>1, <2>2, PutFinds DEF PutBlob, CompleteUpload
<1>3. ASSUME NEW n \in Node, NEW k \in Ref, NEW m \in Manifest, PutManifest(p, n, k, m)
      PROVE  SteadyFound(r)'
  <2>1. k \in Key /\ m # None
    BY NoneAssumption DEF Key
  <2>2. Grows
    BY <1>3, <2>1 DEF PutManifest, Grows, Has
  <2> QED
    BY <1>3, <2>1, <2>2, PutFinds DEF PutManifest
<1> QED
  BY <1>1, <1>2, <1>3
     DEF Arrives, GetBlob, HeadBlob, DeleteBlob, GetManifest, HeadManifest, DeleteManifest, Key,
         Op

LEMMA TaskFinds ==
  ASSUME FindInv, NEW p \in Request, TaskStep(p), NEW r \in Request
  PROVE  SteadyFound(r)'
<1> USE DEF FindInv, TypeInv, TypeOK, requestVars, searchVars
<1>1. Grows
  <2>1. ASSUME NEW q \in Node, Delivered(p, q) PROVE Grows
    <3>1. task[p] \in Task /\ key[p] \in Key
      BY <2>1 DEF Delivered, Arrived
    <3>2. task[p].val \in Content
      BY <3>1 DEF Task
    <3> QED
      BY <2>1, <3>1, <3>2, SetGrows DEF Delivered
  <2> QED
    BY <2>1 DEF TaskStep, SelectTargets, SendBegins, SendFails, Grows, Has
<1>2. UNCHANGED <<pc, requestVars, val, searchVars, steady>>
  BY DEF TaskStep, SelectTargets, SendBegins, Delivered, SendFails
<1> QED
  BY <1>1, <1>2, OthersFind

LEMMA CrashFinds ==
  ASSUME FindInv, NEW n \in Node, Crash(n), NEW r \in Request
  PROVE  SteadyFound(r)'
<1> USE DEF FindInv, TypeInv, TypeOK, requestVars
<1> DEFINE lost == {p \in Request : at[p] = n /\ (task[p] # None \/
                                                  (pc[p] # "new" /\ p \notin replied))}
<1>1. Grows
  BY DEF Crash, Grows, Has
<1>2. CASE r \notin lost
  BY <1>1, <1>2, OthersFind DEF Crash
<1>3. CASE r \in lost
  <2>1. steady'[r] = {} /\ pc'[r] \in Outcome
    BY <1>3 DEF Crash, Outcome
  <2> QED
    BY <2>1 DEF SteadyFound, Asking, Outcome
<1> QED
  BY <1>2, <1>3

(* A GET does not miss what its node or a peer had all along. *)
THEOREM GetFindsInvariant == Spec => []GetFinds
<1>1. FindInv /\ [Next]_vars => FindInv'
  <2> SUFFICES ASSUME FindInv, [Next]_vars PROVE FindInv'
    OBVIOUS
  <2>1. TypeInv'
    BY TypeStep, ArrivedStep DEF FindInv, TypeInv
  <2>2. ASSUME NEW r \in Request PROVE SteadyFound(r)'
    <3>1. CASE UNCHANGED vars
      <4>1. Grows
        BY <3>1 DEF vars, Grows, Has
      <4> QED
        BY <3>1, <4>1, OthersFind DEF vars, requestVars, searchVars
    <3> QED
      BY <3>1, HandlerFinds, ArrivalFinds, TaskFinds, CrashFinds DEF Next
  <2> QED
    BY <2>1, <2>2 DEF FindInv
<1>2. FindInv => GetFinds
  BY DEF FindInv, SteadyFound, GetFinds
<1> QED
  BY <1>1, <1>2, InitFindInv, PTL DEF Spec
-----------------------------------------------------------------------------
(* What a step does to the store, to the tasks and to the history of the   *)
(* tags, which the two invariants below are about.                         *)

(* A step of the handler of p that is not Local, Cache or Delete. *)
Quiet(p) ==
  /\ UNCHANGED <<store, requestVars, task, tagHistory>>
  /\ \A r \in Request : r # p => pc'[r] = pc[r]
  /\ pc[p] # "new" /\ pc'[p] # "new"
  /\ pc'[p] \in {"search", "fetch", "cache"} => pc[p] \in {"search", "fetch", "cache"}

LEMMA HandlerKinds ==
  ASSUME TypeOK, NEW p \in Request, HandlerStep(p)
  PROVE  Quiet(p) \/ Local(p) \/ Cache(p) \/ Delete(p)
<1> USE DEF TypeOK, Quiet, requestVars, searchVars, tagHistory, Goto, Asking, Outcome
<1>1. Existing(p) \in {"delete", "size", "local"} /\ Nowhere(p) \in {"notfound", "error"}
  BY Labels
<1>2. Exists(p) => Quiet(p)
  BY <1>1 DEF Exists
<1>3. TimesOut(p) => Quiet(p)
  BY <1>1 DEF TimesOut
<1>4. Answered(p) => Quiet(p)
  BY <1>1 DEF Answered
<1>5. NoneLeft(p) => Quiet(p)
  BY <1>1 DEF NoneLeft
<1>6. CacheFails(p) \/ Reread(p) \/ Size(p) \/ Reply(p) => Quiet(p)
  BY DEF CacheFails, Reread, Size, Reply
<1>7. \A q \in Node : Answer(p, q) \/ AnswerFails(p, q) \/ Fetch(p, q) \/ FetchFails(p, q)
                      => Quiet(p)
  BY DEF Answer, AnswerFails, Fetch, FetchFails
<1> QED
  BY <1>2, <1>3, <1>4, <1>5, <1>6, <1>7 DEF HandlerStep

(* The task of p goes on with these peers, or ends for want of any. *)
TaskAfter(p, to, sent) ==
  /\ \A r \in Request : r # p => task'[r] = task[r]
  /\ to \cup sent = {} => task'[p] = None
  /\ to \cup sent # {} => /\ task'[p] # None
                          /\ task'[p].stage = "send"
                          /\ task'[p].val = task[p].val
                          /\ task'[p].to = to
                          /\ task'[p].sent = sent

LEMMA SetTaskValue ==
  ASSUME TypeOK, NEW p \in Request, task[p] # None, NEW to \in SUBSET Node,
         NEW sent \in SUBSET Node, SetTask(p, to, sent)
  PROVE  TaskAfter(p, to, sent)
<1> DEFINE new == [task[p] EXCEPT !.stage = "send", !.to = to, !.sent = sent]
<1>1. task[p] \in Task
  BY DEF TypeOK
<1>2. new \in Task
  BY <1>1 DEF Task
<1>3. new.stage = "send" /\ new.val = task[p].val /\ new.to = to /\ new.sent = sent
  BY <1>1 DEF Task
<1>4. new # None
  BY <1>2, TaskAssumption
<1>5. \A r \in Request : r # p => task'[r] = task[r]
  BY DEF SetTask, TypeOK
<1>6. task'[p] = IF to \cup sent = {} THEN None ELSE new
  BY DEF SetTask, TypeOK
<1> QED
  BY <1>3, <1>4, <1>5, <1>6 DEF TaskAfter

LEMMA NewTaskIsTask ==
  ASSUME NEW v \in Content
  PROVE  /\ NewTask(v) # None
         /\ NewTask(v).stage = "read" /\ NewTask(v).val = v
         /\ NewTask(v).to = {} /\ NewTask(v).sent = {}
<1>1. NewTask(v) \in Task
  BY DEF NewTask, Task
<1> QED
  BY <1>1, TaskAssumption DEF NewTask

(* A task is that of a put that replicates, and is for peers of its node.  *)
TaskFits(p) ==
  task[p] # None =>
    /\ op[p] = "put" /\ (key[p] \in Blob => Replicates(key[p]))
    /\ task[p].to \cup task[p].sent \subseteq Peers[at[p]]
    /\ task[p].stage = "read" => task[p].to \cup task[p].sent = {}

TaskInv == TypeInv /\ \A p \in Request : TaskFits(p)

LEMMA TaskParts ==
  ASSUME TypeInv, NEW p \in Request, task[p] # None
  PROVE  /\ pc[p] # "new" /\ at[p] \in Node /\ key[p] \in Key
         /\ task[p].val \in Content
         /\ task[p].to \in SUBSET Node /\ task[p].sent \in SUBSET Node
<1>1. task[p] \in Task
  BY DEF TypeInv, TypeOK
<1> QED
  BY <1>1 DEF Task, TypeInv, Arrived

(* What SelectTargets leaves of a task that had read. *)
Selected(p, to) ==
  /\ to \subseteq Peers[at[p]] /\ TaskAfter(p, to, {})
  /\ key[p] \in Blob => IsFiniteSet(to) /\ Cardinality(to) <= Copies
  /\ key[p] \in Ref => \A t \in Tag :
       missed'[t] = IF t = key[p] THEN missed[t] \cup (Peers[at[p]] \ to) ELSE missed[t]

LEMMA CopiesNat == Copies \in Nat
  BY FactorAssumption DEF Copies

LEMMA SelectTargetsIs ==
  ASSUME TypeInv, NEW p \in Request, SelectTargets(p)
  PROVE  /\ UNCHANGED <<store, pc, requestVars, last>>
         /\ task[p] # None /\ task[p].stage = "read"
         /\ \A t \in Tag : t # key[p] => missed'[t] = missed[t]
         /\ \E to \in SUBSET Node : Selected(p, to)
<1>0. TypeOK
  BY DEF TypeInv
<1>1. UNCHANGED <<store, pc, requestVars, last>> /\ task[p] # None /\ task[p].stage = "read"
  BY DEF SelectTargets
<1>2. at[p] \in Node /\ key[p] \in Key /\ Peers[at[p]] \in SUBSET Node
  BY <1>1, TaskParts, PeersAssumption
<1>3. IsFiniteSet({}) /\ Cardinality({}) = 0
  BY FS_EmptySet
<1>4. CASE key[p] \in Blob /\ ~HasHere(p)
  <2>1. key[p] \notin Ref
    BY <1>4, KeyAssumption DEF Ref
  <2>2. CASE SetTask(p, {}, {}) /\ UNCHANGED missed
    <3>1. TaskAfter(p, {}, {})
      BY <1>0, <1>1, <2>2, SetTaskValue
    <3>2. Selected(p, {})
      BY <1>3, <2>1, <3>1, CopiesNat DEF Selected
    <3> QED
      BY <1>1, <2>2, <3>2
  <2> QED
    BY <1>4, <2>1, <2>2 DEF SelectTargets
<1>5. ASSUME NEW healthy \in SUBSET Peers[at[p]], NEW to \in Targets(key[p], healthy),
             SetTask(p, to, {}), Miss(key[p], Peers[at[p]] \ healthy)
      PROVE  Selected(p, to) /\ to \in SUBSET Node
             /\ \A t \in Tag : t # key[p] => missed'[t] = missed[t]
  <2>1. to \in SUBSET healthy /\ to \in SUBSET Node
    BY <1>2, <1>5 DEF Targets
  <2>2. TaskAfter(p, to, {})
    BY <1>0, <1>1, <1>5, <2>1, SetTaskValue
  <2>3. \A t \in Tag : missed'[t] = IF t = key[p] THEN missed[t] \cup (Peers[at[p]] \ healthy)
                                    ELSE missed[t]
    BY <1>5 DEF Miss
  <2>4. ASSUME key[p] \in Blob PROVE IsFiniteSet(to) /\ Cardinality(to) <= Copies
    <3>1. key[p] \notin Ref
      BY <2>4, KeyAssumption DEF Ref
    <3>2. Cardinality(to) = Least(Copies, Cardinality(healthy))
      BY <1>5, <3>1 DEF Targets
    <3>3. IsFiniteSet(healthy) /\ IsFiniteSet(to)
      BY <1>2, <2>1, FinitePeersAssumption, FS_Subset
    <3>4. Cardinality(healthy) \in Nat
      BY <3>3, FS_CardinalityType
    <3> QED
      BY <3>2, <3>3, <3>4, CopiesNat DEF Least
  <2>5. key[p] \in Ref => to = healthy
    BY <1>5 DEF Targets
  <2> QED
    BY <2>1, <2>2, <2>3, <2>4, <2>5 DEF Selected
<1> QED
  BY <1>1, <1>4, <1>5 DEF SelectTargets

(* What a step to one peer does. *)
ToPeer(p, q) ==
  /\ task[p] # None /\ q \in Node
  /\ UNCHANGED <<pc, requestVars, last>>
  /\ \/ /\ q \in task[p].to
        /\ TaskAfter(p, task[p].to \ {q}, task[p].sent \cup {q})
        /\ UNCHANGED <<store, missed>>
     \/ /\ q \in task[p].sent
        /\ Set(q, key[p], task[p].val)
        /\ TaskAfter(p, task[p].to, task[p].sent \ {q})
        /\ UNCHANGED missed
     \/ /\ q \in task[p].to \cup task[p].sent
        /\ TaskAfter(p, task[p].to \ {q}, task[p].sent \ {q})
        /\ Miss(key[p], {q})
        /\ UNCHANGED store

LEMMA TaskKinds ==
  ASSUME TypeInv, NEW p \in Request, TaskStep(p)
  PROVE  SelectTargets(p) \/ \E q \in Node : ToPeer(p, q)
<1> USE DEF requestVars, tagHistory
<1>0. TypeOK
  BY DEF TypeInv
<1>1. ASSUME NEW q \in Node, SendBegins(p, q) PROVE ToPeer(p, q)
  <2>1. TaskAfter(p, task[p].to \ {q}, task[p].sent \cup {q})
    <3>1. task[p] # None /\ SetTask(p, task[p].to \ {q}, task[p].sent \cup {q})
      BY <1>1 DEF SendBegins
    <3>2. (task[p].to \ {q}) \in SUBSET Node /\ (task[p].sent \cup {q}) \in SUBSET Node
      BY <3>1, TaskParts
    <3> QED
      BY <1>0, <3>1, <3>2, SetTaskValue
  <2> QED
    BY <1>1, <2>1 DEF SendBegins, ToPeer
<1>2. ASSUME NEW q \in Node, Delivered(p, q) PROVE ToPeer(p, q)
  <2>1. TaskAfter(p, task[p].to, task[p].sent \ {q})
    <3>1. task[p] # None /\ SetTask(p, task[p].to, task[p].sent \ {q})
      BY <1>2 DEF Delivered
    <3>2. task[p].to \in SUBSET Node /\ (task[p].sent \ {q}) \in SUBSET Node
      BY <3>1, TaskParts
    <3> QED
      BY <1>0, <3>1, <3>2, SetTaskValue
  <2> QED
    BY <1>2, <2>1 DEF Delivered, ToPeer
<1>3. ASSUME NEW q \in Node, SendFails(p, q) PROVE ToPeer(p, q)
  <2>1. TaskAfter(p, task[p].to \ {q}, task[p].sent \ {q})
    <3>1. task[p] # None /\ SetTask(p, task[p].to \ {q}, task[p].sent \ {q})
      BY <1>3 DEF SendFails
    <3>2. (task[p].to \ {q}) \in SUBSET Node /\ (task[p].sent \ {q}) \in SUBSET Node
      BY <3>1, TaskParts
    <3> QED
      BY <1>0, <3>1, <3>2, SetTaskValue
  <2> QED
    BY <1>3, <2>1 DEF SendFails, ToPeer
<1> QED
  BY <1>1, <1>2, <1>3 DEF TaskStep

(* A request begins. *)
Comes(p, o, n, k) ==
  /\ pc[p] = "new" /\ pc'[p] \in {"exists", "local", "ok"}
  /\ op'[p] = o /\ at'[p] = n /\ key'[p] = k
  /\ \A r \in Request : r # p => /\ pc'[r] = pc[r]
                                 /\ op'[r] = op[r] /\ at'[r] = at[r] /\ key'[r] = key[r]

LEMMA BeginComes ==
  ASSUME TypeOK, NEW p \in Request, NEW o, NEW n, NEW k, NEW l \in {"exists", "local"},
         Begin(p, o, n, k, l)
  PROVE  Comes(p, o, n, k) /\ UNCHANGED <<store, task, last, missed>>
  BY DEF Begin, Comes, Goto, TypeOK, tagHistory

LEMMA PutComes ==
  ASSUME TypeOK, NEW p \in Request, NEW o, NEW n, NEW k, Put(p, o, n, k)
  PROVE  Comes(p, o, n, k)
  BY DEF Put, Comes, Goto, TypeOK

LEMMA ArrivalKinds ==
  ASSUME NEW p \in Request, Arrives(p)
  PROVE  \/ \E o \in Op \ {"put"}, n \in Node, k \in Key, l \in {"exists", "local"} :
              Begin(p, o, n, k, l)
         \/ \E n \in Node, b \in Blob : PutBlob(p, n, b) \/ CompleteUpload(p, n, b)
         \/ \E n \in Node, r \in Ref, m \in Manifest : PutManifest(p, n, r, m)
  BY DEF Arrives, GetBlob, HeadBlob, DeleteBlob, GetManifest, HeadManifest, DeleteManifest, Key, Op

LEMMA CrashIs ==
  ASSUME TypeInv, NEW n \in Node, Crash(n)
  PROVE  /\ UNCHANGED <<store, requestVars, last>>
         /\ \A r \in Request : /\ task'[r] = task[r] \/ (task'[r] = None /\ at[r] = n)
                               /\ pc'[r] = pc[r] \/ (pc'[r] = "dead" /\ pc[r] # "new")
         /\ \A t \in Tag : /\ missed[t] \subseteq missed'[t]
                           /\ \A r \in Request : Sending(r, t) /\ task'[r] # task[r] =>
                                                 Peers[n] \subseteq missed'[t]
<1> DEFINE lost == {p \in Request : at[p] = n /\ (task[p] # None \/
                                                  (pc[p] # "new" /\ p \notin replied))}
           unsent(t) == UNION {IF Sending(p, t) THEN Peers[n] ELSE {} : p \in lost}
<1>1. /\ UNCHANGED <<store, requestVars, last>>
      /\ task' = [p \in Request |-> IF p \in lost THEN None ELSE task[p]]
      /\ pc' = [p \in Request |-> IF p \in lost /\ pc[p] \notin Outcome THEN "dead" ELSE pc[p]]
      /\ missed' = [t \in Tag |-> missed[t] \cup unsent(t)]
  BY DEF Crash
<1>2. \A r \in Request : /\ task'[r] = task[r] \/ (task'[r] = None /\ at[r] = n)
                         /\ task'[r] # task[r] => r \in lost
  BY <1>1
<1>3. \A r \in Request : pc'[r] = pc[r] \/ (pc'[r] = "dead" /\ pc[r] # "new")
  <2> SUFFICES ASSUME NEW r \in Request, pc'[r] # pc[r] PROVE pc'[r] = "dead" /\ pc[r] # "new"
    OBVIOUS
  <2>1. r \in lost /\ pc'[r] = "dead"
    BY <1>1
  <2>2. pc[r] = "new" => task[r] # None
    BY <2>1
  <2>3. pc[r] = "new" => task[r] = None
    BY DEF TypeInv, Arrived
  <2> QED
    BY <2>1, <2>2, <2>3
<1>4. ASSUME NEW t \in Tag, NEW r \in lost, Sending(r, t)
      PROVE  Peers[n] \subseteq missed'[t]
  BY <1>1, <1>4
<1> QED
  BY <1>1, <1>2, <1>3, <1>4

(* Only a put starts a task, of a blob only if it replicates it; the peers *)
(* of a task are those that its node knows, and it has none before it has  *)
(* read.                                                                   *)
LEMMA TaskInvStep ==
  ASSUME TaskInv, [Next]_vars, NEW r \in Request
  PROVE  TaskFits(r)'
<1>0. TypeInv /\ TypeOK /\ TaskFits(r)
  BY DEF TaskInv, TypeInv
<1>1. ASSUME task'[r] = task[r] \/ task'[r] = None,
             task[r] # None => op'[r] = op[r] /\ at'[r] = at[r] /\ key'[r] = key[r]
      PROVE  TaskFits(r)'
  BY <1>0, <1>1 DEF TaskFits, Replicates
<1>2. ASSUME NEW p \in Request, NEW o, NEW n, NEW k, Comes(p, o, n, k),
             \A q \in Request : q # p => task'[q] = task[q],
             \/ task'[p] = None
             \/ task' = task
             \/ /\ o = "put" /\ (k \in Blob => Replicates(k))
                /\ \E v \in Content : task'[p] = NewTask(v)
      PROVE  TaskFits(r)'
  <2>1. task[p] = None
    BY <1>0, <1>2 DEF Comes, TypeInv, Arrived
  <2>2. CASE r # p
    BY <1>1, <1>2, <2>2 DEF Comes
  <2>3. CASE r = p /\ task'[p] = None
    BY <1>1, <2>1, <2>3
  <2>4. CASE r = p /\ task' = task
    BY <1>1, <2>1, <2>4
  <2>5. CASE /\ r = p /\ o = "put" /\ (k \in Blob => Replicates(k))
             /\ \E v \in Content : task'[p] = NewTask(v)
    <3>1. task'[p].to = {} /\ task'[p].sent = {}
      BY <2>5, NewTaskIsTask
    <3>2. op'[p] = "put" /\ key'[p] = k
      BY <1>2, <2>5 DEF Comes
    <3> QED
      BY <2>5, <3>1, <3>2 DEF TaskFits, Replicates
  <2> QED
    BY <1>2, <2>2, <2>3, <2>4, <2>5
<1>3. ASSUME NEW p \in Request, Arrives(p) PROVE TaskFits(r)'
  <2>1. ASSUME NEW o, NEW n, NEW k, NEW l \in {"exists", "local"}, Begin(p, o, n, k, l)
        PROVE  TaskFits(r)'
    BY <1>0, <1>2, <2>1, BeginComes
  <2>2. ASSUME NEW n \in Node, NEW b \in Blob, PutBlob(p, n, b) PROVE TaskFits(r)'
    <3>1. Comes(p, "put", n, b)
      BY <1>0, <2>2, PutComes DEF PutBlob
    <3>2. \A q \in Request : q # p => task'[q] = task[q]
      BY <1>0, <2>2 DEF PutBlob, TypeOK
    <3>3. task'[p] = None \/ (Replicates(b) /\ task'[p] = NewTask(b))
      BY <1>0, <2>2 DEF PutBlob, TypeOK
    <3>4. b \in Content
      BY DEF Content
    <3> QED
      BY <1>2, <3>1, <3>2, <3>3, <3>4
  <2>3. ASSUME NEW n \in Node, NEW b \in Blob, CompleteUpload(p, n, b) PROVE TaskFits(r)'
    <3>1. Comes(p, "upload", n, b) /\ task' = task
      BY <1>0, <2>3, PutComes DEF CompleteUpload
    <3> QED
      BY <1>2, <3>1
  <2>4. ASSUME NEW n \in Node, NEW k \in Ref, NEW m \in Manifest, PutManifest(p, n, k, m)
        PROVE  TaskFits(r)'
    <3>1. Comes(p, "put", n, k)
      BY <1>0, <2>4, PutComes DEF PutManifest
    <3>2. \A q \in Request : q # p => task'[q] = task[q]
      BY <1>0, <2>4 DEF PutManifest, TypeOK
    <3>3. task'[p] = NewTask(m) /\ m \in Content
      BY <1>0, <2>4 DEF PutManifest, TypeOK, Content
    <3>4. k \notin Blob
      BY KeyAssumption DEF Ref
    <3> QED
      BY <1>2, <3>1, <3>2, <3>3, <3>4
  <2> QED
    BY <1>3, <2>1, <2>2, <2>3, <2>4, ArrivalKinds
<1>4. ASSUME NEW p \in Request, HandlerStep(p) PROVE TaskFits(r)'
  <2>1. UNCHANGED <<requestVars, task>>
    BY <1>0, <1>4, HandlerKinds DEF Quiet, Local, Cache, Delete
  <2> QED
    BY <1>1, <2>1 DEF requestVars
<1>5. ASSUME NEW p \in Request, NEW to, NEW sent, TaskAfter(p, to, sent), task[p] # None,
             to \cup sent \subseteq Peers[at[p]], UNCHANGED requestVars
      PROVE  TaskFits(r)'
  <2>1. CASE r # p
    BY <1>1, <1>5, <2>1 DEF TaskAfter, requestVars
  <2>2. CASE r = p
    BY <1>0, <1>5, <2>2 DEF TaskAfter, TaskFits, requestVars, Replicates
  <2> QED
    BY <2>1, <2>2
<1>6. ASSUME NEW p \in Request, SelectTargets(p) PROVE TaskFits(r)'
  <2>1. PICK to \in SUBSET Node : Selected(p, to)
    BY <1>0, <1>6, SelectTargetsIs
  <2>2. task[p] # None /\ UNCHANGED requestVars
    BY <1>0, <1>6, SelectTargetsIs
  <2> QED
    BY <1>5, <2>1, <2>2 DEF Selected
<1>7. ASSUME NEW p \in Request, NEW q \in Node, ToPeer(p, q) PROVE TaskFits(r)'
  <2>1. task[p] # None /\ UNCHANGED requestVars
    BY <1>7 DEF ToPeer
  <2>2. task[p].to \cup task[p].sent \subseteq Peers[at[p]]
    BY <2>1 DEF TaskInv, TaskFits
  <2>3. \E to, sent : TaskAfter(p, to, sent) /\ to \cup sent \subseteq task[p].to \cup task[p].sent
    BY <1>7 DEF ToPeer
  <2> QED
    BY <1>5, <2>1, <2>2, <2>3
<1>8. ASSUME NEW n \in Node, Crash(n) PROVE TaskFits(r)'
  BY <1>0, <1>1, <1>8, CrashIs DEF requestVars
<1>9. CASE UNCHANGED vars
  BY <1>1, <1>9 DEF vars, requestVars
<1> QED
  BY <1>0, <1>3, <1>4, <1>6, <1>7, <1>8, <1>9, TaskKinds DEF Next

LEMMA TaskInvariant == Spec => []TaskInv
<1>1. Init => TaskInv
  BY InitTypeInv DEF Init, TaskInv, TaskFits
<1>2. TaskInv /\ [Next]_vars => TaskInv'
  BY TypeStep, ArrivedStep, TaskInvStep DEF TaskInv, TypeInv
<1> QED
  BY <1>1, <1>2, PTL DEF Spec
-----------------------------------------------------------------------------
(* The task of p is still to try the node n, or may yet reach it. *)
ToBeSent(p, n) ==
  \/ task[p].stage = "read" /\ n \in Peers[at[p]]
  \/ n \in task[p].to \cup task[p].sent

Reached(t, n) ==
  store[n][t] = last[t] \/ \E p \in Request : Sending(p, t) /\ ToBeSent(p, n)

(* While the last put of a tag met no other, every task that still sends   *)
(* the tag sends what that put wrote, a pull of the tag goes to a node     *)
(* that the put did not reach, and a node that counts as reached has the   *)
(* manifest or is yet to get it from the task.                             *)
Agreed(t) ==
  /\ \A p \in Request : Sending(p, t) => task[p].val = last[t]
  /\ \A p \in Request : Pulling(p, t) => at[p] \in missed[t]
  /\ \A n \in Node \ missed[t] : Reached(t, n)

AgreeInv == TaskInv /\ \A t \in Tag : last[t] # None => Agreed(t)

(* A step that is not about t, or only takes it from the history. *)
LeavesTag(t) ==
  /\ last'[t] \in {last[t], None}
  /\ missed[t] \subseteq missed'[t]
  /\ \A n \in Node \ missed'[t] : store'[n][t] = store[n][t]
  /\ \A p \in Request : Sending(p, t) => Sending(p, t)' /\ task'[p] = task[p] /\ at'[p] = at[p]
  /\ \A p \in Request : Sending(p, t)' => Sending(p, t)
  /\ \A p \in Request : Pulling(p, t)' => Pulling(p, t) /\ at'[p] = at[p]

LEMMA TagLeft ==
  ASSUME AgreeInv, NEW t \in Tag, LeavesTag(t), last'[t] # None
  PROVE  Agreed(t)'
<1>1. last'[t] = last[t] /\ Agreed(t)
  BY DEF LeavesTag, AgreeInv
<1>2. ASSUME NEW p \in Request, Sending(p, t)' PROVE task'[p].val = last'[t]
  BY <1>1, <1>2 DEF LeavesTag, Agreed
<1>3. ASSUME NEW p \in Request, Pulling(p, t)' PROVE at'[p] \in missed'[t]
  BY <1>1, <1>3 DEF LeavesTag, Agreed
<1>4. ASSUME NEW n \in Node \ missed'[t] PROVE Reached(t, n)'
  <2>1. Reached(t, n) /\ store'[n][t] = store[n][t]
    BY <1>1 DEF LeavesTag, Agreed
  <2>2. CASE store[n][t] = last[t]
    BY <1>1, <2>1, <2>2 DEF Reached
  <2>3. ASSUME NEW p \in Request, Sending(p, t), ToBeSent(p, n) PROVE Reached(t, n)'
    <3>1. Sending(p, t)' /\ task'[p] = task[p] /\ at'[p] = at[p]
      BY <2>3 DEF LeavesTag
    <3>2. ToBeSent(p, n)'
      BY <2>3, <3>1 DEF ToBeSent
    <3> QED
      BY <3>1, <3>2 DEF Reached
  <2> QED
    BY <2>1, <2>2, <2>3 DEF Reached
<1> QED
  BY <1>2, <1>3, <1>4 DEF Agreed

(* A put of one key of one node writes no other. *)
LEMMA SetElsewhere ==
  ASSUME TypeOK, NEW n \in Node, NEW k \in Key, NEW v, Set(n, k, v), NEW m \in Node, NEW t \in Key
  PROVE  store'[m][t] = IF m = n /\ t = k THEN v ELSE store[m][t]
  BY DEF Set, TypeOK

LEMMA HandlerAgrees ==
  ASSUME AgreeInv, NEW p \in Request, HandlerStep(p), NEW t \in Tag, last'[t] # None
  PROVE  Agreed(t)'
<1> USE DEF requestVars, tagHistory
<1>0. TypeOK /\ t \in Key
  BY DEF AgreeInv, TaskInv, TypeInv, Key, Ref
<1>1. pc[p] # "new" => at[p] \in Node /\ key[p] \in Key
  BY DEF AgreeInv, TaskInv, TypeInv, Arrived
<1>2. CASE Quiet(p)
  <2>1. LeavesTag(t)
    BY <1>2 DEF Quiet, LeavesTag, Sending, Pulling
  <2> QED
    BY <2>1, TagLeft
<1>3. CASE Local(p)
  <2>1. /\ UNCHANGED <<store, requestVars, task, missed>> /\ pc[p] = "local"
        /\ \A r \in Request : r # p => pc'[r] = pc[r]
    BY <1>0, <1>3 DEF Local, Goto, TypeOK
  <2>2. last'[t] = last[t]
    BY <1>0, <1>3 DEF Local, TypeOK
  <2>3. CASE key[p] # t \/ HasHere(p)
    <3>1. pc'[p] \in {"search", "fetch", "cache"} => key[p] # t
      BY <1>0, <1>3, <2>3 DEF Local, Goto, TypeOK
    <3>2. \A r \in Request : Pulling(r, t)' => Pulling(r, t) /\ at'[r] = at[r]
      BY <2>1, <3>1 DEF Pulling
    <3>3. LeavesTag(t)
      BY <2>1, <2>2, <3>2 DEF LeavesTag, Sending
    <3> QED
      BY <3>3, TagLeft
  <2>4. CASE key[p] = t /\ ~HasHere(p)
    <3>1. \A q \in Request : ~Sending(q, t)
      BY <1>0, <1>3, <2>4 DEF Local
    <3>2. Agreed(t)
      BY <2>2 DEF AgreeInv
    <3>3. store[at[p]][t] # last[t] /\ at[p] \in Node
      BY <1>1, <2>1, <2>2, <2>4 DEF HasHere, Has
    <3>4. at[p] \in missed[t]
      BY <3>1, <3>2, <3>3 DEF Agreed, Reached
    <3>5. \A r \in Request : Pulling(r, t)' => at'[r] \in missed'[t]
      BY <2>1, <3>2, <3>4 DEF Agreed, Pulling
    <3>6. \A n \in Node \ missed'[t] : Reached(t, n)'
      BY <2>1, <2>2, <3>1, <3>2 DEF Agreed, Reached
    <3> QED
      BY <2>1, <3>1, <3>5, <3>6 DEF Agreed, Sending
  <2> QED
    BY <2>3, <2>4
<1>4. CASE Cache(p)
  <2>1. /\ UNCHANGED <<requestVars, task, last, missed>>
        /\ pc'[p] \in {"reread", "ok"} /\ pc[p] = "cache"
        /\ \A r \in Request : r # p => pc'[r] = pc[r]
    BY <1>0, <1>4 DEF Cache, Goto, TypeOK
  <2>2. key[p] = t => at[p] \in missed[t]
    BY <2>1 DEF AgreeInv, Agreed, Pulling
  <2>3. Set(at[p], key[p], val[p]) /\ at[p] \in Node /\ key[p] \in Key
    BY <1>1, <1>4 DEF Cache
  <2>4. \A n \in Node \ missed[t] : store'[n][t] = store[n][t]
    BY <1>0, <2>2, <2>3, SetElsewhere
  <2>5. LeavesTag(t)
    BY <2>1, <2>4 DEF LeavesTag, Sending, Pulling
  <2> QED
    BY <2>5, TagLeft
<1>5. CASE Delete(p)
  <2>1. /\ UNCHANGED <<requestVars, task, last>>
        /\ pc'[p] = "ok" /\ pc[p] = "delete"
        /\ \A r \in Request : r # p => pc'[r] = pc[r]
    BY <1>0, <1>5 DEF Delete, Goto, TypeOK
  <2>2. Set(at[p], key[p], None) /\ at[p] \in Node /\ key[p] \in Key
    BY <1>1, <1>5 DEF Delete
  <2>3. /\ missed[t] \subseteq missed'[t]
        /\ t = key[p] /\ HasHere(p) => at[p] \in missed'[t]
    BY <1>0, <1>5 DEF Delete, TypeOK
  <2>4. \A n \in Node \ missed'[t] : store'[n][t] = store[n][t]
    <3> SUFFICES ASSUME NEW n \in Node \ missed'[t] PROVE store'[n][t] = store[n][t]
      OBVIOUS
    <3>1. store'[n][t] = IF n = at[p] /\ t = key[p] THEN None ELSE store[n][t]
      BY <1>0, <2>2, SetElsewhere
    <3>2. n = at[p] /\ t = key[p] => store[n][t] = None
      BY <2>3 DEF HasHere, Has
    <3> QED
      BY <3>1, <3>2
  <2>5. LeavesTag(t)
    BY <2>1, <2>3, <2>4 DEF LeavesTag, Sending, Pulling
  <2> QED
    BY <2>5, TagLeft
<1> QED
  BY <1>0, <1>2, <1>3, <1>4, <1>5, HandlerKinds

LEMMA ArrivalAgrees ==
  ASSUME AgreeInv, NEW p \in Request, Arrives(p), NEW t \in Tag, last'[t] # None
  PROVE  Agreed(t)'
<1>0. TypeOK /\ t \in Key /\ TypeInv
  BY DEF AgreeInv, TaskInv, TypeInv, Key, Ref
<1>1. pc[p] = "new" => task[p] = None
  BY <1>0 DEF TypeInv, Arrived
<1>2. ASSUME NEW o, NEW n, NEW k, Comes(p, o, n, k),
             \A q \in Request : q # p => task'[q] = task[q],
             task'[p] = None \/ k # t,
             UNCHANGED <<last, missed>>, \A m \in Node : store'[m][t] = store[m][t]
      PROVE  Agreed(t)'
  <2>1. \A q \in Request : Pulling(q, t)' => Pulling(q, t) /\ at'[q] = at[q]
    BY <1>2 DEF Comes, Pulling
  <2>2. \A q \in Request : /\ Sending(q, t)' <=> Sending(q, t)
                           /\ Sending(q, t) => task'[q] = task[q] /\ at'[q] = at[q]
    BY <1>1, <1>2 DEF Comes, Sending
  <2>3. LeavesTag(t)
    BY <1>2, <2>1, <2>2 DEF LeavesTag
  <2> QED
    BY <2>3, TagLeft
<1>3. ASSUME NEW o, NEW n, NEW k, NEW l \in {"exists", "local"}, Begin(p, o, n, k, l)
      PROVE  Agreed(t)'
  <2>1. Comes(p, o, n, k) /\ UNCHANGED <<store, task, last, missed>>
    BY <1>0, <1>3, BeginComes
  <2> QED
    BY <1>1, <1>2, <2>1 DEF Comes
<1>4. ASSUME NEW n \in Node, NEW b \in Blob, PutBlob(p, n, b) \/ CompleteUpload(p, n, b)
      PROVE  Agreed(t)'
  <2>1. b # t /\ b \in Key
    BY KeyAssumption DEF Key
  <2>2. \E o : Comes(p, o, n, b)
    BY <1>0, <1>4, PutComes DEF PutBlob, CompleteUpload
  <2>3. Set(n, b, b) /\ UNCHANGED <<last, missed>>
    BY <1>4 DEF PutBlob, CompleteUpload, tagHistory
  <2>4. \A m \in Node : store'[m][t] = store[m][t]
    BY <1>0, <2>1, <2>3, SetElsewhere
  <2>5. \A q \in Request : q # p => task'[q] = task[q]
    BY <1>0, <1>4 DEF PutBlob, CompleteUpload, TypeOK
  <2> QED
    BY <1>2, <2>1, <2>2, <2>3, <2>4, <2>5
<1>5. ASSUME NEW n \in Node, NEW r \in Ref, NEW m \in Manifest, PutManifest(p, n, r, m)
      PROVE  Agreed(t)'
  <2>1. Comes(p, "put", n, r)
    BY <1>0, <1>5, PutComes DEF PutManifest
  <2>2. /\ task'[p] = NewTask(m) /\ m \in Content
        /\ \A q \in Request : q # p => task'[q] = task[q]
    BY <1>0, <1>5 DEF PutManifest, TypeOK, Content
  <2>3. \A k \in Key : /\ k # r /\ k # m => \A i \in Node : store'[i][k] = store[i][k]
                       /\ \A i \in Node : i # n => store'[i][k] = store[i][k]
    BY <1>0, <1>5 DEF PutManifest, TypeOK
  <2>4. t # m
    BY KeyAssumption
  <2>5. CASE r # t
    <3>1. last'[t] = last[t] /\ missed'[t] = missed[t]
      BY <1>5, <2>5 DEF PutManifest
    <3>2. \A i \in Node : store'[i][t] = store[i][t]
      BY <1>0, <2>3, <2>4, <2>5
    <3>3. \A q \in Request : Pulling(q, t)' => Pulling(q, t) /\ at'[q] = at[q]
      BY <2>1 DEF Comes, Pulling
    <3>4. \A q \in Request : /\ Sending(q, t)' <=> Sending(q, t)
                             /\ Sending(q, t) => task'[q] = task[q] /\ at'[q] = at[q]
      BY <1>1, <2>1, <2>2, <2>5 DEF Comes, Sending
    <3>5. LeavesTag(t)
      BY <3>1, <3>2, <3>3, <3>4 DEF LeavesTag
    <3> QED
      BY <3>5, TagLeft
  <2>6. CASE r = t
    <3>1. /\ \A q \in Request : ~Sending(q, t) /\ ~Pulling(q, t)
          /\ last'[t] = m
          /\ missed'[t] = Node \ (Peers[n] \cup {n})
      BY <1>5, <2>6 DEF PutManifest
    <3>2. store'[n][t] = m
      BY <1>0, <1>5, <2>4, <2>6 DEF PutManifest, TypeOK
    <3>3. /\ task'[p] # None /\ task'[p].val = m /\ task'[p].stage = "read"
          /\ at'[p] = n /\ key'[p] = t
      BY <2>1, <2>2, <2>6, NewTaskIsTask DEF Comes
    <3>4. \A q \in Request : ~Pulling(q, t)'
      BY <2>1, <3>1 DEF Comes, Pulling
    <3>5. \A q \in Request : Sending(q, t)' => q = p
      BY <2>1, <2>2, <3>1 DEF Comes, Sending
    <3>6. ASSUME NEW i \in Node \ missed'[t] PROVE Reached(t, i)'
      <4>1. CASE i = n
        BY <3>1, <3>2, <4>1 DEF Reached
      <4>2. CASE i # n
        <5>1. i \in Peers[n]
          BY <3>1, <4>2
        <5>2. ToBeSent(p, i)' /\ Sending(p, t)'
          BY <3>3, <5>1 DEF ToBeSent, Sending
        <5> QED
          BY <5>2 DEF Reached
      <4> QED
        BY <4>1, <4>2
    <3> QED
      BY <3>1, <3>3, <3>4, <3>5, <3>6 DEF Agreed
  <2> QED
    BY <2>5, <2>6
<1> QED
  BY <1>3, <1>4, <1>5, ArrivalKinds

(* A task that goes on keeps its promise for the nodes it still has. *)
LEMMA TaskGoesOn ==
  ASSUME AgreeInv, NEW t \in Tag, last[t] # None, last'[t] = last[t],
         NEW p \in Request, Sending(p, t), NEW to, NEW sent, TaskAfter(p, to, sent),
         UNCHANGED <<pc, requestVars>>, missed[t] \subseteq missed'[t],
         \A n \in Node \ missed'[t] :
           \/ store'[n][t] = store[n][t] /\ (ToBeSent(p, n) => n \in to \cup sent)
           \/ store'[n][t] = last[t]
  PROVE  Agreed(t)'
<1> USE DEF requestVars
<1>1. Agreed(t)
  BY DEF AgreeInv
<1>2. \A q \in Request : /\ q # p => (Sending(q, t)' <=> Sending(q, t)) /\ task'[q] = task[q]
                         /\ Sending(q, t)' => Sending(q, t)
  BY DEF TaskAfter, Sending
<1>3. ASSUME NEW q \in Request, Sending(q, t)' PROVE task'[q].val = last'[t]
  <2>1. CASE q # p
    BY <1>1, <1>2, <1>3, <2>1 DEF Agreed
  <2>2. CASE q = p
    <3>1. to \cup sent # {}
      BY <1>3, <2>2 DEF TaskAfter, Sending
    <3> QED
      BY <1>1, <2>2, <3>1 DEF TaskAfter, Agreed
  <2> QED
    BY <2>1, <2>2
<1>4. ASSUME NEW q \in Request, Pulling(q, t)' PROVE at'[q] \in missed'[t]
  BY <1>1, <1>4 DEF Agreed, Pulling
<1>5. ASSUME NEW n \in Node \ missed'[t] PROVE Reached(t, n)'
  <2>1. Reached(t, n)
    BY <1>1 DEF Agreed
  <2>2. CASE store'[n][t] = last[t]
    BY <2>2 DEF Reached
  <2>3. CASE store'[n][t] # last[t]
    <3>1. store'[n][t] = store[n][t] /\ (ToBeSent(p, n) => n \in to \cup sent)
      BY <2>3
    <3>2. PICK q \in Request : Sending(q, t) /\ ToBeSent(q, n)
      BY <2>1, <2>3, <3>1 DEF Reached
    <3>3. CASE q # p
      <4>1. Sending(q, t)' /\ task'[q] = task[q] /\ at'[q] = at[q]
        BY <1>2, <3>2, <3>3
      <4>2. ToBeSent(q, n)'
        BY <3>2, <4>1 DEF ToBeSent
      <4> QED
        BY <4>1, <4>2 DEF Reached
    <3>4. CASE q = p
      <4>1. n \in to \cup sent
        BY <3>1, <3>2, <3>4
      <4>2. task'[p] # None /\ task'[p].to = to /\ task'[p].sent = sent
        BY <4>1 DEF TaskAfter
      <4>3. ToBeSent(p, n)' /\ Sending(p, t)'
        BY <4>1, <4>2 DEF ToBeSent, Sending
      <4> QED
        BY <4>3 DEF Reached
    <3> QED
      BY <3>3, <3>4
  <2> QED
    BY <2>2, <2>3
<1> QED
  BY <1>3, <1>4, <1>5 DEF Agreed

LEMMA TaskAgrees ==
  ASSUME AgreeInv, NEW p \in Request, TaskStep(p), NEW t \in Tag, last'[t] # None
  PROVE  Agreed(t)'
<1> USE DEF requestVars
<1>0. TypeOK /\ t \in Key /\ t \in Ref /\ t \notin Blob /\ TypeInv /\ TaskFits(p)
  BY KeyAssumption DEF AgreeInv, TaskInv, TypeInv, Key, Ref
<1>1. CASE SelectTargets(p)
  <2>1. PICK to \in SUBSET Node : Selected(p, to)
    BY <1>0, <1>1, SelectTargetsIs
  <2>2. /\ UNCHANGED <<store, pc, requestVars, last>>
        /\ task[p] # None /\ task[p].stage = "read"
        /\ t # key[p] => missed'[t] = missed[t]
    BY <1>0, <1>1, SelectTargetsIs
  <2>3. CASE key[p] # t
    <3>1. LeavesTag(t)
      BY <2>1, <2>2, <2>3 DEF LeavesTag, Selected, TaskAfter, Sending, Pulling
    <3> QED
      BY <3>1, TagLeft
  <2>4. CASE key[p] = t
    <3>1. missed'[t] = missed[t] \cup (Peers[at[p]] \ to)
      BY <1>0, <2>1, <2>4 DEF Selected
    <3>2. \A n \in Node \ missed'[t] : ToBeSent(p, n) => n \in to
      BY <1>0, <2>2, <3>1 DEF ToBeSent, TaskFits
    <3>3. Sending(p, t) /\ TaskAfter(p, to, {})
      BY <2>1, <2>2, <2>4 DEF Sending, Selected
    <3> QED
      BY <2>2, <3>1, <3>2, <3>3, TaskGoesOn
  <2> QED
    BY <2>3, <2>4
<1>2. ASSUME NEW q \in Node, ToPeer(p, q) PROVE Agreed(t)'
  <2>1. task[p] # None /\ UNCHANGED <<pc, requestVars, last>>
    BY <1>2 DEF ToPeer
  <2>2. /\ task[p].val \in Content /\ key[p] \in Key
        /\ task[p].to \in SUBSET Node /\ task[p].sent \in SUBSET Node
    BY <1>0, <2>1, TaskParts
  <2>3. ASSUME Set(q, key[p], task[p].val) PROVE \A n \in Node :
               store'[n][t] = IF n = q /\ t = key[p] THEN task[p].val ELSE store[n][t]
    BY <1>0, <2>2, <2>3, SetElsewhere
  <2>4. /\ missed[t] \subseteq missed'[t]
        /\ key[p] # t => missed'[t] = missed[t]
    BY <1>2, <1>0 DEF ToPeer, Miss
  <2>5. CASE key[p] # t
    <3>1. \A n \in Node : store'[n][t] = store[n][t]
      BY <1>2, <2>3, <2>5 DEF ToPeer
    <3>2. \A r \in Request : r # p => task'[r] = task[r]
      BY <1>2 DEF ToPeer, TaskAfter
    <3>3. LeavesTag(t)
      BY <2>1, <2>4, <2>5, <3>1, <3>2 DEF LeavesTag, Sending, Pulling
    <3> QED
      BY <3>3, TagLeft
  <2>6. CASE key[p] = t
    <3>1. Sending(p, t) /\ last[t] # None /\ task[p].val = last[t]
      BY <2>1, <2>6 DEF AgreeInv, Agreed, Sending
    <3>2. task[p].to \cup task[p].sent # {} => task[p].stage # "read"
      BY <1>0, <2>1 DEF TaskFits
    <3>3. q \in task[p].to \cup task[p].sent
      BY <1>2 DEF ToPeer
    <3>4. \A n \in Node : ToBeSent(p, n) => n \in task[p].to \cup task[p].sent
      BY <3>2, <3>3 DEF ToBeSent
    <3>5. CASE /\ TaskAfter(p, task[p].to \ {q}, task[p].sent \cup {q})
               /\ UNCHANGED <<store, missed>>
      BY <2>1, <3>1, <3>4, <3>5, TaskGoesOn
    <3>6. CASE /\ Set(q, key[p], task[p].val)
               /\ TaskAfter(p, task[p].to, task[p].sent \ {q})
               /\ UNCHANGED missed
      <4>1. \A n \in Node \ missed'[t] :
              \/ store'[n][t] = store[n][t] /\ (ToBeSent(p, n) => n \in task[p].to \cup (task[p].sent \ {q}))
              \/ store'[n][t] = last[t]
        BY <2>3, <2>6, <3>1, <3>4, <3>6
      <4> QED
        BY <2>1, <2>4, <3>1, <3>6, <4>1, TaskGoesOn
    <3>7. CASE /\ TaskAfter(p, task[p].to \ {q}, task[p].sent \ {q})
               /\ Miss(key[p], {q})
               /\ UNCHANGED store
      <4>1. q \in missed'[t]
        BY <2>6, <3>7 DEF Miss
      <4> QED
        BY <2>1, <2>4, <3>1, <3>4, <3>7, <4>1, TaskGoesOn
    <3> QED
      BY <1>2, <3>5, <3>6, <3>7 DEF ToPeer
  <2> QED
    BY <2>5, <2>6
<1> QED
  BY <1>0, <1>1, <1>2, TaskKinds

(* A crash takes the tasks of its node: the peers they were for are missed.*)
LEMMA CrashAgrees ==
  ASSUME AgreeInv, NEW n \in Node, Crash(n), NEW t \in Tag, last'[t] # None
  PROVE  Agreed(t)'
<1> USE DEF requestVars
<1>0. TypeInv /\ \A p \in Request : TaskFits(p)
  BY DEF AgreeInv, TaskInv
<1>1. /\ UNCHANGED <<store, requestVars, last>>
      /\ \A r \in Request : /\ task'[r] = task[r] \/ (task'[r] = None /\ at[r] = n)
                            /\ pc'[r] = pc[r] \/ pc'[r] = "dead"
      /\ missed[t] \subseteq missed'[t]
      /\ \A r \in Request : Sending(r, t) /\ task'[r] # task[r] => Peers[n] \subseteq missed'[t]
  BY <1>0, CrashIs
<1>2. Agreed(t)
  BY <1>1 DEF AgreeInv
<1>3. \A r \in Request : Sending(r, t)' => task'[r].val = last'[t]
  BY <1>1, <1>2 DEF Agreed, Sending
<1>4. \A r \in Request : Pulling(r, t)' => at'[r] \in missed'[t]
  BY <1>1, <1>2 DEF Agreed, Pulling
<1>5. ASSUME NEW i \in Node \ missed'[t] PROVE Reached(t, i)'
  <2>1. Reached(t, i)
    BY <1>1, <1>2 DEF Agreed
  <2>2. ASSUME NEW r \in Request, Sending(r, t), ToBeSent(r, i) PROVE Reached(t, i)'
    <3>1. i \in Peers[at[r]]
      BY <1>0, <2>2 DEF ToBeSent, TaskFits, Sending
    <3>2. task'[r] = task[r]
      BY <1>1, <2>2, <3>1
    <3>3. Sending(r, t)' /\ ToBeSent(r, i)'
      BY <1>1, <2>2, <3>2 DEF Sending, ToBeSent
    <3> QED
      BY <3>3 DEF Reached
  <2> QED
    BY <1>1, <2>1, <2>2 DEF Reached
<1> QED
  BY <1>3, <1>4, <1>5 DEF Agreed

(* After a put of a tag that met no other put or pull of it, every node    *)
(* that its task reached has the manifest.                                 *)
THEOREM SerialPutsAgreeInvariant == Spec => []SerialPutsAgree
<1>1. Init => AgreeInv
  BY InitTypeInv DEF Init, AgreeInv, TaskInv, TaskFits
<1>2. AgreeInv /\ [Next]_vars => AgreeInv'
  <2> SUFFICES ASSUME AgreeInv, [Next]_vars PROVE AgreeInv'
    OBVIOUS
  <2>1. TaskInv'
    BY TypeStep, ArrivedStep, TaskInvStep DEF AgreeInv, TaskInv, TypeInv
  <2>2. ASSUME NEW t \in Tag, last'[t] # None PROVE Agreed(t)'
    <3>1. CASE UNCHANGED vars
      <4>1. LeavesTag(t)
        BY <3>1 DEF vars, LeavesTag, requestVars, tagHistory, Sending, Pulling
      <4> QED
        BY <2>2, <4>1, TagLeft
    <3> QED
      BY <2>2, <3>1, ArrivalAgrees, HandlerAgrees, TaskAgrees, CrashAgrees DEF Next
  <2> QED
    BY <2>1, <2>2 DEF AgreeInv
<1>3. AgreeInv => SerialPutsAgree
  BY DEF AgreeInv, Agreed, Reached, SerialPutsAgree
<1> QED
  BY <1>1, <1>2, <1>3, PTL DEF Spec
-----------------------------------------------------------------------------
(* The requests that came for a blob, the puts of it that replicate, and   *)
(* those of them that have chosen their peers.                             *)
Served(b) == {p \in Request : key[p] = b /\ pc[p] # "new"}
Pushes(b) == {p \in Served(b) : op[p] = "put" /\ Replicates(b)}
Started(b) == {p \in Pushes(b) : task[p] # None => task[p].stage # "read"}

(* U holds every node that has b or gets it without a request there. *)
Covers(U, b) ==
  /\ \A n \in Node : Has(n, b) => n \in U \/ \E p \in Served(b) : at[p] = n
  /\ \A p \in Request : Sending(p, b) => task[p].to \cup task[p].sent \subseteq U

(* A blob is where requests brought it or in a set of nodes that no more   *)
(* than the chosen peers of the started puts make up, and what tasks are   *)
(* still to send goes to this set.                                         *)
Spread(b) ==
  /\ IsFiniteSet(Pushes(b))
  /\ \E U \in SUBSET Node : /\ IsFiniteSet(U)
                            /\ Cardinality(U) <= Copies * Cardinality(Started(b))
                            /\ Covers(U, b)

SpreadInv == TaskInv /\ \A b \in Blob : Spread(b)

LEMMA TimesMonotone ==
  ASSUME NEW c \in Nat, NEW i \in Nat, NEW j \in Nat, i <= j
  PROVE  c * i <= c * j /\ c * i \in Nat /\ c * j \in Nat
<1>1. PICK d \in Nat : j = i + d
  <2>1. j - i \in Nat /\ j = i + (j - i)
    OBVIOUS
  <2> QED
    BY <2>1
<1>2. c * i \in Nat /\ c * d \in Nat /\ c * j \in Nat
  OBVIOUS
<1>3. c * (i + d) = c * i + c * d
  OBVIOUS
<1> QED
  BY <1>1, <1>2, <1>3

(* A step that sends b to nobody else.  *)
LeavesBlob(b) ==
  /\ \A p \in Request : pc[p] # "new" => /\ pc'[p] # "new" /\ op'[p] = op[p]
                                         /\ at'[p] = at[p] /\ key'[p] = key[p]
  /\ \E p \in Request : \A q \in Request : q # p /\ pc[q] = "new" => pc'[q] = "new"
  /\ \A n \in Node : Has(n, b)' =>
       \/ Has(n, b)
       \/ \E p \in Request : key'[p] = b /\ pc'[p] # "new" /\ at'[p] = n
       \/ \E p \in Request : Sending(p, b) /\ n \in task[p].sent
  /\ \A p \in Request : task'[p] = None \/ task'[p] = task[p] \/ task'[p].stage # "read"
                        \/ pc[p] = "new"
  /\ \A p \in Request : Sending(p, b)' =>
       \/ task'[p].to \cup task'[p].sent = {}
       \/ Sending(p, b) /\ task'[p].to \cup task'[p].sent \subseteq task[p].to \cup task[p].sent

LEMMA PushesGrow ==
  ASSUME NEW b \in Blob, IsFiniteSet(Pushes(b)), LeavesBlob(b)
  PROVE  IsFiniteSet(Pushes(b))' /\ Served(b) \subseteq Served(b)' /\ Started(b) \subseteq Started(b)'
<1>1. Served(b) \subseteq Served(b)'
  BY DEF LeavesBlob, Served
<1>2. Started(b) \subseteq Started(b)'
  BY <1>1 DEF LeavesBlob, Served, Pushes, Started, Replicates
<1>3. PICK p \in Request : \A q \in Request : q # p /\ pc[q] = "new" => pc'[q] = "new"
  BY DEF LeavesBlob
<1>4. Pushes(b)' \subseteq Pushes(b) \cup {p}
  BY <1>3 DEF LeavesBlob, Served, Pushes, Replicates
<1>5. IsFiniteSet(Pushes(b) \cup {p})
  BY FS_AddElement
<1>6. IsFiniteSet(Pushes(b)')
  BY <1>4, <1>5, FS_Subset
<1> QED
  BY <1>1, <1>2, <1>6

LEMMA BlobLeft ==
  ASSUME SpreadInv, NEW b \in Blob, LeavesBlob(b)
  PROVE  Spread(b)'
<1>1. Spread(b)
  BY DEF SpreadInv
<1>2. IsFiniteSet(Pushes(b))' /\ Served(b) \subseteq Served(b)' /\ Started(b) \subseteq Started(b)'
  BY <1>1, PushesGrow DEF Spread
<1>3. PICK U \in SUBSET Node : /\ IsFiniteSet(U)
                               /\ Cardinality(U) <= Copies * Cardinality(Started(b))
                               /\ Covers(U, b)
  BY <1>1 DEF Spread
<1>4. Covers(U, b)'
  <2>1. ASSUME NEW n \in Node, Has(n, b)' PROVE n \in U \/ \E p \in Served(b)' : at'[p] = n
    <3>1. CASE Has(n, b)
      <4>1. n \in U \/ \E p \in Served(b) : at[p] = n
        BY <1>3, <3>1 DEF Covers
      <4>2. \A p \in Served(b) : at'[p] = at[p]
        BY DEF LeavesBlob, Served
      <4> QED
        BY <1>2, <4>1, <4>2
    <3>2. CASE \E p \in Request : key'[p] = b /\ pc'[p] # "new" /\ at'[p] = n
      BY <3>2 DEF Served
    <3>3. CASE \E p \in Request : Sending(p, b) /\ n \in task[p].sent
      BY <1>3, <3>3 DEF Covers
    <3> QED
      BY <2>1, <3>1, <3>2, <3>3 DEF LeavesBlob
  <2>2. ASSUME NEW p \in Request, Sending(p, b)'
        PROVE  task'[p].to \cup task'[p].sent \subseteq U
    BY <1>3, <2>2 DEF LeavesBlob, Covers
  <2> QED
    BY <2>1, <2>2 DEF Covers
<1>5. Cardinality(U) <= Copies * Cardinality(Started(b)')
  <2>1. IsFiniteSet(Started(b)')
    <3>1. Started(b)' \subseteq Pushes(b)'
      BY DEF Started
    <3> QED
      BY <1>2, <3>1, FS_Subset
  <2>2. IsFiniteSet(Started(b)) /\ Cardinality(Started(b)) <= Cardinality(Started(b)')
    BY <1>2, <2>1, FS_Subset
  <2>3. Cardinality(U) \in Nat /\ Cardinality(Started(b)) \in Nat /\ Cardinality(Started(b)') \in Nat
    BY <1>3, <2>1, <2>2, FS_CardinalityType
  <2>4. Copies * Cardinality(Started(b)) <= Copies * Cardinality(Started(b)')
    BY <2>2, <2>3, CopiesNat, TimesMonotone
  <2>5. Copies * Cardinality(Started(b)) \in Int /\ Copies * Cardinality(Started(b)') \in Int
    BY <2>3, CopiesNat
  <2> QED
    BY <1>3, <2>3, <2>4, <2>5
<1>6. Copies' = Copies
  BY DEF Copies
<1> QED
  BY <1>2, <1>3, <1>4, <1>5, <1>6 DEF Spread

LEMMA HandlerSpreads ==
  ASSUME SpreadInv, NEW p \in Request, HandlerStep(p), NEW b \in Blob
  PROVE  LeavesBlob(b)
<1> USE DEF requestVars, tagHistory
<1>0. TypeOK /\ b \in Key
  BY DEF SpreadInv, TaskInv, TypeInv, Key
<1>1. pc[p] # "new" => at[p] \in Node /\ key[p] \in Key
  BY DEF SpreadInv, TaskInv, TypeInv, Arrived
<1>2. ASSUME UNCHANGED <<requestVars, task>>, pc[p] # "new", pc'[p] # "new",
             \A r \in Request : r # p => pc'[r] = pc[r],
             \A n \in Node : store'[n][b] # None => \/ store[n][b] # None
                                                    \/ n = at[p] /\ b = key[p]
      PROVE  LeavesBlob(b)
  <2>1. \A n \in Node : Has(n, b)' => \/ Has(n, b)
                                      \/ key'[p] = b /\ pc'[p] # "new" /\ at'[p] = n
    BY <1>2 DEF Has
  <2> QED
    BY <1>2, <2>1 DEF LeavesBlob, Sending
<1>3. CASE Quiet(p)
  BY <1>2, <1>3 DEF Quiet
<1>4. CASE Local(p)
  <2>1. /\ UNCHANGED <<store, requestVars, task>> /\ pc[p] # "new" /\ pc'[p] # "new"
        /\ \A r \in Request : r # p => pc'[r] = pc[r]
    BY <1>0, <1>4 DEF Local, Goto, TypeOK
  <2> QED
    BY <1>2, <2>1
<1>5. CASE Cache(p) \/ Delete(p)
  <2>1. /\ UNCHANGED <<requestVars, task>> /\ pc[p] # "new" /\ pc'[p] # "new"
        /\ \A r \in Request : r # p => pc'[r] = pc[r]
    BY <1>0, <1>5 DEF Cache, Delete, Goto, TypeOK
  <2>2. \E v : Set(at[p], key[p], v)
    BY <1>5 DEF Cache, Delete
  <2>3. \A n \in Node : n # at[p] \/ b # key[p] => store'[n][b] = store[n][b]
    BY <1>0, <1>1, <2>1, <2>2, SetElsewhere
  <2> QED
    BY <1>2, <2>1, <2>3
<1> QED
  BY <1>0, <1>3, <1>4, <1>5, HandlerKinds

LEMMA ArrivalSpreads ==
  ASSUME SpreadInv, NEW p \in Request, Arrives(p), NEW b \in Blob
  PROVE  LeavesBlob(b)
<1>0. TypeOK /\ b \in Key /\ TypeInv
  BY DEF SpreadInv, TaskInv, TypeInv, Key
<1>1. pc[p] = "new" => task[p] = None
  BY <1>0 DEF TypeInv, Arrived
<1>2. ASSUME NEW o, NEW n \in Node, NEW k, Comes(p, o, n, k),
             \A q \in Request : q # p => task'[q] = task[q],
             task'[p] # None => task'[p].to \cup task'[p].sent = {},
             \A m \in Node : store'[m][b] # None => store[m][b] # None \/ (m = n /\ k = b)
      PROVE  LeavesBlob(b)
  <2>1. \A m \in Node : Has(m, b)' => \/ Has(m, b)
                                      \/ key'[p] = b /\ pc'[p] # "new" /\ at'[p] = m
    BY <1>2 DEF Has, Comes
  <2>2. \A q \in Request : Sending(q, b)' =>
          \/ task'[q].to \cup task'[q].sent = {}
          \/ Sending(q, b) /\ task'[q].to \cup task'[q].sent \subseteq task[q].to \cup task[q].sent
    BY <1>2 DEF Comes, Sending
  <2>3. \A q \in Request : pc[q] # "new" => /\ pc'[q] # "new" /\ op'[q] = op[q] /\ task'[q] = task[q]
                                            /\ at'[q] = at[q] /\ key'[q] = key[q]
    BY <1>2 DEF Comes
  <2>4. \A q \in Request : q # p /\ pc[q] = "new" => pc'[q] = "new"
    BY <1>2 DEF Comes
  <2> QED
    BY <2>1, <2>2, <2>3, <2>4 DEF LeavesBlob
<1>3. ASSUME NEW o, NEW n \in Node, NEW k, NEW l \in {"exists", "local"}, Begin(p, o, n, k, l)
      PROVE  LeavesBlob(b)
  <2>1. Comes(p, o, n, k) /\ UNCHANGED <<store, task>>
    BY <1>0, <1>3, BeginComes
  <2> QED
    BY <1>1, <1>2, <2>1 DEF Comes
<1>4. ASSUME NEW n \in Node, NEW k \in Blob, PutBlob(p, n, k) \/ CompleteUpload(p, n, k)
      PROVE  LeavesBlob(b)
  <2>1. \E o : Comes(p, o, n, k)
    BY <1>0, <1>4, PutComes DEF PutBlob, CompleteUpload
  <2>2. Set(n, k, k) /\ k \in Key
    BY <1>4 DEF PutBlob, CompleteUpload, Key
  <2>3. \A m \in Node : m # n \/ k # b => store'[m][b] = store[m][b]
    BY <1>0, <2>2, SetElsewhere
  <2>4. \A q \in Request : q # p => task'[q] = task[q]
    BY <1>0, <1>4 DEF PutBlob, CompleteUpload, TypeOK
  <2>5. task'[p] = None \/ task'[p] = NewTask(k)
    BY <1>0, <1>1, <1>4 DEF PutBlob, CompleteUpload, TypeOK, Put
  <2>6. k \in Content
    BY DEF Content
  <2>7. task'[p] # None => task'[p].to \cup task'[p].sent = {}
    BY <2>5, <2>6, NewTaskIsTask
  <2> QED
    BY <1>2, <2>1, <2>3, <2>4, <2>7
<1>5. ASSUME NEW n \in Node, NEW r \in Ref, NEW m \in Manifest, PutManifest(p, n, r, m)
      PROVE  LeavesBlob(b)
  <2>1. Comes(p, "put", n, r)
    BY <1>0, <1>5, PutComes DEF PutManifest
  <2>2. /\ task'[p] = NewTask(m) /\ m \in Content
        /\ \A q \in Request : q # p => task'[q] = task[q]
    BY <1>0, <1>5 DEF PutManifest, TypeOK, Content
  <2>3. b # r /\ b # m
    BY KeyAssumption DEF Ref
  <2>4. \A i \in Node : store'[i][b] = store[i][b]
    BY <1>0, <1>5, <2>3 DEF PutManifest, TypeOK
  <2>5. task'[p].to \cup task'[p].sent = {}
    BY <2>2, NewTaskIsTask
  <2> QED
    BY <1>2, <2>1, <2>2, <2>4, <2>5
<1> QED
  BY <1>3, <1>4, <1>5, ArrivalKinds

LEMMA ToPeerSpreads ==
  ASSUME SpreadInv, NEW p \in Request, NEW q \in Node, ToPeer(p, q), NEW b \in Blob
  PROVE  LeavesBlob(b)
<1> USE DEF requestVars
<1>0. TypeOK /\ b \in Key /\ TypeInv
  BY DEF SpreadInv, TaskInv, TypeInv, Key
<1>1. task[p] # None /\ UNCHANGED <<pc, requestVars>>
  BY DEF ToPeer
<1>2. key[p] \in Key
  BY <1>0, <1>1, TaskParts
<1>3. \A n \in Node : Has(n, b)' => \/ Has(n, b)
                                    \/ Sending(p, b) /\ n \in task[p].sent
  <2>1. CASE Set(q, key[p], task[p].val) /\ q \in task[p].sent
    <3>1. \A n \in Node : n # q \/ b # key[p] => store'[n][b] = store[n][b]
      BY <1>0, <1>2, <2>1, SetElsewhere
    <3> QED
      BY <1>1, <2>1, <3>1 DEF Has, Sending
  <2>2. CASE UNCHANGED store
    BY <2>2 DEF Has
  <2> QED
    BY <2>1, <2>2 DEF ToPeer
<1>4. PICK to, sent : TaskAfter(p, to, sent) /\ to \cup sent \subseteq task[p].to \cup task[p].sent
  BY DEF ToPeer
<1>5. \A r \in Request : task'[r] = None \/ task'[r] = task[r] \/ task'[r].stage # "read"
  BY <1>4 DEF TaskAfter
<1>6. \A r \in Request : Sending(r, b)' =>
        Sending(r, b) /\ task'[r].to \cup task'[r].sent \subseteq task[r].to \cup task[r].sent
  BY <1>1, <1>4 DEF TaskAfter, Sending
<1> QED
  BY <1>1, <1>3, <1>5, <1>6 DEF LeavesBlob

(* A put that chooses its peers has its share of the bound for them. *)
LEMMA SelectSpreads ==
  ASSUME SpreadInv, NEW p \in Request, SelectTargets(p), NEW b \in Blob
  PROVE  Spread(b)'
<1> USE DEF requestVars
<1>0. TypeInv /\ TaskFits(p) /\ Spread(b)
  BY DEF SpreadInv, TaskInv
<1>1. PICK to \in SUBSET Node : Selected(p, to)
  BY <1>0, SelectTargetsIs
<1>2. /\ UNCHANGED <<store, pc, requestVars>>
      /\ task[p] # None /\ task[p].stage = "read"
  BY <1>0, SelectTargetsIs
<1>3. TaskAfter(p, to, {})
  BY <1>1 DEF Selected
<1>4. CASE key[p] # b
  <2>1. LeavesBlob(b)
    BY <1>2, <1>3, <1>4 DEF LeavesBlob, TaskAfter, Sending, Has
  <2> QED
    BY <2>1, BlobLeft
<1>5. CASE key[p] = b
  <2>1. IsFiniteSet(to) /\ Cardinality(to) <= Copies
    BY <1>1, <1>5 DEF Selected
  <2>2. p \in Pushes(b) /\ p \notin Started(b)
    BY <1>0, <1>2, <1>5, TaskParts DEF Started, Pushes, Served, TaskFits
  <2>3. Pushes(b)' = Pushes(b) /\ Served(b)' = Served(b)
    BY <1>2 DEF Pushes, Served, Replicates
  <2>4. Started(b)' = Started(b) \cup {p}
    <3>1. task'[p] # None => task'[p].stage # "read"
      BY <1>3 DEF TaskAfter
    <3>2. \A q \in Pushes(b) : q # p => task'[q] = task[q]
      BY <1>3 DEF TaskAfter, Pushes, Served
    <3> QED
      BY <2>2, <2>3, <3>1, <3>2 DEF Started
  <2>5. PICK U \in SUBSET Node : /\ IsFiniteSet(U)
                                 /\ Cardinality(U) <= Copies * Cardinality(Started(b))
                                 /\ Covers(U, b)
    BY <1>0 DEF Spread
  <2>6. Covers(U \cup to, b)'
    <3>1. \A n \in Node : Has(n, b)' => n \in U \cup to \/ \E r \in Served(b)' : at'[r] = n
      BY <1>2, <2>3, <2>5 DEF Covers, Has
    <3>2. ASSUME NEW r \in Request, Sending(r, b)'
          PROVE  task'[r].to \cup task'[r].sent \subseteq U \cup to
      <4>1. CASE r = p
        BY <1>3, <3>2, <4>1 DEF TaskAfter, Sending
      <4>2. CASE r # p
        BY <1>2, <1>3, <2>5, <3>2, <4>2 DEF TaskAfter, Sending, Covers
      <4> QED
        BY <4>1, <4>2
    <3> QED
      BY <3>1, <3>2 DEF Covers
  <2>7. IsFiniteSet(U \cup to) /\ Cardinality(U \cup to) <= Copies * Cardinality(Started(b)')
    <3>1. IsFiniteSet(U \cup to) /\ Cardinality(U \cup to) <= Cardinality(U) + Cardinality(to)
      <4>1. /\ IsFiniteSet(U \cup to) /\ IsFiniteSet(U \cap to)
            /\ Cardinality(U \cup to) = Cardinality(U) + Cardinality(to) - Cardinality(U \cap to)
        BY <2>1, <2>5, FS_Union, FS_Intersection
      <4>2. Cardinality(U \cap to) \in Nat /\ Cardinality(U) \in Nat /\ Cardinality(to) \in Nat
        BY <2>1, <2>5, <4>1, FS_CardinalityType
      <4> QED
        BY <4>1, <4>2
    <3>2. IsFiniteSet(Started(b))
      <4>1. Started(b) \subseteq Pushes(b) /\ IsFiniteSet(Pushes(b))
        BY <1>0 DEF Started, Spread
      <4> QED
        BY <4>1, FS_Subset
    <3>3. Cardinality(Started(b)') = Cardinality(Started(b)) + 1
      BY <2>2, <2>4, <3>2, FS_AddElement
    <3> DEFINE c == Cardinality(Started(b))
    <3>4. c \in Nat /\ Cardinality(U) \in Nat /\ Cardinality(to) \in Nat /\ Cardinality(U \cup to) \in Nat
      BY <2>1, <2>5, <3>1, <3>2, FS_CardinalityType
    <3>5. Copies * (c + 1) = Copies * c + Copies /\ Copies * c \in Nat
      BY <3>4, CopiesNat
    <3>6. Cardinality(U \cup to) <= Copies * (c + 1)
      BY <2>1, <2>5, <3>1, <3>4, <3>5, CopiesNat
    <3> QED
      BY <3>1, <3>3, <3>6
  <2>8. Copies' = Copies /\ (U \cup to) \in SUBSET Node
    BY DEF Copies
  <2> QED
    BY <1>0, <2>3, <2>6, <2>7, <2>8 DEF Spread
<1> QED
  BY <1>4, <1>5

LEMMA CrashSpreads ==
  ASSUME SpreadInv, NEW n \in Node, Crash(n), NEW b \in Blob
  PROVE  LeavesBlob(b)
<1> USE DEF requestVars
<1>1. TypeInv
  BY DEF SpreadInv, TaskInv
<1>2. /\ UNCHANGED <<store, requestVars>>
      /\ \A r \in Request : /\ task'[r] = task[r] \/ task'[r] = None
                            /\ pc'[r] = pc[r] \/ (pc'[r] = "dead" /\ pc[r] # "new")
  BY <1>1, CrashIs
<1>3. Request # {}
  BY DEF Crash
<1> QED
  BY <1>2, <1>3 DEF LeavesBlob, Sending, Has

(* A blob is on no more nodes than requests brought it to, and the factor  *)
(* times the puts that replicate.                                          *)
THEOREM BoundedSpreadInvariant == Spec => []BoundedSpread
<1>1. Init => SpreadInv
  <2> SUFFICES ASSUME Init PROVE SpreadInv
    OBVIOUS
  <2>1. TaskInv
    BY InitTypeInv DEF Init, TaskInv, TaskFits
  <2>2. ASSUME NEW b \in Blob PROVE Spread(b)
    <3>1. Served(b) = {} /\ Pushes(b) = {} /\ Started(b) = {}
      BY DEF Init, Served, Pushes, Started
    <3>2. Covers({}, b)
      BY DEF Init, Covers, Has, Sending, Key
    <3>3. 0 <= Copies * 0
      BY CopiesNat
    <3> QED
      BY <3>1, <3>2, <3>3, FS_EmptySet DEF Spread
  <2> QED
    BY <2>1, <2>2 DEF SpreadInv
<1>2. SpreadInv /\ [Next]_vars => SpreadInv'
  <2> SUFFICES ASSUME SpreadInv, [Next]_vars PROVE SpreadInv'
    OBVIOUS
  <2>1. TypeInv /\ TaskInv'
    BY TypeStep, ArrivedStep, TaskInvStep DEF SpreadInv, TaskInv, TypeInv
  <2>2. ASSUME NEW b \in Blob PROVE Spread(b)'
    <3>1. CASE UNCHANGED vars
      <4>1. UNCHANGED <<store, pc, op, at, key, task>>
        BY <3>1 DEF vars, requestVars
      <4>2. Pushes(b)' = Pushes(b) /\ Started(b)' = Started(b)
        BY <4>1 DEF Covers, Has, Sending, Served, Pushes, Started, Replicates
      <4>3. \A U : Covers(U, b)' = Covers(U, b)
        BY <4>1 DEF Covers, Has, Sending, Served
      <4> QED
        BY <4>2, <4>3 DEF SpreadInv, Spread, Copies
    <3>2. ASSUME NEW p \in Request, TaskStep(p) PROVE Spread(b)'
      BY <2>1, <3>2, TaskKinds, ToPeerSpreads, SelectSpreads, BlobLeft
    <3> QED
      BY <3>1, <3>2, ArrivalSpreads, HandlerSpreads, CrashSpreads, BlobLeft DEF Next
  <2> QED
    BY <2>1, <2>2 DEF SpreadInv
<1>3. SpreadInv => BoundedSpread
  <2> SUFFICES ASSUME SpreadInv, NEW b \in Blob
               PROVE  Cardinality(Holders(b) \ {at[p] : p \in Served(b)})
                        <= Copies * Cardinality(Pushes(b))
    BY DEF BoundedSpread, Served, Pushes
  <2>1. PICK U \in SUBSET Node : /\ IsFiniteSet(U)
                                 /\ Cardinality(U) <= Copies * Cardinality(Started(b))
                                 /\ Covers(U, b)
    BY DEF SpreadInv, Spread
  <2>2. Holders(b) \ {at[p] : p \in Served(b)} \subseteq U
    BY <2>1 DEF Covers, Holders
  <2> DEFINE others == Holders(b) \ {at[p] : p \in Served(b)}
  <2>3. IsFiniteSet(others) /\ Cardinality(others) <= Cardinality(U)
    BY <2>1, <2>2, FS_Subset
  <2>4. IsFiniteSet(Pushes(b)) /\ Started(b) \subseteq Pushes(b)
    BY DEF SpreadInv, Spread, Started
  <2>5. IsFiniteSet(Started(b)) /\ Cardinality(Started(b)) <= Cardinality(Pushes(b))
    BY <2>4, FS_Subset
  <2>6. /\ Cardinality(others) \in Nat /\ Cardinality(U) \in Nat
        /\ Cardinality(Started(b)) \in Nat /\ Cardinality(Pushes(b)) \in Nat
    BY <2>1, <2>3, <2>4, <2>5, FS_CardinalityType
  <2>7. /\ Copies * Cardinality(Started(b)) <= Copies * Cardinality(Pushes(b))
        /\ Copies * Cardinality(Started(b)) \in Nat /\ Copies * Cardinality(Pushes(b)) \in Nat
    BY <2>5, <2>6, CopiesNat, TimesMonotone
  <2> HIDE DEF others
  <2>8. Cardinality(others) <= Copies * Cardinality(Pushes(b))
    BY <2>1, <2>3, <2>6, <2>7
  <2> QED
    BY <2>8 DEF others
<1> QED
  BY <1>1, <1>2, <1>3, PTL DEF Spec
-----------------------------------------------------------------------------
(* What the requests do together is a content network.                     *)

(* The copies that p has under way, and what it is to delete. *)
Carries(p, c) ==
  \/ pc[p] = "cache" /\ c = <<at[p], key[p], val[p]>>
  \/ task[p] # None /\ \E q \in Bound(p) : c = <<q, key[p], task[p].val>>

Condemns(p, c) ==
  /\ pc[p] \notin Outcome \cup {"new"} /\ op[p] = "delete"
  /\ c = <<at[p], key[p]>>

(* Who is about to keep something has it, and only a DELETE deletes, which *)
(* does nothing else.                                                      *)
Orderly(p) ==
  /\ pc[p] = "cache" => val[p] # None
  /\ pc[p] = "delete" => op[p] = "delete"
  /\ op[p] = "delete" => pc[p] \in {"exists", "probe", "delete"} \cup Outcome

NetworkInv == TaskInv /\ \A p \in Request : Orderly(p)

(* A step that leaves p where it is. *)
Still(p) ==
  /\ pc'[p] = pc[p] /\ op'[p] = op[p] /\ at'[p] = at[p] /\ key'[p] = key[p]
  /\ val'[p] = val[p] /\ task'[p] = task[p]

(* A step of p, or of its task, and of nobody else. *)
Only(p) == pc[p] # "new" /\ pc'[p] # "new" /\ \A r \in Request : r # p => Still(r)

(* A step of p that gets nothing for it to carry or to delete. *)
Lapses(p) ==
  /\ Only(p) /\ store' = store
  /\ \A c : Carries(p, c)' => Carries(p, c)
  /\ \A c : Condemns(p, c)' => Condemns(p, c)
-----------------------------------------------------------------------------
LEMMA CopiesAre ==
  /\ \A c : c \in UnderWay <=> \E p \in Request : Carries(p, c)
  /\ \A c : c \in UnderWay' <=> \E p \in Request : Carries(p, c)'
  BY DEF UnderWay, Carries

LEMMA DoomedAre ==
  /\ \A c : c \in Doomed <=> \E p \in Request : Condemns(p, c)
  /\ \A c : c \in Doomed' <=> \E p \in Request : Condemns(p, c)'
  BY DEF Doomed, Begun, Condemns

LEMMA StillSame ==
  ASSUME NEW r, Still(r)
  PROVE  /\ \A c : Carries(r, c)' <=> Carries(r, c)
         /\ \A c : Condemns(r, c)' <=> Condemns(r, c)
  BY DEF Still, Carries, Condemns, Bound

(* When only p moves, what changes is its part. *)
LEMMA CopiesMove ==
  ASSUME NEW p \in Request, \A r \in Request : r # p => Still(r), NEW X,
         \A c : Carries(p, c)' <=> Carries(p, c) \/ c \in X
  PROVE  UnderWay' = UnderWay \cup X
<1>1. ASSUME NEW c PROVE c \in UnderWay' <=> c \in UnderWay \/ c \in X
  BY CopiesAre, StillSame
<1> QED
  BY <1>1

LEMMA CopiesLapse ==
  ASSUME NEW p \in Request, \A r \in Request : r # p => Still(r),
         \A c : Carries(p, c)' => Carries(p, c)
  PROVE  UnderWay' \subseteq UnderWay
BY CopiesAre, StillSame

LEMMA OneCopyLapses ==
  ASSUME NEW p \in Request, \A r \in Request : r # p => Still(r), NEW x,
         \A c : Carries(p, c)' => Carries(p, c),
         \A c : Carries(p, c) => Carries(p, c)' \/ c = x
  PROVE  UnderWay' \in {UnderWay, UnderWay \ {x}}
<1>1. \A c : /\ c \in UnderWay' => c \in UnderWay
             /\ c \in UnderWay => c \in UnderWay' \/ c = x
  BY CopiesAre, StillSame
<1>2. CASE x \in UnderWay'
  BY <1>1, <1>2
<1>3. CASE x \notin UnderWay'
  BY <1>1, <1>3
<1> QED
  BY <1>2, <1>3

LEMMA DoomedMove ==
  ASSUME NEW p \in Request, \A r \in Request : r # p => Still(r), NEW X,
         \A c : Condemns(p, c)' <=> Condemns(p, c) \/ c \in X
  PROVE  Doomed' = Doomed \cup X
<1>1. ASSUME NEW c PROVE c \in Doomed' <=> c \in Doomed \/ c \in X
  BY DoomedAre, StillSame
<1> QED
  BY <1>1

LEMMA DoomedLapse ==
  ASSUME NEW p \in Request, \A r \in Request : r # p => Still(r),
         \A c : Condemns(p, c)' => Condemns(p, c)
  PROVE  Doomed' \subseteq Doomed
  BY DoomedAre, StillSame

LEMMA BegunSame ==
  ASSUME NEW p, Only(p)
  PROVE  Begun' = Begun
  BY DEF Only, Still, Begun

LEMMA LapseMaps ==
  ASSUME NEW p \in Request, Lapses(p)
  PROVE  Network!Lapse
  BY CopiesLapse, DoomedLapse, BegunSame DEF Lapses, Only, Network!Lapse

(* A handler's step that goes anywhere but to "cache". *)
LEMMA HandlerLapses ==
  ASSUME TypeOK, NEW p \in Request, pc[p] # "new", UNCHANGED <<store, requestVars, task>>,
         pc' = pc \/ (pc[p] \notin Outcome /\ \E l \in Label \ {"new", "cache"} : Goto(p, l)),
         val' = val \/ (pc'[p] # "cache" /\ val' = [val EXCEPT ![p] = None])
  PROVE  Lapses(p)
<1> USE DEF TypeOK, requestVars, Goto
<1>1. Only(p)
  BY DEF Only, Still
<1>2. \A c : Carries(p, c)' => Carries(p, c)
  BY DEF Carries, Bound
<1>3. \A c : Condemns(p, c)' => Condemns(p, c)
  BY DEF Condemns
<1> QED
  BY <1>1, <1>2, <1>3 DEF Lapses

(* What a handler's step is for the network. *)
LEMMA HandlerMoves ==
  ASSUME NetworkInv, NEW p \in Request, HandlerStep(p)
  PROVE  \/ Lapses(p) /\ Orderly(p)'
         \/ Cache(p) \/ Delete(p) \/ \E q \in Node : Fetch(p, q)
<1>0. TypeOK /\ Orderly(p)
  BY DEF NetworkInv, TaskInv, TypeInv
<1> USE DEF TypeOK, requestVars, searchVars, Goto, Asking, Label, Outcome, Orderly
<1>1. ASSUME Exists(p) PROVE Lapses(p) /\ Orderly(p)'
  <2>1. /\ pc[p] = "exists" /\ UNCHANGED <<store, requestVars, task, val>>
        /\ Goto(p, Existing(p)) \/ Goto(p, "probe")
    BY <1>1 DEF Exists
  <2> QED
    BY <1>0, <2>1, HandlerLapses, Labels DEF Existing
<1>2. ASSUME Local(p) \/ NoneLeft(p) \/ TimesOut(p) \/ Size(p) \/ Reread(p)
      PROVE  Lapses(p) /\ Orderly(p)'
  <2>1. /\ pc[p] \in {"local", "fetch", "probe", "search", "size", "reread"}
        /\ UNCHANGED <<store, requestVars, task, val>>
        /\ \E l \in {"size", "ok", "search", "error", "notfound"} : Goto(p, l)
        /\ pc[p] = "probe" => \E l \in {"error", "notfound"} : Goto(p, l)
    BY <1>2, Labels DEF Local, NoneLeft, TimesOut, Size, Reread
  <2> QED
    BY <1>0, <2>1, HandlerLapses
<1>3. ASSUME Answered(p) PROVE Lapses(p) /\ Orderly(p)'
  <2>1. /\ pc[p] \in {"probe", "search"} /\ UNCHANGED <<store, requestVars, task, val>>
        /\ \/ Goto(p, Nowhere(p)) \/ (pc[p] = "probe" /\ Goto(p, Existing(p)))
           \/ pc[p] = "search" /\ Goto(p, "fetch")
    BY <1>3 DEF Answered
  <2> QED
    BY <1>0, <2>1, HandlerLapses, Labels DEF Existing
<1>4. ASSUME CacheFails(p) PROVE Lapses(p) /\ Orderly(p)'
  <2>1. /\ pc[p] = "cache" /\ UNCHANGED <<store, requestVars, task>>
        /\ val' = [val EXCEPT ![p] = None]
        /\ Goto(p, "fetch") \/ Goto(p, "ok")
    BY <1>4 DEF CacheFails
  <2> QED
    BY <1>0, <2>1, HandlerLapses
<1>5. ASSUME Reply(p) \/ \E q \in Node : Answer(p, q) \/ AnswerFails(p, q) \/ FetchFails(p, q)
      PROVE  Lapses(p) /\ Orderly(p)'
  <2>1. pc[p] # "new" /\ UNCHANGED <<store, pc, requestVars, task, val>>
    BY <1>5 DEF Reply, Answer, AnswerFails, FetchFails
  <2> QED
    BY <1>0, <2>1, HandlerLapses
<1> QED
  BY <1>1, <1>2, <1>3, <1>4, <1>5 DEF HandlerStep

(* The task of p goes on with fewer peers, or with the same in "sent". *)
LEMMA TaskCarries ==
  ASSUME NetworkInv, NEW p \in Request, task[p] # None, UNCHANGED <<pc, requestVars, val>>,
         NEW to \in SUBSET Node, NEW sent \in SUBSET Node, TaskAfter(p, to, sent),
         to \cup sent \subseteq Bound(p)
  PROVE  /\ Only(p)
         /\ \A c : Carries(p, c)' <=>
              \/ pc[p] = "cache" /\ c = <<at[p], key[p], val[p]>>
              \/ \E q \in to \cup sent : c = <<q, key[p], task[p].val>>
         /\ \A c : Carries(p, c)' => Carries(p, c)
         /\ \A c : Condemns(p, c)' <=> Condemns(p, c)
<1> USE DEF requestVars
<1>1. pc[p] # "new"
  BY TaskParts DEF NetworkInv, TaskInv
<1>2. Only(p)
  BY <1>1 DEF Only, Still, TaskAfter
<1>3. \A c : Carries(p, c)' <=>
              \/ pc[p] = "cache" /\ c = <<at[p], key[p], val[p]>>
              \/ \E q \in to \cup sent : c = <<q, key[p], task[p].val>>
  BY DEF Carries, Bound, TaskAfter
<1>4. \A c : Condemns(p, c)' <=> Condemns(p, c)
  BY DEF Condemns
<1> QED
  BY <1>2, <1>3, <1>4 DEF Carries

LEMMA BoundIs ==
  ASSUME NetworkInv, NEW p \in Request, task[p] # None
  PROVE  /\ task[p].stage = "read" => Bound(p) = Peers[at[p]]
         /\ task[p].to \cup task[p].sent # {} => Bound(p) = task[p].to \cup task[p].sent
  BY DEF NetworkInv, TaskInv, TaskFits, Bound
-----------------------------------------------------------------------------
(* Each kind of step is one of the network's. *)

LEMMA FetchMaps ==
  ASSUME NetworkInv, NEW p \in Request, NEW q \in Node, Fetch(p, q)
  PROVE  Network!Send(q, at[p], key[p]) /\ at[p] \in Node /\ key[p] \in Key /\ Orderly(p)'
<1>0. TypeInv /\ TypeOK /\ Arrived /\ Orderly(p)
  BY DEF NetworkInv, TaskInv, TypeInv
<1> DEFINE c == <<at[p], key[p], store[q][key[p]]>>
<1>1. /\ pc[p] = "fetch" /\ q \in have[p] /\ store[q][key[p]] # None
      /\ UNCHANGED <<store, requestVars, task>>
      /\ Goto(p, "cache") /\ val' = [val EXCEPT ![p] = store[q][key[p]]]
  BY DEF Fetch, Has
<1>2. q \in Peers[at[p]] /\ at[p] \in Node /\ key[p] \in Key
  BY <1>0, <1>1 DEF TypeOK, Arrived
<1>3. Only(p) /\ pc'[p] = "cache" /\ val'[p] = store[q][key[p]]
  BY <1>0, <1>1 DEF Only, Still, Goto, TypeOK, requestVars
<1>4. UnderWay' = UnderWay \cup {c}
  <2>1. \A d : Carries(p, d)' <=> Carries(p, d) \/ d \in {c}
    BY <1>1, <1>3 DEF Carries, Bound, requestVars
  <2> QED
    BY <1>3, <2>1, CopiesMove DEF Only
<1>5. Doomed' = Doomed
  <2>1. \A d : Condemns(p, d)' <=> Condemns(p, d) \/ d \in {}
    BY <1>1, <1>3 DEF Condemns, Outcome, requestVars
  <2>2. Doomed' = Doomed \cup {}
    BY <1>3, <2>1, DoomedMove DEF Only
  <2> QED
    BY <2>2
<1>6. Orderly(p)'
  BY <1>0, <1>1, <1>3 DEF Orderly, requestVars, Outcome
<1> QED
  BY <1>1, <1>2, <1>3, <1>4, <1>5, <1>6, BegunSame DEF Network!Send

LEMMA CacheMaps ==
  ASSUME NetworkInv, NEW p \in Request, Cache(p)
  PROVE  /\ Network!Receive(at[p], key[p], val[p])
         /\ at[p] \in Node /\ key[p] \in Key /\ val[p] \in Content /\ Orderly(p)'
<1>0. TypeOK /\ Arrived /\ Orderly(p)
  BY DEF NetworkInv, TaskInv, TypeInv
<1> DEFINE c == <<at[p], key[p], val[p]>>
<1>1. /\ pc[p] = "cache" /\ UNCHANGED <<requestVars, task>> /\ Set(at[p], key[p], val[p])
      /\ Goto(p, "reread") \/ Goto(p, "ok")
      /\ val' = [val EXCEPT ![p] = None]
  BY DEF Cache
<1>2. at[p] \in Node /\ key[p] \in Key /\ val[p] \in Content
  BY <1>0, <1>1 DEF TypeOK, Arrived, Orderly
<1>3. Only(p) /\ pc'[p] \in {"reread", "ok"} /\ op[p] # "delete" /\ op' = op
  BY <1>0, <1>1 DEF Only, Still, Goto, TypeOK, requestVars, Orderly, Outcome
<1>4. c \in UnderWay /\ UnderWay' \in {UnderWay, UnderWay \ {c}}
  <2>1. Carries(p, c)
    BY <1>1 DEF Carries
  <2>2. /\ \A d : Carries(p, d)' => Carries(p, d)
        /\ \A d : Carries(p, d) => Carries(p, d)' \/ d = c
    BY <1>1, <1>3 DEF Carries, Bound, requestVars
  <2> QED
    BY <1>3, <2>1, <2>2, OneCopyLapses, CopiesAre DEF Only
<1>5. Doomed' = Doomed
  <2>1. \A d : Condemns(p, d)' <=> Condemns(p, d) \/ d \in {}
    BY <1>3 DEF Condemns
  <2>2. Doomed' = Doomed \cup {}
    BY <1>3, <2>1, DoomedMove DEF Only
  <2> QED
    BY <2>2
<1>6. Orderly(p)'
  BY <1>3 DEF Orderly
<1> QED
  BY <1>1, <1>2, <1>3, <1>4, <1>5, <1>6, BegunSame DEF Network!Receive, Set

LEMMA DeleteMaps ==
  ASSUME NetworkInv, NEW p \in Request, Delete(p)
  PROVE  Network!Delete(at[p], key[p]) /\ at[p] \in Node /\ key[p] \in Key /\ Orderly(p)'
<1>0. TypeOK /\ Arrived /\ Orderly(p)
  BY DEF NetworkInv, TaskInv, TypeInv
<1> DEFINE c == <<at[p], key[p]>>
<1>1. /\ pc[p] = "delete" /\ UNCHANGED <<requestVars, val, task>> /\ Set(at[p], key[p], None)
      /\ Goto(p, "ok")
  BY DEF Delete
<1>2. at[p] \in Node /\ key[p] \in Key /\ op[p] = "delete"
  BY <1>0, <1>1 DEF Arrived, Orderly
<1>3. Only(p) /\ pc'[p] = "ok"
  BY <1>0, <1>1 DEF Only, Still, Goto, TypeOK, requestVars
<1>4. UnderWay' = UnderWay
  <2>1. \A d : Carries(p, d)' <=> Carries(p, d) \/ d \in {}
    BY <1>1, <1>3 DEF Carries, Bound, requestVars
  <2>2. UnderWay' = UnderWay \cup {}
    BY <1>3, <2>1, CopiesMove DEF Only
  <2> QED
    BY <2>2
<1>5. c \in Doomed /\ Doomed' \in {Doomed, Doomed \ {c}}
  <2>1. Condemns(p, c)
    BY <1>1, <1>2 DEF Condemns, Outcome
  <2>2. /\ \A d : ~Condemns(p, d)'
        /\ \A d : Condemns(p, d) => d = c
    BY <1>3 DEF Condemns, Outcome
  <2>3. \A r \in Request : r # p => \A d : Condemns(r, d)' <=> Condemns(r, d)
    BY <1>3, StillSame DEF Only
  <2>4. \A d : /\ d \in Doomed' => d \in Doomed
               /\ d \in Doomed => d \in Doomed' \/ d = c
    BY <2>2, <2>3, DoomedAre
  <2>5. CASE c \in Doomed'
    BY <2>1, <2>4, <2>5, DoomedAre
  <2>6. CASE c \notin Doomed'
    BY <2>1, <2>4, <2>6, DoomedAre
  <2> QED
    BY <2>5, <2>6
<1>6. Orderly(p)'
  BY <1>3 DEF Orderly, Outcome
<1> QED
  BY <1>1, <1>2, <1>3, <1>4, <1>5, <1>6, BegunSame DEF Network!Delete, Set

(* A request comes, with copies for the nodes in "to" or with none. *)
LEMMA ComesMaps ==
  ASSUME NetworkInv, NEW p \in Request, NEW o, NEW n, NEW k, Comes(p, o, n, k), val' = val,
         \A r \in Request : r # p => task'[r] = task[r],
         NEW v, NEW to,
         \/ to = {} /\ task'[p] = None
         \/ to = Peers[n] /\ task'[p] # None /\ task'[p].stage = "read" /\ task'[p].val = v
  PROVE  /\ Network!Comes(p)
         /\ UnderWay' = UnderWay \cup {<<q, k, v>> : q \in to}
         /\ o # "delete" \/ pc'[p] \in Outcome => Doomed' = Doomed
         /\ Doomed' \in {Doomed, Doomed \cup {<<n, k>>}}
<1>1. task[p] = None /\ pc[p] = "new"
  <2>1. pc[p] = "new" /\ Arrived
    BY DEF NetworkInv, TaskInv, TypeInv, Comes
  <2> QED
    BY <2>1 DEF Arrived
<1>2. \A r \in Request : r # p => Still(r)
  BY DEF Comes, Still
<1>3. Network!Comes(p)
  BY DEF Network!Comes, Comes, Begun
<1>4. UnderWay' = UnderWay \cup {<<q, k, v>> : q \in to}
  <2>1. \A c : Carries(p, c)' <=> Carries(p, c) \/ c \in {<<q, k, v>> : q \in to}
    BY <1>1 DEF Carries, Bound, Comes
  <2> QED
    BY <1>2, <2>1, CopiesMove
<1>5. CASE o # "delete" \/ pc'[p] \in Outcome
  <2>1. \A c : Condemns(p, c)' <=> Condemns(p, c) \/ c \in {}
    BY <1>1, <1>5 DEF Condemns, Comes
  <2>2. Doomed' = Doomed \cup {}
    BY <1>2, <2>1, DoomedMove
  <2> QED
    BY <1>3, <1>4, <2>2
<1>6. CASE o = "delete" /\ pc'[p] \notin Outcome
  <2>1. \A c : Condemns(p, c)' <=> Condemns(p, c) \/ c \in {<<n, k>>}
    BY <1>1, <1>6 DEF Condemns, Comes
  <2>2. Doomed' = Doomed \cup {<<n, k>>}
    BY <1>2, <2>1, DoomedMove
  <2> QED
    BY <1>3, <1>4, <1>6, <2>2
<1> QED
  BY <1>5, <1>6

LEMMA ArrivalMaps ==
  ASSUME NetworkInv, NEW p \in Request, Arrives(p)
  PROVE  Network!Next /\ Orderly(p)'
<1>0. TypeInv /\ TypeOK /\ task[p] = None
  <2>1. TypeInv /\ TypeOK /\ Arrived
    BY DEF NetworkInv, TaskInv, TypeInv
  <2>2. \/ \E o, n, k, l : Begin(p, o, n, k, l)
        \/ \E o, n, k : Put(p, o, n, k)
    <3>1. CASE \E n \in Node, b \in Blob : GetBlob(p, n, b) \/ HeadBlob(p, n, b) \/ DeleteBlob(p, n, b)
      BY <3>1 DEF GetBlob, HeadBlob, DeleteBlob
    <3>2. CASE \E n \in Node, b \in Blob : PutBlob(p, n, b) \/ CompleteUpload(p, n, b)
      BY <3>2 DEF PutBlob, CompleteUpload
    <3>3. CASE \E n \in Node, r \in Ref :
                 GetManifest(p, n, r) \/ HeadManifest(p, n, r) \/ DeleteManifest(p, n, r)
      BY <3>3 DEF GetManifest, HeadManifest, DeleteManifest
    <3>4. CASE \E n \in Node, r \in Ref, m \in Manifest : PutManifest(p, n, r, m)
      BY <3>4 DEF PutManifest
    <3> QED
      BY <3>1, <3>2, <3>3, <3>4 DEF Arrives
  <2>3. pc[p] = "new"
    BY <2>2 DEF Begin, Put
  <2> QED
    BY <2>1, <2>3 DEF Arrived
<1> USE DEF Outcome
<1>1. ASSUME NEW o \in Op \ {"put"}, NEW n \in Node, NEW k \in Key,
             NEW l \in {"exists", "local"}, Begin(p, o, n, k, l), l = "local" => o = "get"
      PROVE  Network!Next /\ Orderly(p)'
  <2>1. Comes(p, o, n, k) /\ UNCHANGED <<store, task, val>>
    BY <1>0, <1>1, BeginComes DEF Begin
  <2>2. Network!Comes(p) /\ Doomed' \in {Doomed, Doomed \cup {<<n, k>>}}
    BY <1>0, <2>1, ComesMaps
  <2>3. UnderWay' = UnderWay
    <3>1. \A r \in Request : r # p => Still(r)
      BY <2>1 DEF Comes, Still
    <3>2. \A c : Carries(p, c)' <=> Carries(p, c) \/ c \in {}
      BY <1>0, <1>1, <2>1 DEF Carries, Comes, Begin
    <3>3. UnderWay' = UnderWay \cup {}
      BY <3>1, <3>2, CopiesMove
    <3> QED
      BY <3>3
  <2>4. Network!Ask(p, n, k)
    BY <2>1, <2>2, <2>3 DEF Network!Ask
  <2>5. Orderly(p)'
    <3>1. pc'[p] = l /\ op'[p] = o
      BY <1>0, <1>1 DEF Begin, Goto, TypeOK
    <3> QED
      BY <1>1, <3>1 DEF Orderly
  <2> QED
    BY <2>4, <2>5 DEF Network!Next, Network!Name, Key, Ref
<1>2. ASSUME NEW n \in Node, NEW k \in Key, NEW v \in Content, NEW o \in {"put", "upload"},
             Put(p, o, n, k), \A r \in Request : r # p => task'[r] = task[r],
             task'[p] \in {None, NewTask(v)},
             store' = [store EXCEPT ![n][k] = v, ![n][IF k \in Tag THEN v ELSE k] = v]
      PROVE  Network!Put(p, n, k, v) /\ Orderly(p)'
  <2>1. Comes(p, o, n, k) /\ val' = val /\ pc'[p] = "ok" /\ op'[p] = o
    BY <1>0, <1>2, PutComes DEF Put, Goto, TypeOK
  <2>2. PICK to \in {{}, Peers[n]} :
          \/ to = {} /\ task'[p] = None
          \/ to = Peers[n] /\ task'[p] # None /\ task'[p].stage = "read" /\ task'[p].val = v
    BY <1>2, NewTaskIsTask
  <2>3. /\ Network!Comes(p) /\ Doomed' = Doomed
        /\ UnderWay' = UnderWay \cup {<<q, k, v>> : q \in to}
    <3>1. \A r \in Request : r # p => task'[r] = task[r]
      BY <1>2
    <3>2. pc'[p] \in Outcome
      BY <2>1
    <3> HIDE DEF Outcome
    <3> QED
      BY <2>1, <2>2, <3>1, <3>2, ComesMaps
  <2>4. Orderly(p)'
    BY <2>1 DEF Orderly
  <2> QED
    BY <1>2, <2>3, <2>4 DEF Network!Put
<1>3. ASSUME NEW n \in Node, NEW b \in Blob, PutBlob(p, n, b) \/ CompleteUpload(p, n, b)
      PROVE  Network!Next /\ Orderly(p)'
  <2>1. b \in Key /\ b \in Content /\ b \notin Tag
    BY KeyAssumption DEF Key, Content
  <2>2. PICK o \in {"put", "upload"} : Put(p, o, n, b)
    BY <1>3 DEF PutBlob, CompleteUpload
  <2>3. /\ \A r \in Request : r # p => task'[r] = task[r]
        /\ task'[p] \in {None, NewTask(b)}
    BY <1>0, <1>3 DEF PutBlob, CompleteUpload, TypeOK
  <2>4. store' = [store EXCEPT ![n][b] = b, ![n][IF b \in Tag THEN b ELSE b] = b]
    BY <1>0, <1>3, <2>1 DEF PutBlob, CompleteUpload, Set, TypeOK
  <2>5. Network!Put(p, n, b, b) /\ Orderly(p)'
    BY <1>2, <2>1, <2>2, <2>3, <2>4
  <2> QED
    BY <2>5 DEF Network!Next
<1>4. ASSUME NEW n \in Node, NEW r \in Ref, NEW m \in Manifest, PutManifest(p, n, r, m)
      PROVE  Network!Next /\ Orderly(p)'
  <2>1. r \in Key /\ m \in Content
    BY DEF Key, Content
  <2>2. /\ \A q \in Request : q # p => task'[q] = task[q]
        /\ task'[p] \in {None, NewTask(m)}
    BY <1>0, <1>4 DEF PutManifest, TypeOK
  <2>3. Network!Put(p, n, r, m) /\ Orderly(p)'
    BY <1>2, <1>4, <2>1, <2>2 DEF PutManifest
  <2> QED
    BY <2>3 DEF Network!Next, Network!Name, Ref
<1> QED
  BY <1>1, <1>3, <1>4
     DEF Arrives, GetBlob, HeadBlob, DeleteBlob, GetManifest, HeadManifest, DeleteManifest, Key, Op

(* What the task of p does.                                                *)
LEMMA TaskMaps ==
  ASSUME NetworkInv, NEW p \in Request, TaskStep(p)
  PROVE  Network!Next /\ UNCHANGED <<pc, requestVars, val>>
<1>0. TypeInv /\ TypeOK
  BY DEF NetworkInv, TaskInv, TypeInv
<1>1. UNCHANGED <<pc, requestVars, val>>
  BY DEF TaskStep, SelectTargets, SendBegins, Delivered, SendFails
<1>2. ASSUME task[p] # None, NEW to \in SUBSET Node, NEW sent \in SUBSET Node,
             TaskAfter(p, to, sent), to \cup sent \subseteq Bound(p), store' = store
      PROVE  Network!Next
  <2>1. Lapses(p)
    BY <1>1, <1>2, TaskCarries DEF Lapses
  <2> QED
    BY <2>1, LapseMaps DEF Network!Next
<1>3. CASE SelectTargets(p)
  <2>1. PICK to \in SUBSET Node : to \subseteq Peers[at[p]] /\ TaskAfter(p, to, {})
    BY <1>0, <1>3, SelectTargetsIs DEF Selected
  <2>2. store' = store /\ task[p] # None /\ Bound(p) = Peers[at[p]]
    BY <1>0, <1>3, SelectTargetsIs, BoundIs
  <2> QED
    BY <1>1, <1>2, <2>1, <2>2
<1>4. ASSUME NEW q \in Node, ToPeer(p, q) PROVE Network!Next
  <2>1. task[p] # None /\ q \in task[p].to \cup task[p].sent
    BY <1>4 DEF ToPeer
  <2>2. /\ Bound(p) = task[p].to \cup task[p].sent
        /\ task[p].to \in SUBSET Node /\ task[p].sent \in SUBSET Node
        /\ key[p] \in Key /\ task[p].val \in Content
    BY <1>0, <2>1, BoundIs, TaskParts
  <2>3. CASE store' = store
    <3>1. \/ TaskAfter(p, task[p].to \ {q}, task[p].sent \cup {q})
          \/ TaskAfter(p, task[p].to, task[p].sent \ {q})
          \/ TaskAfter(p, task[p].to \ {q}, task[p].sent \ {q})
      BY <1>4 DEF ToPeer
    <3>2. /\ (task[p].to \ {q}) \in SUBSET Node
          /\ (task[p].sent \ {q}) \in SUBSET Node /\ (task[p].sent \cup {q}) \in SUBSET Node
          /\ (task[p].to \ {q}) \cup (task[p].sent \cup {q}) \subseteq Bound(p)
          /\ task[p].to \cup (task[p].sent \ {q}) \subseteq Bound(p)
          /\ (task[p].to \ {q}) \cup (task[p].sent \ {q}) \subseteq Bound(p)
      BY <2>1, <2>2
    <3> QED
      BY <1>2, <2>1, <2>2, <2>3, <3>1, <3>2
  <2>4. CASE /\ q \in task[p].sent /\ Set(q, key[p], task[p].val)
             /\ TaskAfter(p, task[p].to, task[p].sent \ {q})
    <3> DEFINE c == <<q, key[p], task[p].val>>
               left == task[p].to \cup (task[p].sent \ {q})
    <3>1. left \subseteq Bound(p) /\ (task[p].sent \ {q}) \in SUBSET Node
      BY <2>2
    <3>2. /\ Only(p)
          /\ \A d : Carries(p, d)' <=> \/ pc[p] = "cache" /\ d = <<at[p], key[p], val[p]>>
                                       \/ \E r \in left : d = <<r, key[p], task[p].val>>
          /\ \A d : Carries(p, d)' => Carries(p, d)
          /\ \A d : Condemns(p, d)' <=> Condemns(p, d)
      BY <1>1, <2>1, <2>2, <2>4, <3>1, TaskCarries
    <3>3. Carries(p, c) /\ \A d : Carries(p, d) => Carries(p, d)' \/ d = c
      BY <2>1, <2>2, <2>4, <3>2 DEF Carries
    <3>4. c \in UnderWay /\ UnderWay' \in {UnderWay, UnderWay \ {c}}
      BY <3>2, <3>3, OneCopyLapses, CopiesAre DEF Only
    <3>5. Doomed' = Doomed
      <4>1. \A d : Condemns(p, d)' <=> Condemns(p, d) \/ d \in {}
        BY <3>2
      <4>2. Doomed' = Doomed \cup {}
        BY <3>2, <4>1, DoomedMove DEF Only
      <4> QED
        BY <4>2
    <3>6. Network!Receive(q, key[p], task[p].val)
      BY <2>4, <3>2, <3>4, <3>5, BegunSame DEF Network!Receive, Set
    <3> QED
      BY <2>2, <3>6 DEF Network!Next, Network!Name, Key, Ref, Content
  <2> QED
    BY <1>4, <2>3, <2>4 DEF ToPeer
<1> QED
  BY <1>0, <1>1, <1>3, <1>4, TaskKinds

(* What dies with a node carries and deletes nothing any more. *)
LEMMA CrashMaps ==
  ASSUME NetworkInv, NEW n \in Node, Crash(n)
  PROVE  Network!Lapse /\ \A r \in Request : Orderly(r)'
<1>0. TypeInv
  BY DEF NetworkInv, TaskInv
<1>1. UNCHANGED <<store, requestVars>>
  BY DEF Crash
<1>2. ASSUME NEW r \in Request
      PROVE  /\ task'[r] = task[r] \/ task'[r] = None
             /\ pc'[r] = pc[r] \/ (pc'[r] = "dead" /\ pc[r] # "new")
             /\ pc'[r] = "cache" => val'[r] = val[r]
  BY <1>0, CrashIs DEF Crash, Outcome
<1>3. Begun' = Begun
  BY <1>2 DEF Begun
<1>4. \A r \in Request : \A c : /\ Carries(r, c)' => Carries(r, c)
                                /\ Condemns(r, c)' => Condemns(r, c)
  BY <1>1, <1>2 DEF Carries, Condemns, Bound, requestVars, Outcome
<1>5. UnderWay' \subseteq UnderWay /\ Doomed' \subseteq Doomed
  BY <1>4, CopiesAre, DoomedAre
<1>6. ASSUME NEW r \in Request PROVE Orderly(r)'
  BY <1>1, <1>2 DEF NetworkInv, Orderly, requestVars, Outcome
<1> QED
  BY <1>1, <1>3, <1>5, <1>6 DEF Network!Lapse

(* A step of p leaves the other requests where they are. *)
LEMMA OthersOrderly ==
  ASSUME NetworkInv, NEW p \in Request, Arrives(p) \/ HandlerStep(p), Orderly(p)'
  PROVE  \A r \in Request : Orderly(r)'
<1>0. TypeOK
  BY DEF NetworkInv, TaskInv, TypeInv
<1> SUFFICES ASSUME NEW r \in Request, r # p PROVE Orderly(r)'
  OBVIOUS
<1>1. pc'[r] = pc[r] /\ op'[r] = op[r] /\ val'[r] = val[r]
  <2>1. ASSUME NEW o, NEW n, NEW k, NEW l, Begin(p, o, n, k, l)
        PROVE  pc'[r] = pc[r] /\ op'[r] = op[r] /\ val'[r] = val[r]
    BY <1>0, <2>1 DEF Begin, Goto, TypeOK
  <2>2. ASSUME NEW o, NEW n, NEW k, Put(p, o, n, k)
        PROVE  pc'[r] = pc[r] /\ op'[r] = op[r] /\ val'[r] = val[r]
    BY <1>0, <2>2 DEF Put, Goto, TypeOK
  <2>3. CASE Arrives(p)
    BY <2>1, <2>2, <2>3
       DEF Arrives, GetBlob, HeadBlob, DeleteBlob, GetManifest, HeadManifest, DeleteManifest,
           PutBlob, CompleteUpload, PutManifest
  <2>4. CASE HandlerStep(p)
    <3>1. CASE Lapses(p)
      BY <3>1 DEF Lapses, Only, Still
    <3>2. CASE Cache(p) \/ Delete(p) \/ \E q \in Node : Fetch(p, q)
      BY <1>0, <3>2 DEF Cache, Delete, Fetch, Goto, requestVars, TypeOK
    <3> QED
      BY <2>4, <3>1, <3>2, HandlerMoves
  <2> QED
    BY <2>3, <2>4
<1> QED
  BY <1>1 DEF NetworkInv, Orderly

LEMMA NetworkStep ==
  ASSUME NetworkInv, [Next]_vars
  PROVE  NetworkInv' /\ [Network!Next]_(Network!contents)
<1>1. TaskInv'
  BY TypeStep, ArrivedStep, TaskInvStep DEF NetworkInv, TaskInv, TypeInv
<1>2. ASSUME UNCHANGED vars
      PROVE  (\A r \in Request : Orderly(r)') /\ UNCHANGED Network!contents
  <2>1. UNCHANGED <<store, pc, op, at, key, val, task>>
    BY <1>2 DEF vars, requestVars
  <2>2. UnderWay' = UnderWay /\ Begun' = Begun /\ Doomed' = Doomed
    BY <2>1 DEF UnderWay, Bound, Begun, Doomed
  <2>3. \A r \in Request : Orderly(r)'
    BY <2>1 DEF NetworkInv, Orderly
  <2> QED
    BY <2>1, <2>2, <2>3 DEF Network!contents
<1>3. ASSUME NEW p \in Request, Arrives(p)
      PROVE  (\A r \in Request : Orderly(r)') /\ Network!Next
  BY <1>3, ArrivalMaps, OthersOrderly
<1>4. ASSUME NEW p \in Request, HandlerStep(p)
      PROVE  (\A r \in Request : Orderly(r)') /\ Network!Next
  <2>1. Orderly(p)' /\ Network!Next
    <3>1. CASE Lapses(p) /\ Orderly(p)'
      BY <3>1, LapseMaps DEF Network!Next
    <3>2. ASSUME NEW q \in Node, Fetch(p, q) PROVE Orderly(p)' /\ Network!Next
      BY <3>2, FetchMaps DEF Network!Next, Network!Name, Key, Ref
    <3>3. CASE Cache(p)
      BY <3>3, CacheMaps DEF Network!Next, Network!Name, Key, Ref, Content
    <3>4. CASE Delete(p)
      BY <3>4, DeleteMaps DEF Network!Next, Network!Name, Key, Ref
    <3> QED
      BY <1>4, <3>1, <3>2, <3>3, <3>4, HandlerMoves
  <2> QED
    BY <1>4, <2>1, OthersOrderly
<1>5. ASSUME NEW p \in Request, TaskStep(p)
      PROVE  (\A r \in Request : Orderly(r)') /\ Network!Next
  BY <1>5, TaskMaps DEF NetworkInv, Orderly, requestVars
<1>6. ASSUME NEW n \in Node, Crash(n)
      PROVE  (\A r \in Request : Orderly(r)') /\ Network!Next
  BY <1>6, CrashMaps DEF Network!Next
<1> QED
  BY <1>1, <1>2, <1>3, <1>4, <1>5, <1>6 DEF Next, NetworkInv

LEMMA NetworkInit == Init => NetworkInv /\ Network!Init
<1> SUFFICES ASSUME Init PROVE NetworkInv /\ Network!Init
  OBVIOUS
<1>1. TaskInv
  BY InitTypeInv DEF Init, TaskInv, TaskFits
<1>2. \A p \in Request : Orderly(p)
  BY DEF Init, Orderly
<1>3. UnderWay = {} /\ Begun = {} /\ Doomed = {}
  BY DEF Init, UnderWay, Begun, Doomed
<1> QED
  BY <1>1, <1>2, <1>3 DEF Init, NetworkInv, Network!Init, Network!Name, Key, Ref

(* Every behaviour of the nodes' stores, searches, pulls, replications and *)
(* crashes is one of a network that loses, delays and repeats copies and   *)
(* makes nothing up (store.go:57-447, 449-592).                            *)
THEOREM NetworkRefinement == Spec => ImplementsContentNetwork
<1>1. NetworkInv /\ [Next]_vars => NetworkInv' /\ [Network!Next]_(Network!contents)
  BY NetworkStep
<1>2. Init => NetworkInv /\ Network!Init
  BY NetworkInit
<1> QED
  BY <1>1, <1>2, PTL DEF Spec, ImplementsContentNetwork, Network!Spec
-----------------------------------------------------------------------------
(* What follows for the nodes from their being such a network.             *)

(* What a key may stand for: a blob is its own digest, a reference is any  *)
(* manifest's.                                                             *)
Fits(k, v) == IF k \in Blob THEN v = k ELSE v \in Manifest

NothingMixedUp ==
  /\ \A n \in Node, k \in Key : Has(n, k) => Fits(k, store[n][k])
  /\ \A c \in UnderWay : Fits(c[2], c[3])

(* v can be had under k, from a node or from the network. *)
Around(k, v) ==
  \/ \E n \in Node : store[n][k] = v
  \/ \E n \in Node : <<n, k, v>> \in UnderWay

(* The steps of the network, by what they do to the stores and the copies. *)
NetPuts(n, k, v) ==
  /\ Fits(k, v) /\ Begun' # Begun
  /\ store' = [store EXCEPT ![n][k] = v, ![n][IF k \in Tag THEN v ELSE k] = v]
  /\ \E to \in {{}, Peers[n]} : UnderWay' = UnderWay \cup {<<q, k, v>> : q \in to}

NetKeeps(n, k, v) ==
  /\ store' = [store EXCEPT ![n][k] = v] /\ UnderWay' \subseteq UnderWay
  /\ (v \in Content /\ <<n, k, v>> \in UnderWay) \/ (v = None /\ <<n, k>> \in Doomed)

NetSends(q, n, k) ==
  /\ store' = store /\ q \in Peers[n] /\ store[q][k] # None
  /\ UnderWay' = UnderWay \cup {<<n, k, store[q][k]>>}

LEMMA PutStores ==
  ASSUME TypeOK, NEW n \in Node, NEW k \in Key, NEW v \in Content, NetPuts(n, k, v),
         NEW m \in Node, NEW j \in Key
  PROVE  \/ store'[m][j] = store[m][j]
         \/ m = n /\ store'[m][j] = v /\ (j = k \/ (k \in Tag /\ j = v))
<1> DEFINE w == IF k \in Tag THEN v ELSE k
           s == [store EXCEPT ![n][k] = v]
<1>1. v \in Key /\ w \in Key
  BY DEF Content, Key, Ref
<1>2. s \in [Node -> [Key -> Content \cup {None}]]
  BY DEF TypeOK
<1>3. store' = [s EXCEPT ![n][w] = v]
  BY DEF NetPuts
<1>4. s[m][j] = IF m = n /\ j = k THEN v ELSE store[m][j]
  BY DEF TypeOK
<1>5. store'[m][j] = IF m = n /\ j = w THEN v ELSE s[m][j]
  BY <1>1, <1>2, <1>3
<1> QED
  BY <1>4, <1>5

LEMMA KeepStores ==
  ASSUME TypeOK, NEW n \in Node, NEW k \in Key, NEW v, NetKeeps(n, k, v),
         NEW m \in Node, NEW j \in Key
  PROVE  store'[m][j] = IF m = n /\ j = k THEN v ELSE store[m][j]
<1>1. store' = [store EXCEPT ![n][k] = v]
  BY DEF NetKeeps
<1> QED
  BY <1>1 DEF TypeOK

LEMMA NetKinds ==
  ASSUME [Network!Next]_(Network!contents)
  PROVE  \/ \E n \in Node, k \in Key, v \in Content : NetPuts(n, k, v)
         \/ \E n \in Node, k \in Key, v \in Content \cup {None} : NetKeeps(n, k, v)
         \/ \E n \in Node, q \in Node, k \in Key : NetSends(q, n, k)
         \/ store' = store /\ UnderWay' \subseteq UnderWay
<1> USE DEF Network!Name, Key, Ref, Content
<1>1. ASSUME NEW p \in Request, NEW n, NEW k, NEW v, Network!Put(p, n, k, v), Fits(k, v)
      PROVE  NetPuts(n, k, v)
  BY <1>1 DEF Network!Put, Network!Comes, NetPuts
<1>2. ASSUME NEW n \in Node, NEW k, NEW v \in Content, Network!Receive(n, k, v)
      PROVE  NetKeeps(n, k, v)
  BY <1>2 DEF Network!Receive, NetKeeps
<1>3. ASSUME NEW n \in Node, NEW k, Network!Delete(n, k) PROVE NetKeeps(n, k, None)
  BY <1>3 DEF Network!Delete, NetKeeps
<1>4. ASSUME NEW n, NEW q, NEW k, Network!Send(q, n, k) PROVE NetSends(q, n, k)
  BY <1>4 DEF Network!Send, NetSends
<1>5. ASSUME NEW p, NEW n, NEW k, Network!Ask(p, n, k) PROVE store' = store /\ UnderWay' = UnderWay
  BY <1>5 DEF Network!Ask
<1>6. CASE Network!Lapse \/ UNCHANGED Network!contents
  BY <1>6 DEF Network!Lapse, Network!contents
<1>7. /\ \A b \in Blob : Fits(b, b)
      /\ \A r \in Ref, m \in Manifest : Fits(r, m)
  BY KeyAssumption DEF Fits
<1> QED
  BY <1>1, <1>2, <1>3, <1>4, <1>5, <1>6, <1>7 DEF Network!Next

LEMMA PutsMixNothingUp ==
  ASSUME TypeOK, NothingMixedUp, NEW n \in Node, NEW k \in Key, NEW v \in Content, NetPuts(n, k, v)
  PROVE  NothingMixedUp'
<1>1. Fits(k, v) /\ (k \in Tag => Fits(v, v))
  BY KeyAssumption DEF NetPuts, Fits
<1>2. ASSUME NEW m \in Node, NEW j \in Key, Has(m, j)' PROVE Fits(j, store[m][j])'
  <2>1. \/ store'[m][j] = store[m][j]
        \/ store'[m][j] = v /\ (j = k \/ (k \in Tag /\ j = v))
    BY PutStores
  <2> QED
    BY <1>1, <1>2, <2>1 DEF NothingMixedUp, Has, Fits
<1>3. \A c \in UnderWay' : c \in UnderWay \/ (c[2] = k /\ c[3] = v)
  BY DEF NetPuts
<1> QED
  BY <1>1, <1>2, <1>3 DEF NothingMixedUp, Fits

(* No node keeps, and no copy carries, a blob under another digest, a blob *)
(* under a manifest's reference or a manifest under a blob's digest.       *)
THEOREM NothingMixedUpInvariant == Spec => []NothingMixedUp
<1>1. Init => NothingMixedUp
  BY DEF Init, NothingMixedUp, UnderWay, Has
<1>2. TypeOK /\ NothingMixedUp /\ [Network!Next]_(Network!contents) => NothingMixedUp'
  <2> SUFFICES ASSUME TypeOK, NothingMixedUp, [Network!Next]_(Network!contents)
               PROVE  NothingMixedUp'
    OBVIOUS
  <2>1. ASSUME NEW n \in Node, NEW k \in Key, NEW v \in Content \cup {None}, NetKeeps(n, k, v)
        PROVE  NothingMixedUp'
    <3>1. v = None \/ Fits(k, v)
      BY <2>1 DEF NetKeeps, NothingMixedUp
    <3>2. \A m \in Node, j \in Key :
            store'[m][j] = IF m = n /\ j = k THEN v ELSE store[m][j]
      BY <2>1, KeepStores
    <3> QED
      BY <2>1, <3>1, <3>2 DEF NetKeeps, NothingMixedUp, Fits, Has
  <2>2. ASSUME NEW n \in Node, NEW q \in Node, NEW k \in Key, NetSends(q, n, k)
        PROVE  NothingMixedUp'
    BY <2>2 DEF NetSends, NothingMixedUp, Fits, Has
  <2>3. CASE store' = store /\ UnderWay' \subseteq UnderWay
    BY <2>3 DEF NothingMixedUp, Fits, Has
  <2> QED
    BY <2>1, <2>2, <2>3, NetKinds, PutsMixNothingUp
<1> QED
  BY <1>1, <1>2, TypeCorrect, NetworkRefinement, PTL
     DEF Spec, ImplementsContentNetwork, Network!Spec

(* What is nowhere in the cluster under a key comes there only in the step *)
(* of a client's request: once every copy is deleted or lost, pulls and    *)
(* replications that are still under way bring nothing back.               *)
THEOREM NothingMadeUp ==
  Spec => [][\A k \in Key, v \in Content :
               Around(k, v)' => Around(k, v) \/ Begun' # Begun]_vars
<1>1. TypeOK /\ [Network!Next]_(Network!contents) =>
        \A k \in Key, v \in Content : Around(k, v)' => Around(k, v) \/ Begun' # Begun
  <2> SUFFICES ASSUME TypeOK, [Network!Next]_(Network!contents),
                      NEW k \in Key, NEW v \in Content, Around(k, v)', Begun' = Begun
               PROVE  Around(k, v)
    OBVIOUS
  <2>1. v # None
    BY NoneAssumption DEF Content
  <2>2. ASSUME NEW n \in Node, NEW j \in Key, NEW w \in Content \cup {None}, NetKeeps(n, j, w)
        PROVE  Around(k, v)
    <3>1. \A m \in Node : store'[m][k] = IF m = n /\ k = j THEN w ELSE store[m][k]
      BY <2>1, <2>2, KeepStores
    <3> QED
      BY <2>1, <2>2, <3>1 DEF NetKeeps, Around
  <2>3. ASSUME NEW n \in Node, NEW q \in Node, NEW j \in Key, NetSends(q, n, j)
        PROVE  Around(k, v)
    BY <2>3 DEF NetSends, Around
  <2>4. CASE store' = store /\ UnderWay' \subseteq UnderWay
    BY <2>4 DEF Around
  <2> QED
    BY <2>2, <2>3, <2>4, NetKinds DEF NetPuts
<1> QED
  BY <1>1, TypeCorrect, NetworkRefinement, PTL DEF Spec, ImplementsContentNetwork, Network!Spec

(* What a node has it loses only to a DELETE that it serves, and has under *)
(* a key only what a copy for it carried, or what a request just put.      *)
THEOREM NothingLost ==
  Spec => [][\A n \in Node, k \in Key :
               \/ store'[n][k] = store[n][k]
               \/ store'[n][k] = None /\ <<n, k>> \in Doomed
               \/ store'[n][k] # None /\ (<<n, k, store'[n][k]>> \in UnderWay \/ Begun' # Begun)]_vars
<1> DEFINE Kept(n, k) ==
             \/ store'[n][k] = store[n][k]
             \/ store'[n][k] = None /\ <<n, k>> \in Doomed
             \/ store'[n][k] # None /\ (<<n, k, store'[n][k]>> \in UnderWay \/ Begun' # Begun)
<1>1. TypeOK /\ [Network!Next]_(Network!contents) => \A n \in Node, k \in Key : Kept(n, k)
  <2> SUFFICES ASSUME TypeOK, [Network!Next]_(Network!contents), NEW n \in Node, NEW k \in Key
               PROVE  Kept(n, k)
    OBVIOUS
  <2>1. \A v \in Content : v # None
    BY NoneAssumption DEF Content
  <2>2. ASSUME NEW m \in Node, NEW j \in Key, NEW w \in Content, NetPuts(m, j, w)
        PROVE  Kept(n, k)
    <3>1. store'[n][k] = store[n][k] \/ store'[n][k] = w
      BY <2>2, PutStores
    <3> QED
      BY <2>1, <2>2, <3>1 DEF NetPuts
  <2>3. ASSUME NEW m \in Node, NEW j \in Key, NEW w \in Content \cup {None}, NetKeeps(m, j, w)
        PROVE  Kept(n, k)
    <3>1. store'[n][k] = IF n = m /\ k = j THEN w ELSE store[n][k]
      BY <2>3, KeepStores
    <3> QED
      BY <2>1, <2>3, <3>1 DEF NetKeeps
  <2> QED
    BY <2>2, <2>3, NetKinds DEF NetSends
<1> QED
  BY <1>1, TypeCorrect, NetworkRefinement, PTL DEF Spec, ImplementsContentNetwork, Network!Spec
=============================================================================
