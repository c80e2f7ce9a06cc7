---------------------------- MODULE ActiveUploads ----------------------------
(***************************************************************************)
(* The gauge registry_upload_sessions_active next to the table of sessions *)
(* it is meant to count.  StorageMetrics wraps the store: it changes the   *)
(* gauge after a call of the store has returned, and nothing makes the two *)
(* one step.  What is in a session, and how a chunk gets there, is in      *)
(* UploadSession; a PUT whose last chunk fails never gets this far.        *)
(***************************************************************************)
EXTENDS Integers, FiniteSets

CONSTANTS
  Session,  \* ids that uuid.New returns
  Request,  \* goroutines that serve POST, PUT and DELETE
  MaxDrift  \* closes in vain (bound)

ASSUME MaxDriftAssumption == MaxDrift \in Nat

VARIABLES
  live,   \* keys of the table s.uploads
  used,   \* ids that were given out
  gauge,  \* uploadSessionsActive
  pc,     \* [Request -> Label]
  sid     \* [Request -> Session]

(* History, for the property: closes that removed no session. *)
VARIABLE vain

gaugeVars == <<live, used, gauge, pc, sid, vain>>

Label == {"idle", "created", "complete", "cancel", "closed"}
At(labels) == {r \in Request : pc[r] \in labels}

GaugeTypeOK ==
  /\ live \in SUBSET used /\ used \in SUBSET Session
  /\ gauge \in Int
  /\ pc \in [Request -> Label]
  /\ sid \in [Request -> Session]
  /\ \A r \in At({"created", "complete", "cancel"}) : sid[r] \in used
  /\ vain \in Nat

GaugeInit ==
  /\ live = {} /\ used = {}
  /\ gauge = 0
  /\ pc = [r \in Request |-> "idle"]
  /\ sid \in [Request -> Session]
  /\ vain = 0

Goto(r, label) == pc' = [pc EXCEPT ![r] = label]
------------------------------------------------------------------------------
(* POST, without a digest or for a mount of what is not there.  If the     *)
(* file of the session cannot be made the gauge is left alone.             *)
CreateUpload(r, s) ==
  /\ pc[r] = "idle" /\ s \notin used
  /\ used' = used \cup {s}
  /\ live' = live \cup {s}
  /\ sid' = [sid EXCEPT ![r] = s]
  /\ Goto(r, "created")
  /\ UNCHANGED <<gauge, vain>>

IncUploadSessionsActive(r) ==
  /\ pc[r] = "created"
  /\ gauge' = gauge + 1
  /\ Goto(r, "idle")
  /\ UNCHANGED <<live, used, sid, vain>>

(* CompleteUpload or CancelUpload of an id that was given out, or never    *)
(* was, begins with the lookup; 404, but counted, if it is not there.  No  *)
(* client knows the id of a POST that has not been answered.               *)
BeginClose(r, s, call) ==
  /\ pc[r] = "idle" /\ s \notin {sid[q] : q \in At({"created"})}
  /\ vain + Cardinality(At({"complete", "cancel"})) < MaxDrift
  /\ sid' = [sid EXCEPT ![r] = s]
  /\ IF s \in live THEN Goto(r, call) /\ UNCHANGED vain
                   ELSE Goto(r, "closed") /\ vain' = vain + 1
  /\ UNCHANGED <<live, used, gauge>>

(* PutBlob of the session's file fails: the session stays. *)
CompleteFails(r) ==
  /\ pc[r] = "complete"
  /\ vain' = vain + 1
  /\ Goto(r, "closed")
  /\ UNCHANGED <<live, used, gauge, sid>>

(* The slip: only the file goes, the table keeps the session. *)
CloseKeeping(r) ==
  /\ pc[r] \in {"complete", "cancel"}
  /\ Goto(r, "closed")
  /\ UNCHANGED <<live, used, gauge, sid, vain>>

(* The session goes, unless another close that also found it was first. *)
Close(r) ==
  /\ pc[r] \in {"complete", "cancel"}
  /\ live' = live \ {sid[r]}
  /\ vain' = IF sid[r] \in live THEN vain ELSE vain + 1
  /\ Goto(r, "closed")
  /\ UNCHANGED <<used, gauge, sid>>

(* The slip: a session that is still there is not counted, as a failed     *)
(* close is taken to leave it for a later one.                             *)
DecIfGone(r) ==
  /\ pc[r] = "closed"
  /\ gauge' = gauge - (IF sid[r] \in live THEN 0 ELSE 1)
  /\ Goto(r, "idle")
  /\ UNCHANGED <<live, used, sid, vain>>

(* Whatever the store said.  The look for the session that follows a       *)
(* completion finds nothing, so that no upload is counted as an operation. *)
DecUploadSessionsActive(r) ==
  /\ pc[r] = "closed"
  /\ gauge' = gauge - 1
  /\ Goto(r, "idle")
  /\ UNCHANGED <<live, used, sid, vain>>

(* Sessions and the gauge are in memory. *)
Restart ==
  /\ live' = {} /\ gauge' = 0 /\ vain' = 0
  /\ pc' = [r \in Request |-> "idle"]
  /\ UNCHANGED <<used, sid>>

GaugeNext ==
  \/ \E r \in Request, s \in Session :
       CreateUpload(r, s) \/ BeginClose(r, s, "complete") \/ BeginClose(r, s, "cancel")
  \/ \E r \in Request :
       \/ IncUploadSessionsActive(r) \/ CompleteFails(r) \/ Close(r)
       \/ DecUploadSessionsActive(r)
  \/ Restart

GaugeSpec == GaugeInit /\ [][GaugeNext]_gaugeVars
------------------------------------------------------------------------------
(* "Number of active upload sessions" (registry.go:106).  The gauge is     *)
(* that number, but for the requests whose count is still to come and for  *)
(* one too few with every close that removed nothing since the start: one  *)
(* that failed, came too late or met another close of the session          *)
(* (storage.go:163-213).  However creations and closes overlap nothing     *)
(* else is lost, and it is never too high once they are over.              *)
GaugeDrift ==
  gauge = Cardinality(live) - Cardinality(At({"created"})) + Cardinality(At({"closed"})) - vain

(* "Number of active upload sessions" (registry.go:106), without any but   *)
(* when no request is under way.  Refuted by a close that removed nothing. *)
GaugeCounts ==
  (\A r \in Request : pc[r] = "idle") => gauge = Cardinality(live)
=============================================================================
