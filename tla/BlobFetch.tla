------------------------------ MODULE BlobFetch ------------------------------
(***************************************************************************)
(* How a blob comes from a peer: the handler of a request, in              *)
(* getBlobFromPeers, tries the peers that said they have the blob one      *)
(* after the other.  For each, RequestBlob opens a GetBlob stream and      *)
(* starts a goroutine, here the feeder, which hands what it receives       *)
(* through an io.Pipe to the PutBlob that the request's handler runs.  On  *)
(* the other side the peer's handler sends the blob piece by piece and is  *)
(* held up by flow control when nobody receives.  An io.Pipe has no        *)
(* buffer: the feeder waits for the reader and the reader for the feeder.  *)
(*                                                                         *)
(* DistributedStore has all this in the steps Fetch, FetchFails, Cache and *)
(* CacheFails.                                                             *)
(***************************************************************************)
EXTENDS Integers

CONSTANTS
  Holder,     \* peers that said they have the blob
  Slow,     \* peers whose handler may stand still for ever, say at their disk
  Size,     \* pieces of the blob, of 64 KiB
  Window,   \* messages that flow control lets be under way in a stream
  NoPeer

ASSUME SlowAssumption == Slow \subseteq Holder /\ NoPeer \notin Holder
ASSUME SizeAssumption == Size \in Nat
ASSUME WindowAssumption == Window \in Nat \ {0}

VARIABLES
  request,   \* where the request's handler is
  done,      \* its context is cancelled: it has returned, or the client is gone
  left,      \* peers not tried yet
  source,    \* the peer whose stream PutBlob reads
  got,       \* pieces PutBlob has copied from it
  pipe,      \* [Holder -> PipeState]: how the pipe was closed first
  feeder,    \* [Holder -> FeederState]
  received,  \* [Holder -> Nat]: messages the feeder has taken from the stream
  handler,   \* [Holder -> HandlerState]: the peer's GetBlob handler
  sent,      \* [Holder -> Nat]: messages it has sent
  broken     \* peers whose stream ended with an error

requestVars == <<request, left, source, got>>
clientVars == <<pipe, feeder, received>>
peerVars == <<handler, sent, broken>>
fetchVars == <<requestVars, done, clientVars, peerVars>>

Final == Size + 1     \* the message without data that ends a blob
Outcome == {"found", "failed"}
PipeState == {"open", "eof", "error", "closed"}
FeederState == {"none", "receive", "write", "ended"}
HandlerState == {"none", "send", "ended"}

FetchTypeOK ==
  /\ request \in Outcome \cup {"choose", "copy"}
  /\ done \in BOOLEAN
  /\ left \subseteq Holder
  /\ source \in Holder \cup {NoPeer} /\ source \notin left
  /\ source # NoPeer <=> request = "copy"
  /\ got \in 0 .. Size
  /\ pipe \in [Holder -> PipeState]
  /\ feeder \in [Holder -> FeederState] /\ handler \in [Holder -> HandlerState]
  /\ received \in [Holder -> 0 .. Final] /\ sent \in [Holder -> 0 .. Final]
  /\ broken \subseteq Holder
  /\ \A q \in Holder : sent[q] - received[q] \in 0 .. Window

FetchInit ==
  /\ request = "choose" /\ done = FALSE
  /\ left = Holder /\ source = NoPeer /\ got = 0
  /\ pipe = [q \in Holder |-> "open"]
  /\ feeder = [q \in Holder |-> "none"] /\ handler = [q \in Holder |-> "none"]
  /\ received = [q \in Holder |-> 0] /\ sent = [q \in Holder |-> 0]
  /\ broken = {}

(* Close of either end of the pipe; a later one changes nothing. *)
ClosePipe(q, how) == pipe' = [pipe EXCEPT ![q] = IF @ = "open" THEN how ELSE @]

FeederEnds(q, how) == feeder' = [feeder EXCEPT ![q] = "ended"] /\ ClosePipe(q, how)
------------------------------------------------------------------------------
(* The request's handler. *)

(* The slip: the peer stays in the list. *)
RequestBlobAgain(q) ==
  /\ request = "choose" /\ q \in left /\ feeder[q] = "none" /\ ~done
  /\ request' = "copy" /\ source' = q /\ got' = 0
  /\ feeder' = [feeder EXCEPT ![q] = "receive"]
  /\ handler' = [handler EXCEPT ![q] = "send"]
  /\ UNCHANGED <<left, done, pipe, received, sent, broken>>

(* gRPC begins no call with a cancelled context. *)
RequestBlob(q) ==
  /\ request = "choose" /\ q \in left /\ ~done
  /\ request' = "copy" /\ source' = q /\ got' = 0
  /\ left' = left \ {q}
  /\ feeder' = [feeder EXCEPT ![q] = "receive"]
  /\ handler' = [handler EXCEPT ![q] = "send"]
  /\ UNCHANGED <<done, pipe, received, sent, broken>>

RequestFails(q) ==
  /\ request = "choose" /\ q \in left
  /\ left' = left \ {q}
  /\ UNCHANGED <<request, source, got, done, clientVars, peerVars>>

NoneLeft ==
  /\ request = "choose" /\ left = {}
  /\ request' = "failed"
  /\ UNCHANGED <<left, source, got, done, clientVars, peerVars>>

(* io.Copy of PutBlob meets the feeder's Write in the pipe. *)
Copy ==
  /\ request = "copy" /\ feeder[source] = "write" /\ pipe[source] = "open"
  /\ got' = got + 1
  /\ feeder' = [feeder EXCEPT ![source] = "receive"]
  /\ UNCHANGED <<request, left, source, done, pipe, received, peerVars>>

(* All of it came and was renamed; it is opened to be sent to the client,  *)
(* if nobody has deleted it.                                               *)
Installed ==
  /\ request = "copy" /\ pipe[source] = "eof" /\ got = Size
  /\ request' \in Outcome
  /\ source' = NoPeer
  /\ UNCHANGED <<left, got, done, clientVars, peerVars>>

(* The slip of CacheFails: the reader is not closed. *)
CacheFailsUnclosed ==
  /\ request = "copy"
  /\ request' = "choose" /\ source' = NoPeer
  /\ UNCHANGED <<left, got, done, clientVars, peerVars>>

(* PutBlob fails, at any point: at a file, the pipe or the digest. *)
CacheFails ==
  /\ request = "copy"
  /\ request' = "choose" /\ source' = NoPeer
  /\ ClosePipe(source, "closed")
  /\ UNCHANGED <<left, got, done, feeder, received, peerVars>>

(* The failure that PutBlob cannot miss: what it reads is at an end. *)
CopyFails ==
  /\ CacheFails
  /\ pipe[source] = "error" \/ (pipe[source] = "eof" /\ got # Size)

(* The handler returns, and its context is cancelled; ... *)
Reply ==
  /\ request \in Outcome /\ ~done
  /\ done' = TRUE
  /\ UNCHANGED <<requestVars, clientVars, peerVars>>

(* ... so it is when the client goes. *)
ClientLeaves ==
  /\ request \notin Outcome /\ ~done
  /\ done' = TRUE
  /\ UNCHANGED <<requestVars, clientVars, peerVars>>
------------------------------------------------------------------------------
(* The feeder. *)

Take(q) ==
  /\ feeder[q] = "receive" /\ received[q] < sent[q]
  /\ received' = [received EXCEPT ![q] = @ + 1]
  /\ UNCHANGED <<requestVars, done, peerVars>>

Receive(q) ==
  /\ Take(q) /\ received'[q] # Final
  /\ feeder' = [feeder EXCEPT ![q] = "write"]
  /\ UNCHANGED pipe

(* The slip of ReceiveFinal: the pipe is left open. *)
ReceiveFinalLeaving(q) ==
  /\ Take(q) /\ received'[q] = Final
  /\ feeder' = [feeder EXCEPT ![q] = "ended"]
  /\ UNCHANGED pipe

ReceiveFinal(q) ==
  /\ Take(q) /\ received'[q] = Final
  /\ FeederEnds(q, "eof")

(* The stream broke, or the request's context is cancelled; either may     *)
(* overtake messages.                                                      *)
ReceiveFails(q) ==
  /\ feeder[q] = "receive" /\ (done \/ q \in broken)
  /\ FeederEnds(q, "error")
  /\ UNCHANGED <<requestVars, done, received, peerVars>>

(* Nobody reads any more. *)
WriteFails(q) ==
  /\ feeder[q] = "write" /\ pipe[q] = "closed"
  /\ FeederEnds(q, "error")
  /\ UNCHANGED <<requestVars, done, received, peerVars>>
------------------------------------------------------------------------------
(* The peer's handler, in its own process. *)

Send(q) ==
  /\ handler[q] = "send" /\ sent[q] - received[q] < Window
  /\ sent' = [sent EXCEPT ![q] = @ + 1]
  /\ handler' = [handler EXCEPT ![q] = IF sent'[q] = Final THEN "ended" ELSE @]
  /\ UNCHANGED <<requestVars, done, clientVars, broken>>

(* It cannot open or read the blob. *)
ReadFails(q) ==
  /\ handler[q] = "send"
  /\ handler' = [handler EXCEPT ![q] = "ended"]
  /\ broken' = broken \cup {q}
  /\ UNCHANGED <<requestVars, done, clientVars, sent>>

(* Its stream is over, which ends a Send that waits. *)
SendFails(q) ==
  /\ handler[q] = "send" /\ (done \/ q \in broken)
  /\ handler' = [handler EXCEPT ![q] = "ended"]
  /\ UNCHANGED <<requestVars, done, clientVars, sent, broken>>

(* The connection is lost, or another call closes it (ConnectionTable). *)
Break(q) ==
  /\ feeder[q] \in {"receive", "write"} \/ handler[q] = "send"
  /\ broken' = broken \cup {q}
  /\ UNCHANGED <<requestVars, done, clientVars, handler, sent>>

Feed(q) == Receive(q) \/ ReceiveFinal(q) \/ ReceiveFails(q) \/ WriteFails(q)

FetchNext ==
  \/ NoneLeft \/ Copy \/ Installed \/ CacheFails \/ Reply \/ ClientLeaves
  \/ \E q \in Holder : \/ RequestBlob(q) \/ RequestFails(q) \/ Feed(q)
                     \/ Send(q) \/ ReadFails(q) \/ SendFails(q) \/ Break(q)

FetchSpec == FetchInit /\ [][FetchNext]_fetchVars

(* Goroutines run, and calls return once they can: a Read or a Write of    *)
(* the pipe when the other side has come or closed it, a Recv when there   *)
(* is a message or the stream is over, a Send when there is room or the    *)
(* stream is over.  No client needs to go, no disk to fail, and a Slow     *)
(* peer promises nothing.                                                  *)
FetchFairness ==
  /\ WF_fetchVars(NoneLeft \/ \E q \in Holder : RequestBlob(q) \/ RequestFails(q))
  /\ WF_fetchVars(Copy \/ Installed \/ CopyFails) /\ WF_fetchVars(Reply)
  /\ \A q \in Holder : WF_fetchVars(Feed(q))
  /\ \A q \in Holder \ Slow : WF_fetchVars(Send(q) \/ SendFails(q))

FairFetchSpec == FetchSpec /\ FetchFairness
------------------------------------------------------------------------------
(* A request that fetches a blob gets through its peers, whatever breaks   *)
(* off on the way, unless one of them stands still: RequestBlob has no     *)
(* timeout, and then it is up to the client (store.go:327-350,             *)
(* grpc.go:206-244).                                                       *)
FetchEnds == request \notin Outcome ~> request \in Outcome \/ source \in Slow

(* When the request is over, or its client is gone, nothing of it stays    *)
(* behind for long: its handler leaves PutBlob, even one that reads from   *)
(* a peer that stands still, all its feeders end, those of peers that were *)
(* given up half-way too, and so do the handlers of the peers              *)
(* (store.go:338-343, grpc.go:218-241, 549-557).                           *)
Over(q) == feeder[q] \in {"none", "ended"} /\ (q \notin Slow => handler[q] \in {"none", "ended"})
TransferEnds == done ~> request \in Outcome /\ \A q \in Holder : Over(q)
=============================================================================
