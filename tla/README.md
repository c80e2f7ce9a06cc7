# octoserve in TLA+

octoserve is an OCI registry in Go: an HTTP API over a filesystem store, and
optionally a peer-to-peer layer in which every node asks its peers for what it
does not have and sends them what it was given. This directory holds its TLA+
specifications, the TLC configurations that check them, and proofs for TLAPS.
Paths such as `store.go:113` are relative to `internal/storage/filesystem/`,
`internal/storage/distributed/`, `internal/api/handlers/`, `internal/p2p/`,
`internal/config/`, `internal/metrics/` or `cmd/octoserve/` as the module's
subject says.

## 1. The system

| Part | Source | State | Operations |
|---|---|---|---|
| Filesystem store, blobs | `internal/storage/filesystem/store.go` | files `blobs/.../<digest>` and `<digest>.tmp` | PutBlob, GetBlob, GetBlobSize, BlobExists, DeleteBlob |
| Filesystem store, uploads | same, `pkg/types/upload.go` | the table of sessions (mutex, memory only), one file per session, an offset per session (its own mutex) | CreateUpload, WriteUploadChunk, CompleteUpload, CancelUpload, GetUpload, GetUploadStatus |
| Filesystem store, manifests | same, `pkg/types/manifest.go` | files `manifests/<repo>/<reference>` and `.tmp` | PutManifest, GetManifest, ManifestExists, DeleteManifest, ListTags, GetReferrers |
| HTTP handlers | `internal/api/handlers/*.go` | none of their own; each request is a goroutine that calls the store several times | GET HEAD DELETE blobs; POST PATCH PUT GET DELETE uploads; PUT GET HEAD DELETE manifests; tags, referrers, `/v2/` |
| Distributed store | `internal/storage/distributed/store.go` | none: it wraps a node's filesystem store, a transport and the P2P manager | the store's operations, plus search on peers, the copy kept of what was fetched, replication (eager, lazy, hybrid) |
| P2P manager | `internal/p2p/manager.go` | known peers and their health under two RWMutexes; `stopCh`, a wait group | Start, Stop, the discovery, health-check and maintenance loops, GetPeers, GetPeerHealth |
| Discovery | `internal/p2p/discovery/static.go` | the configured peers | Discover, Watch, Close |
| gRPC transport | `internal/p2p/transport/grpc.go` | a table of connections; a server over the node's *filesystem* store | RequestBlob, BlobExists, ReplicateBlob, the same for manifests, Ping |
| Configuration, start and shutdown | `internal/config/config.go`, `cmd/octoserve/main.go` | a configuration read once; the HTTP server, the signals it waits for | load, validate, override; create, start, serve; cancel, stop, shut down |
| Metrics | `internal/metrics/` | counters and a gauge, in memory | a wrapper around the store that counts its calls; a handler that shows the counts |
| Router, middleware, errors | `internal/api/`, `internal/errors/` | none | matching, logging, error documents |

How they meet. A handler calls the store, which is the filesystem store or,
with P2P on, the distributed one around it. The distributed store calls peers
through the transport; their gRPC servers read and write *their* filesystem
stores directly, so a call never travels further than one node. What a peer
sends is kept. A put starts a goroutine that sends the content to peers with
the context of the HTTP request, and the handler does not wait for it. Which
peers get it is decided from the manager's peers and their health, read
through its two mutexes. Nothing in the store is locked except the session
table and each session's offset: everything else relies on the filesystem.

What is hard, and what correctness means:

- **Blobs.** Puts of a digest share one temporary name; a put verifies the
  stream it was given, not the file it renames. A put may break off, the
  process may die, a reader may be in the middle of the body. Correct: under a
  digest there are exactly its bytes or nothing, at once and whole; no
  temporary file stays; a GET sends what it announces.
- **Uploads.** Every request is several steps over a session, and no lock
  spans two of them. Correct: the offset a client is told to go on from is the
  end of what was stored, chunks that break off do not count, a range is
  accepted once, and what is published is what was accepted.
- **Manifests.** A put by tag is two writes. Temporary names are shared and
  nothing verifies or cleans them. Correct: a file is a whole manifest, a tag's
  manifest can be had by digest, its blobs exist.
- **Listing.** Tags are listed page by page and referrers file by file, while
  the directory changes. Correct: what was there throughout is listed, once.
- **Cluster.** Calls fail, come late or are cut off with the request they
  belong to; nodes die. Correct: a GET finds what a reachable peer has, content
  gets to as many nodes as was asked for and not to more, and the nodes come
  to agree about a tag.
- **Blobs from peers.** A blob comes through the peer's handler, a goroutine
  behind the stream and an io.Pipe to the PutBlob that keeps it. Each may fail
  while another waits for it. Correct: the request goes on to the next peer or
  ends, and nothing of it stays behind.
- **Connections.** Every call looks a connection up and may drop, dial and
  store one, against other calls to the peer and Stop, and no lock spans two of
  these steps. Correct: a call has an open connection, a connection that is
  dialled is kept or closed, Stop leaves none open.
- **Manager.** Three loops, the pings, callers and Stop over two mutexes, two
  of whose critical sections wait. Correct: no deadlock, the loops end when Stop
  waits for them and do nothing afterwards, callers are served, peers that stay
  get a verdict.
- **Life of a node.** The environment overrides what was validated; loops,
  pings, calls of peers and requests are under way when a signal comes, and
  each stage of the shutdown waits for some of them. Correct: no configuration
  that was checked makes the process panic or hang, a node keeps its identity,
  a signal ends it, and status 0 means that nothing was broken off.
- **Metrics.** The gauge is changed after the call it counts. Correct: it says
  how many sessions there are.

The hazards in `PROJECT.json` name each of these at its line.

## 2. The modules

| Module | What it specifies |
|---|---|
| `ContentStore` | What a content-addressed store promises: a table of blobs with atomic Put and Remove. The abstract specification of `BlobStore`. |
| `Files` | `WriteAt`: a file after a write at an offset. |
| `BlobStore` | PutBlob, the GET handler, DELETE and a crash, one action per system call that another goroutine can observe. |
| `ManifestTable` | What a repository promises: a table of references, in which a put takes effect in one step and a get answers with what the table held when it looked. The abstract specification of `ManifestStore`. |
| `ContentNetwork` | What a cluster promises: nodes that hold content, and copies of it under way that may be lost, late or repeated but are never made up. The abstract specification of `DistributedStore`. |
| `UploadSession` | The upload handlers with the session table, offsets and files. |
| `ManifestStore` | The manifest handlers with the directory of one repository. |
| `DistributedStore` | Nodes, requests at nodes and the replication tasks of puts, over the distributed store and the transport's calls. |
| `BlobFetch` | How a request gets a blob from its peers: the streams, the pipes and the goroutines around them. |
| `P2PManager` | One life of the manager of one node. |
| `ConnectionTable` | The connections of one node's transport: getConnection, the calls, Stop. |
| `NodeLifecycle` | The process of a node from its configuration to its end, and again: configuration, main, the loops as far as the configuration decides what becomes of them, signals, shutdown. |
| `RepositoryListing` | The directory of a repository under puts and deletes, a client that walks over its tags, GET referrers. |
| `ActiveUploads` | The gauge of active upload sessions next to the table of sessions. |
| `BlobStoreProofs`, `UploadSessionProofs`, `ManifestStoreProofs`, `DistributedStoreProofs`, `P2PManagerProofs`, `NodeLifecycleProofs` | Theorems and proofs about the module of that name. |
| `TransportProofs` | Theorems and proofs about `ConnectionTable` and `BlobFetch`. |
| `RegistryProofs` | Theorems and proofs about `RepositoryListing` and `ActiveUploads`. |
| `MC...` | Small instances, views and symmetry for TLC. |

`DistributedStore` rests on what `BlobStore` and `ManifestStore` establish of
a node's own store, and takes a put there as one step. `UploadSession` takes
the PutBlob at its end by its result. `P2PManager` is seen from
`DistributedStore` as an arbitrary choice of healthy peers, and
`ConnectionTable` as calls that may fail: the callers of the one are the
pings, searches and replications of the others. `BlobFetch` opens what
`DistributedStore` has in the steps `Fetch`, `FetchFails`, `Cache` and
`CacheFails`. `NodeLifecycle` takes from
`P2PManager` that a loop ends once it is told to and that a health check holds
its mutex; `P2PManager` takes from it that there is a worker. `RepositoryListing`
lets any file be written, installed and deleted at any time, which includes
what `ManifestStore` does, and `ActiveUploads` reduces a session of
`UploadSession` to its key in the table. `BlobFetch` and `ActiveUploads` share
their proof modules with another component, so the names both would have begin
with `Fetch` and `Gauge` there (`FetchTypeOK`, `GaugeSpec`, `FairFetchSpec`).

### Correspondence with the code

Each definition's lines are in `PROJECT.json`, under `map`. In outline:

- **BlobStore.** `data` is the content of files (inodes), `final` and `temp`
  say which file has the name `<path>` and `<path>.tmp`; a file goes on
  existing while somebody has it open. A writer runs `Create` (os.Create
  truncates whatever has the name), `Copy` (io.Copy through the MultiWriter),
  `CloseAndVerify`, `Rename`, `Cleanup` (the deferred Close and Remove, on
  every path); `CopyFails` is an error of the body or the disk. A reader runs
  `StatBlob`, `OpenBlob`, `SizeBlob` (a second stat of the *name*),
  `SendChunk`, `EndBody`. A digest is identified with the bytes it is the hash
  of, so "the hash agrees" is "the streams are equal".
- **UploadSession.** A request begins with the handler's lookup and offset
  check (`BeginPatch`, `BeginPut`, `BeginPutChunk`), then WriteUploadChunk
  (`OpenFile`, `CopyByte`, `CopyFails`, `SetOffset`), then for PATCH `Reply`
  and for PUT CompleteUpload (`OpenForBlob`, `ReadByte`, `ReadEnd`,
  `ReadFails`, `Finish`). `range` is what parseContentRange makes of a header:
  none (0, no error), one with a start, a malformed one.
- **ManifestStore.** `BeginPut`, `CheckBlob` (one step per blob, each a call to
  the store), `OpenTemp`, `Write`, `WriteFails`, `Rename`, which goes on to the
  digest's name after the tag's; `OpenManifest` and `ReadManifest` are the two
  halves of os.ReadFile. A manifest is the document as the handler has completed
  it, with the media type of the request if the body has none (manifests.go:152).
  Its digest, `DigestOf[m]`, is that of the body that was sent, so two manifests
  may have one digest; what is written is neither but `Marshal[m]`.
- **DistributedStore.** `pc` is where the handler is in the store's call:
  `exists`, `probe` (asking peers on behalf of BlobExists), `local`, `search`,
  `fetch`, `cache`, `reread`, `size`, `delete`. `task` is the replication
  goroutine: `SelectTargets`, then for each peer `SendBegins`, `Delivered`,
  `SendFails`. `Reply` cancels the request's context: no call begins after it,
  a call that has begun may still be served, and any call may fail.
- **BlobFetch.** `request` is where getBlobFromPeers is: at the next peer
  (`choose`), in PutBlob, reading from the pipe (`copy`), or over. `feeder` is
  the goroutine of RequestBlob, which waits in Recv (`receive`) or in the
  pipe's Write (`write`); `Copy` is that Write and a Read of PutBlob together.
  `handler` is the GetBlob of the peer's server, which may send while fewer
  than `Window` messages are under way. Closing a pipe is `ClosePipe`: only the
  first counts. The final message is number `Size + 1`.
- **P2PManager.** The critical sections that wait for nothing are one step. The
  two that wait hold their mutex across steps: `LockHealth` ... `CollectEnds`
  (healthMutex, while pings answer) and `RemoveStale` ... `CleanHealth`
  (peerMutex, while healthMutex is wanted). `PingBegins` is the semaphore. Of Stop
  it has the closing of stopCh and the wait for the loops, which ends in `WaitEnds`;
  the closing of the transport behind it, which waits for calls of peers, is in
  `NodeLifecycle`.
- **ConnectionTable.** `Load`, `Check`, `Delete`, `Close`, `Dial`, `Store` are
  the steps of getConnection on the sync.Map and on the connection, `CallEnds`
  is the end of the call it was for. `Changes` is grpc's: a connection connects,
  fails and rests by itself. Stop's Range comes to each peer once, in any order
  (`StopFinds`, `StopCloses`, `StopDeletes`), and other calls go on meanwhile.

- **NodeLifecycle.** `phase` is where main is: `load`, `configured` (LoadFromEnv
  was called), `created`, `started`, `serving`, `waiting` for a signal, `loops`
  (in Manager.Stop, at workerWg.Wait), `graceful` (at GracefulStop), `shutdown`
  (at server.Shutdown), or how the process ended. A configuration keeps what
  later steps depend on, and one Boolean for all other checks of a section.
  A call of a peer is `stalled` from the time its caller stops to read to the
  time it reads on or is gone.
  `Discover`, `CheckBegins` and `CheckEnds` are a discovery and a health check
  (`P2PManager` has their steps).
- **RepositoryListing.** `dir` says what each name of the directory holds, and
  names are ordered as os.ReadDir orders them. `NextPage` is one GET of the tag
  list: it reads the directory in one step and follows `Link`. GetReferrers is
  `BeginScan`, the reading of the directory, then `ReadEntry` for each name.
  os.ReadDir is atomic here; on a real file system a name that comes or goes
  while it runs may or may not be in the result, and so may one that a
  rename replaces on some of them.
- **ActiveUploads.** `CreateUpload`, `BeginClose`, `CompleteFails` and `Close`
  are the store's part of a POST, PUT or DELETE; `IncUploadSessionsActive` and
  `DecUploadSessionsActive` the part of the wrapper behind it.

History variables are declared apart in each module; no action's guard or
effect on the code's state reads them. They record what a property is about:
whether a put ran alone, whether a session was used in order, which nodes had
something all along.

A definition whose comment calls it a slip is a plausible mistake in the
definition it stands by, kept to show that the properties notice it. No
action uses one.

## 3. What is checked

| Run | Instance | Shows |
|---|---|---|
| `blobs` | 1 digest of 2 chunks, 2 writers, 1 reader, 5 files, streams of up to 2 chunks, 2 byte values | Overlapping puts that all go through leave a whole blob (`QuietBlobIntact`); `NoStrayTemp`; a GET of a blob that was put alone sends it, whatever happens to the name (`TrustedBody`). The blobs that were put alone implement `ContentStore`. |
| `blob_torn` | 1 digest, 2 writers | Finding: overlapping puts expose a torn blob. |
| `uploads` | 1 session, 2 requests, 2 digests, files of up to 2 bytes | `ResumeKeepsPrefix`, `PublishesWhatWasAccepted`, `SerialChunkOnce`, with chunks that break off, cancels, completions and restarts. |
| `manifests` | 1 tag, 2 digests, 3 manifests, two of which are one body with different media types and have a blob; 2 writers, 1 reader, 7 files; a put by tag, one of the same body and one of another body under the digest | `SoloGet`, `TagHasManifest`, `ManifestComplete`. The repository implements `ManifestTable`. |
| `replication` | 3 nodes that all know each other, 3 requests, one blob or one tag with 2 manifests, hybrid with a small blob, factor 1 | `GetFinds`, `BoundedSpread`, `SerialPutsAgree`. The cluster implements `ContentNetwork`. |
| `replication_eager` | 3 nodes, eager | Finding: a blob replicated nowhere. |
| `fetch` | 2 peers, one of which may stand still, 3 pieces, 2 messages under way, with fairness | `FetchEnds`, `TransferEnds`. |
| `manager` | 2 peers, the node among its own bootstrap peers, 1 worker, 1 caller, with fairness | `StoppedIsFinal`, `LoopsEnd`, `CallersServed`, `HealthKnown`, and no deadlock. |
| `connections` | 2 peers, 2 callers, 4 connections | `SoloKept`, `StopClosesSolo`, `SoloCall`, and no deadlock. |
| `lifecycle` | 34 files (sound, or one value unsound; P2P on or off; with a name or without; missing; broken), 24 environments, 2 starts, 2 requests, 1 call that may stall, with fairness | `PanicsOnlyIfForced`, `CleanExit`, `IdentityKept`, `SignalEnds` (if no call stays stalled), `RequestsServed`. |
| `listing` | 2 tags, one before and one behind the digest, 3 temporary names, pages of 1, 1 client, 1 scan | `WalkExact`, `ScanComplete`. |
| `gauge` | 3 sessions, 3 requests, 3 closes in vain | `GaugeDrift`. |

Beside these runs a few configurations keep the counterexamples of findings. Each
refutes one property that excuses nothing of the case, with the MC module named:

| Configuration | Module | Refutes | Counterexample |
|---|---|---|---|
| `ManifestTorn.cfg` | `MCManifestStore` | `WrittenAtomically` | Two puts of a reference; one truncates what the other renames. |
| `UploadTwice.cfg` | `MCUploadSession` | `ChunkOnce` | Two PATCHes compare the offset before either moves it. |
| `ConnectionLost.cfg` | `MCConnectionTable` | `StopClosesAll` | A call stores its connection behind Stop. |
| `GaugeNegative.cfg` | `MCActiveUploads` | `GaugeCounts` | A DELETE of a session that is not there. |
| `LifecyclePanic.cfg` | `MCNodeLifecycle` | `NeverPanics` | The environment turns on P2P that was not validated. |
| `LifecycleStalled.cfg` | `MCNodeLifecycle` | `ShutdownIsBounded` | A peer asks for a blob and does not read on. |
| `ReplicationOrder.cfg` | `MCDistributedStore` | `PutsAgree` | The copies of two puts of a tag cross. |
| `ReplicationHead.cfg` | `MCDistributedStore` | `HeadFinds` | HEAD of a blob that a peer has. |

### Bounds, and why they are enough

- Two writers are what sharing a name needs: one that truncates, removes or
  renames and one it happens to. A third only repeats what one of them can do
  after it has ended, and each runs any number of calls one after the other.
  The theorems hold for any number.
- `MaxLen` 2 lets a file be empty, partial and whole, and a stream be right,
  short and wrong; one that is too long is a wrong one to CloseAndVerify, and is
  in the theorems. A body is not one chunk, so truncation can hit between two.
  Two byte values tell right from wrong.
- `Inode` is the number of names and descriptors that can hold a file at a
  time: in `blobs` two names, two writers and a reader. When none is free
  `Create` is not enabled, which these numbers exclude; in `manifests` seven
  is likewise more than four names, two writers and a reader with two puts at
  a time can occupy at the moment a file is made: the requests are of one tag and
  one digest, and the second digest is there only as that of another body. The
  three manifests are the least that tells a rival with the same document from one
  with the same body and another media type, and both from one with another body.
- One upload session: sessions share nothing but the table, in which each
  occupies its own key. Ids are never used again (`uuid.New`), so a behaviour
  ends when they are used up; deadlock is therefore not checked there.
- Three nodes: one to put, one that is reached and one that is not. Three
  one-shot requests give a put, a second put or a DELETE, and a GET; they may
  serve the same node. When all are over the behaviour ends, and deadlock is
  not checked. The state constraints say that blobs and manifests do not meet
  (they are under different keys and share no variable), that reads and
  deletes in one behaviour are of one key, that manifests are put by tag, and
  that the third request comes before or after two that overlap.
- Three pieces and a window of two let a peer's handler wait for room, before
  and at the final message, and let PutBlob fail before, between and after
  pieces. Two peers: one that was given up and one that is read from. There is
  one request, since requests share no stream; when it is over and all that
  belongs to it, nothing is left to do, so deadlock is not checked, and the two
  properties say that nothing is left behind.
- Two peers and one worker is the least that makes a ping wait for another.
- Two callers are what a rival needs, two peers let Stop be at one while a call
  is at the other. A connection that is closed and forgotten may be dialled
  again; those that are lost stay open, so when all four are lost or held only
  `DialFails` is left of dialling, which is after the races of interest.

- Configurations with one unsound value tell the checks apart: each check looks
  at one section, and the loops depend on intervals and workers separately. Two
  starts are what keeping an identity needs. After the second one the behaviour
  ends, and deadlock is not checked. Two requests: one that waits for the mutex
  while another comes.
- Pages of one tag make every page end at a tag that may be gone by the next;
  with a temporary name on either side of the digest's, all three kinds of
  names lie before, between and behind tags. The walk and the scan share only
  the directory, which may change in any way, so the state constraint has one
  of them at a time. One manifest is enough, since a file either refers to the
  one asked about, or is passed over like one that does not parse.
- Three requests let two close a session that a third has just been given.
  `MaxDrift` bounds the closes in vain between two restarts; each adds the same.

Views drop what no later step and no checked property reads: a finished
request's arguments, the content of a file without a name, and which inode it
is that has a name. The history that a property reads is in the view. Symmetry
is declared over goroutines, nodes, requests, sessions and (in `replication`)
manifests, between which neither the modules nor the properties distinguish,
and only in runs without liveness properties.

### Fairness

`P2PManager`, `NodeLifecycle` (`FairSpec`) and `BlobFetch` (`FairFetchSpec`) have
some, and only for what a goroutine does by itself. Nothing promises that a client sends a request, a signal arrives or a
peer answers: a ping ends by its timeout, which the code sets. Steps that wait
for a mutex or stand in a `select` have strong fairness: a `sync.RWMutex` lets
its waiters in turn, and `select` picks at random among the ready cases, so a
case that is ready again and again is taken. Everything that happens once it is
possible (Start, the end of Stop's wait for the loops, pings) has weak fairness. In `NodeLifecycle`
the same holds of the stages of the shutdown, which is over after thirty seconds
whatever the requests do. A call of a peer that goes on ends by its deadline
(`RequestTimeout`, the ping timeout, ten seconds for a manifest), with its blob, or
because keepalive finds that its caller is gone. The transfer of a blob has no
deadline, and a caller that lives and does not read holds it up for as long as it
likes: of a `stalled` call nothing is assumed, and `SignalEnds` says of itself that
no call stays stalled for ever. `ShutdownIsBounded` does not, and fails. Nothing
says that a node is started, that its ports are free or that a signal comes.
In `BlobFetch` Read, Write, Recv and Send are taken weakly fairly, each only where
the code may return from it; no failure and no client that leaves is needed
for progress, and a peer in `Slow` may stop at any point.

## 4. What is proved

For any values of the constants, under the named assumptions of the modules:
`None` is no file, node, key or replication task; the digests of blobs are
sequences of bytes, tags and digests are different references, every manifest has
a digest, which others may have too (`DigestAssumption`); a node knows
finitely many peers (they are in a map), `Workers` is at least 1 (as `Validate`
demands), the replication factor is *any* integer; in `RepositoryListing` the
references are finitely many, and no name has place 0. The sets of goroutines,
sessions, nodes and files may be infinite. Every safety property that a passing
run checks is a theorem, and so are the three refinements. The type invariants of
`UploadSession` and `ActiveUploads` are theorems that no run repeats.

- **BlobStore** (`BlobStoreProofs`). `TypeCorrect` needs that whoever copies or
  sends has a file open. `NoStrayTempInvariant` follows from the types.
  The other theorems rest on `SoloInv`: no file has two names; a file
  that is still being copied to has no name but those of its writer's digest,
  and is not one that a put that ran alone installed; a writer that ran alone
  owns the temporary file; a writer about to rename has verified. Without the second conjunct a
  later writer might hold a descriptor to an installed blob.
  `TrustedBodyInvariant` adds that a trusted reader's file can be written by
  nobody. `QuietBlobIntactInvariant` needs `Heals`: every file of a digest that
  was not fouled *will be* the digest's bytes, because each position that is
  still missing will be written by a writer that has the file open and has not
  reached it, or that writer's stream is already wrong and will foul it. The
  argument is about the last truncation of a file.
  `Refinement`: with the blobs that were put alone for its table, each step maps
  to a Put, a Remove or a stutter of `ContentStore`, whatever else happens.
  `SerialServes`: while no puts of a digest overlap, these are all the blobs
  there are, so that the table is what a GET can open.
- **UploadSession** (`UploadSessionProofs`). A chain of invariants: `FileInv`
  (offset and chunk lie within the file), `ResumeInv` (with no overlap a chunk
  is at the offset, and the stored prefix is untouched), `PublishInv` (nothing
  lies behind the offset of a session no chunk of which broke off; what
  CompleteUpload has read is the file), `AcceptInv` (what was accepted lies
  before the offset and before the chunk about to be accepted).
- **ManifestStore** (`ManifestStoreProofs`). `TypeCorrect`, by `OpenFiles`: whoever
  writes, and nobody else, has a file open. `SoloGetInvariant` rests on `SoloInv`,
  which differs from that of `BlobStore` because nothing is verified after the
  write: names never share a file (`NamesApart`), a writer's file has no name
  but those of its own reference, and has the final one only if a rival installed
  it (`WritesApart`), and who is still alone owns the temporary file, which is empty
  until the write is over and whole after it (`AloneOwnsTemp`). `ReadInv` adds
  that no writer has the file that a reader expects something of.
  `TagHasManifestInvariant`, by `TagInv`: under a digest that is not spoilt, all who
  write at a time write one and the same document of it (`DocsAgree`), one of its two
  files is there as long as somebody is about to write or rename (`HasOne`: a put
  whose rename found no file lost it to one that has installed it), a writer's file
  is empty or what it writes (`OwnFile`), each file is whole or empty with its write
  to come (`Heals`), and a tag whose manifest is not under its digest yet has a put
  that has come to it (`Promised`). Puts of one body with different media types are
  different documents of one digest: overlapping they spoil it, one after the other
  they do not, and the next put that comes to its rename alone makes up for
  whatever spoilt it.
  `ManifestCompleteInvariant`, by `Verified`: past the check, and at each step of
  it, the blobs found so far are there unless one was deleted since it was found. A
  put to which that happened is robbed, and a reference is bereft if a robbed put
  installed its manifest or a blob of it was deleted later; nothing else is excused.
  `TableRefinement`: what can be relied on under a reference is the file that a put
  which ran alone installed. `ReadInv` says that this file is whole, and stays
  so once it was opened, so that table and answers depend on the history alone
  (`GotIs`): they change at a rename, a DELETE and an open and at no write. A put is
  wanted from its request to its end, under its tag and then under its digest.
  A rename by a put that met another puts nothing into the table, which promises
  nothing of the reference until the next put. `SerialServes`: while no puts of
  a reference overlap there is always a promise, and the table is what a GET can
  open. `OnlyAskedForInvariant` is proved of the table and carried over by the
  refinement: under a reference, and in the answer of a GET that found it, there is
  a manifest that was sent for it.
- **DistributedStore** (`DistributedStoreProofs`). `TypeCorrect`, and
  `GetFindsInvariant` by `FindInv`: a node that had the content all along and
  failed no call is still to be asked, or has said so and is still to be tried,
  or the content is already here. The last case is why a copy deleted on the
  serving node is excused. The other two rest on `TaskInv`: a task belongs to a put
  that replicates and is for peers of its node.
  `SerialPutsAgreeInvariant`, by `Agreed`: of a tag whose last put met no other,
  every task still sending carries the manifest of that put, every pull under way is at a
  node that counts as missed, and each node that does not has the manifest or is
  still to be sent it. `BoundedSpreadInvariant`, by `Spread`: there is a finite
  set of nodes, no larger than the factor times the puts whose tasks have chosen
  their peers, that holds every node with the blob that no request is at, and all
  that the tasks are still to reach. The set is never named: a task adds what it
  chose when it has read.
  `NetworkRefinement`: a copy is under way (`UnderWay`) from the moment a request
  has it from a peer until it is kept or given up, and from the put that starts
  a task until the task has done with that peer; before the task has chosen, that is
  every peer. A node is asked to delete (`Doomed`) as long as the DELETE is at
  work. A fetch is then the Send of the peer, `Cache` and `Delivered` are a Receive,
  and choosing peers, failures, the end of a context and crashes only lose copies
  (`Lapse`). A copy stays under way if another request or task carries an equal one,
  which is why a Receive may leave it there (`OneCopyLapses`). Besides `TaskInv` this
  needs `Orderly`: who is about to keep something has it, and only a DELETE comes to
  the node's delete. Three theorems are proved of the abstract network and carried
  over: `NothingMixedUpInvariant` (no blob under another digest, on a node or under
  way), `NothingMadeUp` (what is nowhere under a key comes there only with a request),
  and `NothingLost` (a node loses content only to a DELETE that it serves, and
  gets it only from a copy for it or the request that just came).
- **P2PManager** (`P2PManagerProofs`). `TypeCorrect`, which says when the
  mutexes are held and that a node is never its own peer (it needs that the
  node is not pinged), and `StoppedIsFinalInvariant`, by `ManagerInv`: when
  Stop has waited for the loops, every loop is done.
- **ConnectionTable** (`TransportProofs`). `TypeCorrect`, and
  `SoloKeptInvariant`, `StopClosesSoloInvariant`, `SoloCallInvariant` by `Inv`:
  whoever is solo has no rival for its peer (`Alone`); a connection is held for
  one peer at a time (`HeldForOne`), so that nobody who calls another peer
  closes it; whoever looks while the map has a connection that is not raced has
  found that one (`FoundIt`), so that what it deletes is what it closes; where
  Stop has been there is nothing that is not raced (`Behind`).

- **BlobFetch** (`TransportProofs`). `FetchTypeCorrect`, with the window of flow
  control, and `EofIsWholeInvariant`: when the pipe that PutBlob reads is closed
  without an error, all pieces have been copied, so that a stream that breaks is
  never taken for a short blob and `CopyFails` never has to tell them apart. By
  `FetchInv`: what PutBlob has copied is what its feeder has received, but for
  the piece about to be handed over, and only a feeder that received the final
  message closes a pipe so.
- **NodeLifecycle** (`NodeLifecycleProofs`). `TypeCorrect` with `Idle`: before the
  start and after the end nothing runs. `PanicsOnlyIfForcedInvariant`, by
  `ConfigInv`: from `configured` on the configuration is what Load and LoadFromEnv
  make of file and environment; with P2P its interval and workers are sound
  unless P2P was forced; and no loop runs without P2P. `CleanExitInvariant`, by
  `ExitInv`: when server.Shutdown runs the calls of peers are over and none can
  begin. `IdentityKeptProperty`, an action property, needs the same of the
  configuration.
- **RepositoryListing** (`RegistryProofs`). `TypeCorrect`; `WalkExactInvariant` by
  `WalkInv`: what a client is owed lies behind the last name it was given.
  `PageIs` says why it stays so: a page is the beginning of what is left, so what
  it leaves out is greater than the name its link carries, and it leaves out
  nothing when there is no link. A tag with place 0 would be passed over by the
  first query, which is why the assumption excludes it (no name is empty).
  `ScanCompleteInvariant` is inductive together with the types.
- **ActiveUploads** (`RegistryProofs`). `GaugeTypeCorrect` and `GaugeDriftInvariant`.
  `GaugeDrift` is inductive once the sets it counts are known to be finite, and
  they are without an assumption: each step adds one session or request.

Only model-checked is liveness (`LoopsEnd`, `CallersServed`, `HealthKnown`,
`SignalEnds`, `RequestsServed`, `FetchEnds`, `TransferEnds`): leads-to under
fairness and ENABLED are out of the provers' reach.

## 5. Findings

All are in `PROJECT.json` with the lines they are about. Those that a run, or one
of the configurations that keep a counterexample, shows; first of several actors:

1. Overlapping puts of a digest can publish a torn blob, for good if the second
   breaks off (`blob_torn`), against README.md:336 and :445.
2. Overlapping puts of a reference can install an empty manifest
   (`ManifestTorn.cfg`), against store.go:232.
3. Two PATCHes of one range can both be accepted (`UploadTwice.cfg`), against
   uploads.go:90.
4. Under the eager strategy a blob may be replicated nowhere, since the task's
   context ends with the request (`replication_eager`), against README.md:238.
5. Nodes can disagree about a tag for good: the replications of two puts, or a
   pull and a put, may end in either order (`ReplicationOrder.cfg`), against
   README.md:70 and distributed/store.go:168.
6. A connection that a call stores behind Stop stays open, and so does the first
   of two that were dialled to a peer at once (`ConnectionLost.cfg`), against
   transport/grpc.go:102.
7. A peer that does not read on can hold up the shutdown without a bound
   (`LifecycleStalled.cfg`), against README.md:13 and main.go:212.

Then of one:

8. HEAD of a blob that only a peer has is answered 500 (`ReplicationHead.cfg`),
   against README.md:290.
9. The gauge of upload sessions loses one with every close that removes nothing
   (`GaugeNegative.cfg`), against registry.go:106; no upload is counted as an
   operation on a blob.
10. P2P that is turned on by the environment has not been validated, and may
    panic, starve requests or have no lasting identity (`LifecyclePanic.cfg`),
    against config.go:348, 354 and 363.

The others were met while modelling. Of requests: a call may close the connection
of another while it is being made (transport/grpc.go:411); a final chunk without
Content-Range is written at offset 0 (uploads.go:143); uploads completed in a
session are never replicated; GET and HEAD of a manifest carry no digest; a manifest
put by tag is listed twice among the referrers, and temporary files among the tags
(interface.go:46, 52).

Of the configuration: three of the four documented discovery methods end the
process (README.md:213); the failure threshold has no effect (README.md:226); a
node among its own bootstrap peers may become its own peer (manager.go:297).

Of the paths of requests, which no module models: the validation of names and
digests never sees any (README.md:441), and repositories with a dot in the name
cannot be reached (router.go:80).

## 6. What is not modelled

Only reading: `/v2/`, the status of an upload, range requests, content
negotiation, the filter by artifact type. No state across requests: router,
middleware, error documents. Only added to and read by nobody in the program:
every metric but the gauge of sessions. Not the program's own: generated
protocol code and, but for when they end, the HTTP and gRPC servers. Never
called: FindPeersWithBlob, Watch, Announce, Save, a second Start or Stop of the
manager, and TriggerLazyReplication, which the gRPC server cannot reach because
it has the filesystem store. A power failure is not
modelled (no file is ever synced): a crash is one of the process.

## 7. Plan

Done, in this order of importance: blobs, uploads, manifests, the cluster, the
manager, the connections, the transfer of a blob; the life of a node from its configuration to its
shutdown; listing; the gauge of sessions. Proofs of all their safety properties,
and that blobs, manifests and the cluster refine a content store, a table of
references and a network of copies.

Next:

1. The two sides of SendBlob and PutBlob over a stream of chunks, on the pattern
   of `BlobFetch`.
2. An abstract upload (a list of accepted chunks that is published or dropped)
   implemented by `UploadSession` where requests of a session do not overlap.
