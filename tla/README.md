# erofs-container-toolkit in TLA+

This directory models erofs-container-toolkit: the proxy snapshotter
`containerd-erofs-grpc`, the daemon `lazyd` that fills sparse layer files on
demand, and the conversion of images by `ctr-erofs`. TLC checks the modules on
small instances; TLAPS proves the most important results for every value of the
constants.

## 1. The system

An image in the *EROFS native format* is an index with two manifests per
platform: a legacy one (tar layers) and an EROFS one (raw EROFS images). The
first legacy layer carries an annotation with the digest of the EROFS manifest.
containerd pulls the legacy manifest and asks the snapshotter to `Prepare` a
snapshot per layer, under the chain ID of that layer. If the snapshotter can get
the matching EROFS blob, it commits the snapshot itself and answers
`AlreadyExists`: containerd then skips the tar layer.

| Component (source) | State | Operations | Hard because |
|---|---|---|---|
| Proxy snapshotter (`pkg/containerd-erofs-grpc/snapshotter.go`) | none of its own: the base snapshotter's active and committed snapshots, and labels on them | Prepare, Commit, Remove; the rest is delegated | concurrent gRPC handlers without a lock; labels read and used later; deferred cleanup of half a Prepare |
| Blob provider (`blob.go`) | `snapshots/<id>/layer.erofs` | Materialize | a copy that breaks off leaves a file |
| Manifest provider (`manifest.go`) | bounded FIFO cache of manifests | Get | mutex only around the two accesses; several fetches of one digest |
| Eager daemon (`daemon/eager.go`) | none | BindLayer downloads and verifies | temporary file, rename |
| lazyd client (`daemon/lazyd.go`) | the child process | Start, waitReady, Stop, BindLayer, UnbindLayer | calls whose answer is lost; a process that dies; a lazyd of an earlier server at the socket |
| lazyd registry, control plane (`lazyd/src/instance.rs`, `control.rs`) | chain ID -> instance, in memory | register, unregister | concurrent tasks; marks outside the lock; lost on exit |
| lazyd instance (`instance.rs`) | sparse file, ranges in flight | ensure_range | overlapping ranges; presence asked of the file system |
| lazyd fanotify backend (`fanotify.rs`) | kernel marks, map inode -> chain ID; the batch of events read | mark, unmark, event loop | each blocked reader must be answered, and only with filled bytes; bounded queue and descriptors |
| lazyd remote reader (`lazyd/src/remote/`) | none | read_range | network |
| Converter (`pkg/converter`) | none of its own: blobs and labels in the content store, a lease | Convert | blobs that are there already; garbage collection and removals meanwhile; interruptions |
| Credential backend (`credentials/`) | none | Lookup | host normalisation; the order of a map |
| Server process (`cmd/containerd-erofs-grpc`) | its child | start, serve, Close | no signal handler: killed without Close |
| lazyd process (`lazyd/src/main.rs`) | socket, registry, event loop | start, serve | what is left when `serve` returns |
| Differ, command lines, errors (`cmd/`, `error.rs`) | none | wiring | - |

How they interact:

```
containerd --gRPC--> proxy snapshotter --calls--> base snapshotter (containerd's erofs)
                        |--> manifest provider --> content store / registry
                        |--> blob provider     --> content store, layer.erofs
                        `--> daemon: eager ----> registry, layer.erofs
                                     lazyd client --HTTP on a socket--> control plane --> registry
kernel --pre-access events--> event loop --> registry --> instance.ensure_range --> image registry
```

What makes each correct:

* *Snapshotter*: a chain ID is only ever published over its own content, all of
  it or designated to be filled with it; parents stay while children exist;
  whatever one call binds, it commits or unbinds, and never another's binding.
* *Manifest cache*: what it answers are the bytes of the digest; it stays one
  bounded FIFO queue.
* *Instance*: an `Ok` means the bytes are there; no byte is fetched by two calls
  at once; a reservation ends with its call; every call is answered.
* *Registry, marks, event loop*: a reader is let through only on filled bytes, a
  registered file is watched, every event that the loop takes is answered.
* *Converter*: the legacy manifest before its counterpart, the annotation naming
  that counterpart, layers matched by index, everything reachable kept by labels.
* *Event loop*: no event is forgotten, every descriptor is closed once it is
  answered, readers are answered in the order they asked.
* *Life cycle of lazyd*: a server that ends by itself leaves no lazyd behind; a layer stays
  with the process it was registered with for as long as that lives; what
  answers at the socket never knows an instance it was not told of.
* *Credentials*: no registry gets another one's.

## 2. Modules

| Module | Models |
|---|---|
| `LayerStore` | abstract: what containerd is promised of a snapshotter |
| `LazydService` | abstract: what a client may count on at the path of lazyd's socket |
| `ProxySnapshotter`, `MCProxySnapshotter` | snapshotter.go, blob.go, eager.go, the calls of lazyd.go |
| `ProxySnapshotterProofs` | its content, its use of `LazydService`, its refinement of `LayerStore`, its instances, owners and labels |
| `LazyDaemonLifecycle`, `MCLazyDaemonLifecycle`, `LazyDaemonLifecycleProofs` | Start, waitReady and Stop of lazyd.go, the server of main.go, `serve` of control.rs |
| `LazyInstance`, `MCLazyInstance`, `LazyInstanceProofs` | `Instance` of instance.rs |
| `LazydRegistry`, `MCLazydRegistry`, `LazydRegistryProofs` | registry of instance.rs, control.rs, mark, unmark and one event of fanotify.rs, with the calls of lazyd.go |
| `FanotifyEvents`, `MCFanotifyEvents`, `FanotifyEventsProofs` | run_event_loop, parse_events, respond of fanotify.rs, with the kernel's queue |
| `ManifestCache`, `MCManifestCache`, `ManifestCacheProofs` | manifest.go |
| `DualConverter`, `MCDualConverter`, `DualConverterProofs` | dual_manifest.go, converter.go, the lease and the image of convert.go |
| `DockerConfig`, `DockerConfigProofs` | dockerconfig.go |

They fit together by two refinements. `ProxySnapshotter` implements
`LayerStore` (`ImplementsStore`). The processes of `LazyDaemonLifecycle` implement
`LazydService` (`ImplementsService`), and every step of `ProxySnapshotter` is a
step of `LazydService` or leaves it alone (`UsesService`): what the snapshotter
assumes of its daemon is what the processes provide, whichever of them listens.

### ProxySnapshotter

A chain ID is the sequence of the legacy layers it hashes; an EROFS manifest is
named by its image and has one layer per legacy layer, in order, as
`convertSingleManifest` writes it; a file is its state (`none`, `partial`,
`sparse`, `full`) and the layer it holds or is designated to hold. `worker[w]`
is one gRPC handler; each call it makes to the base snapshotter, to the daemon
or to a file is a step, in the order of the code:

```
PrepareStat -> ResolveAnnotation | ResolveParent -> SelectLayer -> BasePrepare
  -> MaterializeLocal -> Commit
  -> MaterializeRemote -> EagerBind | CreateSparseTarget, PutInstance -> Commit
  any failure after BasePrepare: Fail -> [CleanupUnbind]
    -> CleanupRemove | CleanupRemoveFails
ResolveNone -> BasePrepare (delegated) -> Apply -> ClientCommit | ClientAbort
RemoveStat -> BaseRemove -> [RemoveUnbind]
```

`layerBound` of the code is `worker[w].unbind` on the way of Prepare, and the
labels Remove has read are the same field on its way. `StoreChanges` is
containerd fetching and collecting blobs, `LazydDies` and `ServerRestarts` the
crashes. `PutUnanswered` is a PUT that lazyd serves although the caller's
context has ended. The base snapshotter is external: its atomic metadata
transactions are modelled from how they are used (a key that exists, a parent
that is missing, a name that is taken and children are errors).

`listener` is who answers at the socket: nobody, the `child` of this server or
the `orphan` of one that was killed. An orphan that answers is used as if it were
the child, and is displaced when the child comes to listen: requests after that
go to an empty registry, which is why a cleanup that unbinds by chain ID can hit
the instance of another call.

Three history variables serve the properties only: `leaked` are the chain IDs
whose instance was registered or kept by a call whose answer was lost or whose
server was killed, `forgotten` the snapshots bound to a lazyd that is gone, and
`contested` the chain IDs that a handler bound to an orphan and may still unbind
at its successor. `Served` sets the last two aside and `InstanceOwned` the first:
the code has no way to get them back.

`ExclusiveRemove` says that the caller runs no Remove beside a Prepare or a
Commit, as containerd's metadata store does, whose garbage collector holds the
store's lock when it removes from a backend. The code has no lock of its own:
with `ExclusiveRemove = FALSE`, `Served` and `InstanceOwned` are false, since
`Remove` unbinds by chain ID after `base.Remove` and by labels read before it.
`ChainContent` needs no such assumption; it is proved and checked without it.

### LazyInstance

One step per system call or await of `ensure_range`: `SeekData` and `SeekHole`
(`range_is_present`, before and again under the reservation), `Reserve`,
`Fetch`, one `Write` per `pwrite`, `Fails` at any of them, as often as it likes. `allocated` is what
`lseek` sees, whole blocks of the file system; `data` is what was written.

### LazydRegistry

The write lock (`writer`) is held from `RegisterOpen` to `Insert`; the two parts
of `mark` and the three of `unmark` are steps, since neither the kernel's marks
(`watched`) nor the map by inode (`marks`) are under that lock. A request is served to
its end when its client gives up (`GiveUp`). Readers mount committed layers; a
read of a watched file queues an event, a read of another goes to the file.
`Ensure` and `EnsureFails` are `ensure_range`, which `LazyInstance` has in detail.
An event is taken by the loop (`NextEvent`) or cut off by `parse_events`
(`LoseEvent`), whose reader then waits for good; `FanotifyEvents` says when.

lazyd is modelled with fanotify available. Its own writes to the target raise no
events: it opens the target before it marks it; this is the kernel's behaviour
and is not modelled.

Layers are removed also under readers that have them open. `ReadsFilled` holds
of every reader as long as the path of its layer is there. It cannot hold after
that: a mount that outlives the `Remove` of its layer reads a file whose mark is
gone, or whose chain ID is registered anew for another file, and gets zeros.

### FanotifyEvents

The kernel's side, from how the loop uses it: a bounded queue of events, and
for each event that a read delivers a descriptor and a reader that waits to be
answered through it. `ReadEvent` is one event copied into the buffer,
`ReadReturns` the end of the read with `parse_events`, `Allow` and `Deny` are
`respond` with `close_event_fd`. Three things can go wrong with an event, and are
in the model: the queue is full (`Access` lets the reader through and queues an
overflow event), the descriptors are used up (`ReadRunsOut`: the kernel denies
it), and `parse_events` breaks off at an event of the bare length, which the
overflow event has, and drops the events behind it in the same buffer with their
descriptors. `lost`, `flooded` and `ahead` are history: what was dropped so,
whether the queue was ever full, and of each reader that waits those that asked
before it and still wait.

Whether an event has its range record (`parse_range`) is a kind of the event;
what is done to fill the range is in `LazydRegistry` and `LazyInstance`.

### LazyDaemonLifecycle

Processes are told apart by pid, a server by the pid of its child. `proc[p]` goes
`booting -> removing -> binding -> listening`, as `ControlPlane::serve` removes
whatever file is at the path and binds its own; a `serve` that returns leaves the
process `deaf`, since the event loop's thread keeps it, its registry and its
marks alive. `waitReady` is content with whoever listens (`Ready`). The server has
no signal handler: `ServerKilled` ends it at any step, and its lazyd, its requests
on the way (`wire`) and its committed layers (`bound`) stay. Each request goes to
the process that listens when it is sent and is handled by that one, even when
the server is gone or the path is another's by then.

A call has a context, which may end at any time. When it ends while the request
is under way the handler returns and lazyd goes on (`GiveUp`: the request is on the
wire with `awaited = FALSE`, as are those of a server that has ended). When it
ends before, the call fails and nothing is sent (`ContextEnds`, `NeverSent`): the
cleanup of a Prepare runs in the context that failed it. Two calls of one server
about one id do not overlap here (`call`); that is the subject of `ProxySnapshotter`
and `LazydRegistry`.

`home`, `killed` and `late` are history: where a layer was registered, whether a
server was ever killed, and which ids a DELETE that nobody waited for has unbound
at their home since. `OneDaemon` is about servers that end by themselves.
`Guarded` holds whatever is killed, except of the ids in `late`. `NothingLeft` is an
action property: it names each way in which an instance comes to be left over
behind the path, with nobody to unbind it. The code has three such ways: the
server ends between the PUT and the commit, the context of a call ends before its
DELETE is sent, a PUT is handled that nobody waits for. Whatever else fails or is
killed leaves none.

### ManifestCache

`GetCached` and `StoreCached` are the two critical sections; everything between
them interleaves. A manifest is named by the digest of its bytes, and a source
may send other bytes.

### DualConverter

A blob is named by its content: an EROFS manifest is the record of its config and
layers, the annotation is the manifest it names, and two conversions that write
the same bytes write the same blob. What is written is thus given by operators
of the source (`EROFSManifest`, `LegacyManifest`, `Pair`); when it is written, and
what is collected meanwhile, by actions, one per read or write of the content
store:

```
Convert -> NextManifest -> (ConvertLayer -> DiffID)* -> WriteConfig
  -> WriteEROFSManifest -> WriteLegacyManifest -> NextManifest | WriteIndex
  -> DeleteImage -> CreateImage | CreateFails
```

`Put` is a commit: a blob that is there keeps the labels it has. A commit, also one
answered with `AlreadyExists`, puts the blob under the command's lease
(`worker[c].lease`), as containerd's metadata store does. The lease ends with the
command; an interrupted one cannot delete it, since its context is
cancelled, and leaves it to expire (`expiring`). `CollectGarbage` drops what
neither images nor leases reach by labels. containerd's three parts (content store,
image store, collector) are external.

The code reads the source under no lease of its own: when the source is removed
during the conversion, the converted image may refer to legacy layers that are
gone. `Complete` therefore excuses the blobs of a source that is gone, and
`StaysComplete` says that an image that was complete stays so. `SourceAssumption`
is the form of what is converted: an index lists descriptors, an image's
manifest has a config and layers.

### DockerConfig

The lookup keeps no state and reads the file anew each time: it is a set of
operators, one per function, and has theorems instead of a run. A key of the
file is an address with or without a scheme and with a path. Where the code
iterates over a Go map, `Lookup` is the set of the answers it may give.

## 3. Runs

| Run | Instance and bounds | Distinct states | Shows |
|---|---|---|---|
| `snapshotter_lazyd` | 2 handlers, 2 keys, native image of 2 layers and an image of 3 built on it; 2 snapshots (`MaxId`), 2 crashes (`MaxCrashes`) of the server or of lazyd at any point; lost calls, content store, lazyd | 1 990 000 | TypeOK, ChainContent, Served, InstanceOwned, LabelsFollowParent, UsesService |
| `snapshotter_concurrent` | eager daemon, 3 snapshots, Removes beside Prepares | 502 000 | IndInv, the invariant of the proofs; ImplementsStore, the refinement of LayerStore |
| `snapshotter_siblings` | two images that share their first layer and differ above | violation | finding 1 |
| `lifecycle` | 3 processes (`MaxPid`), 1 chain ID; kills of the server, deaths and errors of lazyd, ends of contexts anywhere; 2 requests given up under way (`MaxForsaken`) | 509 000 | TypeOK, OneDaemon, Guarded, NothingLeft, ImplementsService, Returns |
| `instance` | 3 calls, 5 bytes in blocks of 2, the last one short; 5 ranges, overlapping, nested, touching, empty, past the end; failures without a bound | 87 000 | TypeOK, AnsweredFilled, FetchersDisjoint, ReservationsHeld, EveryCallAnswered |
| `instance_unaligned` | two ranges in one block | violation | finding 2 |
| `registry` | 2 clients, 2 readers, 2 chain IDs, 2 files, lost calls, layers removed under their readers, events cut off | 371 000 | TypeOK, ReadsFilled, RegisteredWatched, PublishedRegistered, EventsAnswered |
| `registry_remove` | 2 clients, no call given up | violation | finding 3 |
| `events` | 3 readers, a queue of 2, reads of 2 events, 3 descriptors; kills of readers and of lazyd | 77 000 | TypeOK, NoneForgotten, FdsReturned, OnlyTheKernelLetsThrough, AnsweredInOrder, EveryEventAnswered |
| `manifest_cache` | 3 calls, 4 digests, room for 2 | 2 300 | TypeOK, CacheQueued, CacheBounded, AnswersVerified, EvictsOldest |
| `convert` | 2 conversions; an index of a matching image, one of another platform and an artifact; the same image by itself; one without layers; one with a layer that is no tar; interruptions, removals, expiring leases, collections anywhere | 248 000 | TypeOK, Complete, NativeFormat, StaysComplete |
| `convert_again` | a native image, all platforms | violation | finding 4 |

Why the bounds are enough. Two handlers make every race of the code, which are
all between two calls about one chain ID or one key; two keys let one call hold
a key while another starts. Two snapshots are one for each layer of the native
image, or two of one chain ID; the third of `snapshotter_concurrent` lets a layer
be prepared twice, removed and prepared again, or have a container's snapshot on
top. Two crashes are a server killed that leaves its lazyd, and the death of
either afterwards. In `lifecycle` three processes are the one that a killed server
left, the one of the next server, and a third that finds the path of either; one
chain ID is enough there, since requests about two never meet, and two requests
that nobody waits for are a PUT and a DELETE of it, at one process or at two;
those of a server that ends do not count. In `instance` three
calls give one that fetches, one that waits for it and one that finds its bytes
present between the two. In `registry` two files are two layers at a time, or one
chain ID that is registered, removed and registered again under a reader of its
first file. In `events` three readers fill the queue of two and let the third
through; a read of two events can have one behind the overflow event; three
descriptors are used up by reads that lose theirs. The cache of two with four
digests evicts a digest that a third call is about to store.

In `DualConverter` a source can be removed once and is not pulled again; the two
that always fail stay (`Removable`), and one interrupted conversion's lease is
left at a time. An index and the image in it have every blob but the index in
common: each is written by one conversion and found by the other, with the lease
of either ending first.

Symmetry is used for handlers and keys, calls, clients and readers, chain IDs, files,
digests and conversions,
which are interchangeable model values, and only in runs without liveness. The
`LazydRegistry` runs say `CHECK_DEADLOCK FALSE`: each file is used once, as a path
is never used again, so that the supply of files (the bound) runs out, like that
of pids in `lifecycle`. So do the runs of `DualConverter`: nothing is left to do
when every image is removed.

Fairness.

* `LazyInstance!FairSpec`: weak fairness of each call's own steps (`Local`): tokio
  polls every ready task, and the 5 ms sleep of `reserve_inflight` ends. There is
  none for `Fetch`, nor for its failure: the code sets no timeout on a remote read.
  `Reserve` polls without a queue, so a waiting call can be overtaken.
  `EveryCallAnswered` states what follows from that, with its two exceptions in
  the formula: a read of the call, or of one that overlaps with it, never returns,
  or calls that overlap with it fail again and again, each time before it looks.
  Calls that succeed cannot keep it waiting. It is false without either exception.
* `LazyDaemonLifecycle!FairSpec`: weak fairness of the end of `waitReady`, which
  polls and has a deadline, of `Stop`, which waits for a process it has killed, of
  the answer to each request of a handler (lazyd runs its tasks, and a process
  that is gone closes its connections), and of the handler's step after it.
  Nothing is assumed of `serve` coming to listen, nor of contexts ending.
* `FanotifyEvents!Spec`: weak fairness of the event loop as a whole. Its thread
  runs; that a remote read returns is an assumption there, about the registry.
* `LazydRegistry!FairSpec`: weak fairness of serving each accepted request;
  strong fairness of taking each queued event, since the kernel's queue is
  first in, first out, and of the event loop's lookup of the instance, since its
  read lock is tokio's fair `RwLock`. There is none for `Ensure` and
  `EnsureFails`: `EventsAnswered` excepts the behaviours in which a remote read,
  for which the one event loop waits, never returns.

## 4. Findings

1. *Sibling images* (`snapshotter_siblings`, snapshotter.go:271). A later layer is
   resolved from the labels of its parent snapshot, whatever image is pulled. If two
   images share their first layers and differ above, the snapshots below are
   shared, and the second image's first own layer is committed with the blob of
   the first image. `SharedBasesAgree` is the assumption that excludes it; the theorems
   about `ProxySnapshotter` state it.
2. *Unaligned ranges* (`instance_unaligned`, instance.rs:252). `lseek` knows allocated
   blocks, so a range inside a block that another range has allocated counts as
   present though its bytes were never written. The event loop asks for whole
   pages; `RequestsAligned` is the assumption, and the test at instance.rs:357
   asks for a range inside a block.
3. *Removing a lazy layer* (`registry_remove`, fanotify.rs:134). `Remove` deletes the
   snapshot's files before it unbinds, and `unmark` starts from the path: the
   DELETE fails, and with it Remove, after the snapshot and the instance are gone.
   Without fanotify there is no mark and no failure.
4. *Native images converted again* (`convert_again`, dual_manifest.go:130).
   `shouldConvertManifest` looks at media types, which an EROFS manifest shares with
   a legacy one. With both platforms accepted the EROFS manifest is
   converted too, and the new index has it as the legacy half of a second pair.
   The default matcher, of one platform without the feature, may leave it out.

## 5. Proofs

All are machine-checked, for any number of handlers, keys, layers, calls and
any blob, block and request.

**ProxySnapshotterProofs.** `Invariance`, `TypeCorrect` and `ContentCorrect`:
`Spec => []IndInv`, hence `[]TypeOK` and `[]ChainContent`. They assume
`SharedBasesAgree` (finding 1 is its failure) and the named ASSUMEs of the
constants, nothing about removals, crashes or answers. `ChainContent` is not
inductive. `IndInv` adds: what each handler knows at each step (`HandlerOK`: its
manifest and index describe its target from `resolve` on, its file is fit
before it commits), that two handlers never hold one key (`KeysHeldApart`), that
no two snapshots share an id and fresh ids have no file (`IdsApart`), and that the
labels of a committed proxy snapshot describe its chain (`LabelsOK`). The argument
at the centre is `SelectedLayer`: a manifest and an index that describe a chain
select its top layer, if shared bases agree. There is a lemma per action; `QuietStep`
and `FillStep` carry the frame of the other handlers.

**LazyInstanceProofs.** `ReservationInvariance`, `TypeCorrect`, `FetchersAreDisjoint`
and `ReservationsAreHeld` for any requests; `AnswersAreFilled` under `RequestsAligned`.
The reservation invariant adds that checked ranges lie in the blob and that held
reservations do not overlap. `FillInv` adds that what is allocated is filled: true
because a call writes only whole blocks, from its start to the end of a block or
of its range, and nobody else writes there, so that the presence that `lseek`
reports is the truth.

**ProxySnapshotterProofs, second part.** `ServiceIsEnough`: under
`SharedBasesAgree`, `Spec => UsesService`, by a lemma per kind of step (no change, a
registration, an unbinding, a loss of the registry).

Third part. `StoreImplemented`: under `SharedBasesAgree`, `Spec => ImplementsStore`,
the refinement of `LayerStore`. `IndInv` already says that what is published has
the content of its chain ID (`ContentsTop`), which makes the content of a new
layer the right one; what the store promises beside is that a layer is created
on one that is there. That needs `Rooted`: what is published, and what is active,
rests on a published layer, and a handler's own snapshot rests on its target's
parent. No code checks this where it matters, at `Commit`: it is `base.Prepare`
which looked at the parent, steps earlier, and `base.Remove` which refuses to
take it away meanwhile. Most steps are `Steady` (no snapshot changes), and
stutter; the rest have a lemma each.

Fourth part. `ServingInvariance`, `CommittedIsServed` (`Served`),
`InstancesAreOwned` (`InstanceOwned`) and `LabelsCount` (`LabelsFollowParent`), under
`SharedBasesAgree` and `ExclusiveRemove`. The second assumption is containerd's:
its metadata store holds its lock when it removes from a backend (see
`ProxySnapshotter` above for what fails without). `Serving` adds to the three
properties that a Remove under way is alone, what each handler's `unbind` means at
each step, that every sparse file is bound, or about to be, by exactly one handler
or snapshot (`Bound`, `Owned`), and that what a handler is about to commit
continues its parent's labels (`FollowsParent`). It rests on `IndInv`.

**LazyDaemonLifecycleProofs.** `TypeCorrect`, `AtMostOneDaemon` (`OneDaemon`),
`LayersGuarded` (`Guarded`), `NothingLeftBehind` (`NothingLeft`) and the refinement
`ServiceImplemented` (`ImplementsService`), for any number of starts and chain
IDs, without further assumptions. The invariant adds that the requests which are
waited for are those of the handlers of the server that runs, one per id
(`WireOK`), that an id that is worked on is not committed (`CallsOK`), where
committed layers, and those about to be, are registered (`HomesOK`), that a process
which never came to listen has an empty registry (`FreshOK`), and that as long as
nothing was killed the child is the only process (`ChildAlone`). `NothingLeft` is
proved step by step: `NoneLeft` says what a step has to respect, and there is a
lemma for the processes, the handlers and each end of a request.

**LazydRegistryProofs.** `TypeCorrect`, `ReadsAreFilled` (`ReadsFilled`),
`RegisteredAreWatched` (`RegisteredWatched`) and `PublishedAreRegistered`
(`PublishedRegistered`). None is inductive: the invariant adds that every file
that is known has been created (`FilesUsed`), what each request knows at each of
its steps (`ClientOK`), that two of them do not own one id, register one file, or
unmark what the other registers (`ClientsApart`), that instances have files of
their own (`InstancesApart`), and what the loop has found out about the event
before it (`LoopOK`). That an id looked up before the instance is still the right
one comes from the path: as long as it is there, the file is published under
that id.

**FanotifyEventsProofs.** `TypeCorrect`, `NoEventForgotten` (`NoneForgotten`),
`FdsAreReturned` (`FdsReturned`), `NoneLetThrough` (`OnlyTheKernelLetsThrough`) and the
action property `OrderIsKept` (`AnsweredInOrder`), for any readers, queue, buffer and
number of descriptors. `IndInv` says that a reader waits for exactly one event,
in the queue or with a descriptor (`Waiting`), that each is in the queue once and
an overflow event is what may be beyond its limit (`QueueOK`), and that no
descriptor comes twice in buffer or batch (`FdsOK`). For the order: those in
`ahead[r]` wait as well (`AheadWaits`), and their events come before r's in the
queue, the buffer and the batch; none is still queued when r's is not
(`QueueOrder`, `BufOrder`, `BatchOrder`). The lemmas about sequences, `TailThins`
and `WithoutThins`, say what is left of a sequence in terms of an embedding that
keeps the order (`Thins`).

**ManifestCacheProofs.** `TypeCorrect`, `CacheIsQueued`, `CacheIsBounded`,
`AnswersAreVerified`, and the action property `EvictionIsFIFO` (`EvictsOldest`).
The invariant adds that the queue lists no digest twice and is no longer than the
limit, and that every entry has the bytes of its digest; that map and queue have
the same size (`OrderCounts`) is a bijection between positions and digests.

**DualConverterProofs.** `TypeCorrect`, the action property `LabelsKeep`
(`StaysComplete`) and `ConvertedAreComplete` (`Complete`), for any images of the
form of `SourceAssumption`, any platforms and any number of conversions. The first
invariant says that every blob in the store is labelled with all that it refers to
and that each conversion is at a manifest of its source; from it, `WholeIsLive`:
the labels lead the collector from an image to its whole tree. `Keeping` is the
argument for `Complete`: what a conversion has written so far, layer by layer
(`Written`), is under its lease, and all else that it refers to belongs to its
source (`Kept`); the source is whole as long as it has its image (`SourceWhole`);
and what is missing of a converted image went with its source, at each level of
the tree (`ConvertedOK`).

`ConvertedAreNative` (`NativeFormat`) assumes `NoneNative`: no entry that is to be
converted has the EROFS feature already, and only its tar layers have diff IDs.
Without it the property is false, which is finding 4 (`convert_again`); the images
of `convert` have it. `Formats` is the strengthening: the list a conversion has so
far is paired (`Paired`), the layers it has been through are tar layers
(`TarLayers`), so that the two manifests it writes have the same diff IDs, and only
layers carry such labels in the store (`DiffIDsOfLayers`).

**DockerConfigProofs.** For any file, host and helper: `OwnCredentials` (what the
file gives a host is the entry of the same registry), `HubNamesAgree` and
`HubByItsURLAlone` (Docker Hub's names are one, and only the entry under its URL is
used for them), `LookupDetermined` and `OrderDecides` (the order of Go's map
decides nothing when no two keys name one host, and does decide otherwise),
`OneBadEntryFailsAll`.

**Only model-checked:** the liveness properties `EveryCallAnswered`
(`LazyInstance`), `EventsAnswered` (`LazydRegistry`), `EveryEventAnswered`
(`FanotifyEvents`) and `Returns` (`LazyDaemonLifecycle`): they need fairness and
`ENABLED`, which are beyond the prover. Every invariant, action property and
refinement of a passing run is stated by a theorem.

## 6. Not modelled, and the plan

Not modelled: the remote reader of lazyd (`lazyd/src/remote/`: references, TLS and
tokens; `read_range` is the step `Fetch`, which succeeds or fails), HTTP framing
and JSON of the control plane, the mapping of errors to status codes, finding the
docker config file, flags, gRPC wiring and logging: string work and I/O without
state. The eager download is one step, since its temporary file is named apart
and never looked at. `Update` of the snapshotter passes through, and containerd
does not touch the proxy's labels with it. In the converter, decompression and
mkfs.erofs are functions of the layer, and content that an interrupted pull left
without labels, or an EROFS layer that was fetched and never unpacked and so has
no diff ID, is not there.

Hazards that no run's property covers, and why:

* what a call to lazyd whose context ends leaves behind (snapshotter.go:147) is
  named by `NothingLeft`; that it is ever unbound holds of no run of this code, and
  `InstanceOwned` sets such chain IDs aside (`leaked`).
* a Remove beside a Prepare (snapshotter.go:195, 205): excluded by
  `ExclusiveRemove`; without it `Served` and `InstanceOwned` are false.
* a cleanup that unbinds at the lazyd that has replaced the one it bound its layer
  at (snapshotter.go:121): `Served` sets those chain IDs aside (`contested`).
* an event looked up under a chain ID that was registered anew for another file
  (fanotify.rs:185): it takes the Remove of a mounted layer, after which
  `ReadsFilled` says nothing.
* a native image with layers built on top (snapshotter.go:331): the Prepare of the
  next layer fails, also in the model; no document says which is meant.
* an EROFS layer without a diff ID (converter.go:178): the conversion fails, since
  a commit answered `AlreadyExists` updates no label.
* the order of the docker config's map, and one entry that fails the whole file
  (dockerconfig.go:169, 112): stated by theorems, as there is no state to explore.
* lazyd without fanotify (main.rs:40): it registers instances that nothing fills,
  so that `ReadsFilled` cannot hold of them.
* credentials kept with the instance (lazyd.go:163): a fetch with stale ones fails
  like any other.

Next, in this order:

1. Proofs: the refinements `UsesService` and `ImplementsService` put together,
   from the processes to the snapshotter; of the liveness properties the steps
   that need no fairness (what a helpful step cannot undo).
2. `DualConverter`: pulled EROFS content with and without its diff ID.
3. The event loop composed with several instances: `FanotifyEvents` over
   `LazyInstance`, a slow fetch of one file before the events of another.
