-------------------------- MODULE ProxySnapshotter --------------------------
(***************************************************************************)
(* The proxy snapshotter of pkg/containerd-erofs-grpc/snapshotter.go: the  *)
(* concurrent gRPC handlers Prepare, Remove, Commit over a base snapshotter*)
(* that stores the snapshots, the blob provider (blob.go) that finds the   *)
(* data of an EROFS layer, and the daemon (daemon/eager.go, daemon/lazyd.go)*)
(* that downloads it at once or serves it on demand.                       *)
(*                                                                         *)
(* The data abstracted: a chain ID is the sequence of legacy layers it     *)
(* hashes; an EROFS manifest is named by its image; a blob is told by the  *)
(* legacy layer it packs; a file by its state and what it holds.           *)
(***************************************************************************)
EXTENDS Naturals, Sequences

CONSTANTS
    Workers,        \* concurrent gRPC handlers, each with its client
    Keys,           \* names of active snapshots
    NoKey,          \* a handler that holds no key
    Layers,         \* legacy (tar) layers
    Images,         \* images clients pull
    Native,         \* the images that also have an EROFS manifest
    LegacyLayers,   \* image |-> sequence of the legacy layers of its manifest
    NoImage,        \* no manifest label
    NoLayer,        \* content of a file that holds nothing
    Daemon,         \* "eager" or "lazyd": -daemon-backend
    ContentStore,   \* EROFS blobs may be in containerd's content store
    ExclusiveRemove,\* the caller never runs a Remove beside a Prepare
    LostCalls,      \* a call to lazyd may take effect or not without an answer
    MaxId,          \* bound: snapshots the base snapshotter allocates
    MaxCrashes      \* bound: restarts of the server and deaths of lazyd

ASSUME ImageAssumption ==
    /\ Native \subseteq Images
    /\ NoImage \notin Images
    /\ NoLayer \notin Layers
    /\ NoKey \notin Keys
    /\ LegacyLayers \in [Images -> Seq(Layers)]
    /\ \A im \in Images : Len(LegacyLayers[im]) > 0

ASSUME BoundAssumption == MaxId \in Nat /\ MaxCrashes \in Nat

ASSUME ConfigAssumption ==
    /\ Daemon \in {"eager", "lazyd"}
    /\ ContentStore \in BOOLEAN
    /\ ExclusiveRemove \in BOOLEAN
    /\ LostCalls \in BOOLEAN

(* The EROFS manifest of a native image: the converter appends one EROFS   *)
(* layer per legacy layer, in order (convertSingleManifest), so the blob   *)
(* at an index packs the legacy layer at that index.                       *)
ErofsManifest == [m \in Native |-> LegacyLayers[m]]

Chains == UNION {{SubSeq(LegacyLayers[im], 1, n) : n \in 1..Len(LegacyLayers[im])} :
                    im \in Images}
Top(c) == c[Len(c)]
Parent(c) == SubSeq(c, 1, Len(c) - 1)      \* <<>>: no parent

(* All images that begin with the first layer of a native image continue   *)
(* like it, as far as both go: what matching "by layer index" along the    *)
(* parent's labels relies on.                                              *)
SharedBasesAgree ==
    \A m \in Native, im \in Images :
        LegacyLayers[im][1] = LegacyLayers[m][1] =>
            \A i \in (1..Len(LegacyLayers[m])) \cap (1..Len(LegacyLayers[im])) :
                LegacyLayers[im][i] = LegacyLayers[m][i]

Ids == 1..MaxId            \* snapshot ids; 0 is none
SnapIds == 0..MaxId
Indexes == 0..(MaxId + 1)

VARIABLES
    active,     \* base: key |-> [id, parent] of the active snapshot, id 0: none
    committed,  \* base: chain ID |-> [id, manifest, index], id 0: none
    nextId,     \* base: the next snapshot id
    file,       \* snapshots/<id>/layer.erofs: [state, layer]
    local,      \* layers whose EROFS blob is in the content store
    instance,   \* lazyd's registry: chain ID |-> [id, layer], id 0: none
    listener,   \* who answers at lazyd's socket: "none", the server's "child",
                \* or the "orphan" of a server that was killed
    crashes,    \* restarts and deaths so far
    worker,     \* the handlers' control and locals
    leaked,     \* history: instances whose owner lost the call about them
    forgotten,  \* history: snapshots bound to a lazyd that is gone
    contested   \* history: chain IDs a handler bound to an orphan and may unbind

base == <<active, committed, nextId>>
lazyd == <<instance, listener, leaked, forgotten, contested>>
vars == <<base, file, local, lazyd, crashes, worker>>

NoActive == [id |-> 0, parent |-> <<>>]
NoCommitted == [id |-> 0, manifest |-> NoImage, index |-> 0]
NoFile == [state |-> "none", layer |-> NoLayer]
NoInstance == [id |-> 0, layer |-> NoLayer]
Idle == [pc |-> "idle", key |-> NoKey, target |-> <<>>, image |-> NoImage,
         manifest |-> NoImage, index |-> 0, id |-> 0, unbind |-> FALSE]

Init ==
    /\ active = [k \in Keys |-> NoActive]
    /\ committed = [c \in Chains |-> NoCommitted]
    /\ nextId = 1
    /\ file = [i \in Ids |-> NoFile]
    /\ local = {}
    /\ instance = [c \in Chains |-> NoInstance]
    /\ listener = IF Daemon = "lazyd" THEN "child" ELSE "none"
    /\ crashes = 0
    /\ worker = [w \in Workers |-> Idle]
    /\ leaked = {}
    /\ forgotten = {}
    /\ contested = {}

-----------------------------------------------------------------------------
(* The handlers' control. *)

At(w, pc) == worker[w].pc = pc
Goto(w, pc) == worker' = [worker EXCEPT ![w].pc = pc]
Return(w) == worker' = [worker EXCEPT ![w] = Idle]

(* Mutants of Fail: cleanup unbinds what this call never bound; cleanup     *)
(* forgets the instance this call bound.                                   *)
MutantAlwaysUnbinds(w) == Goto(w, "unbind")
MutantNeverUnbinds(w) == Goto(w, "undo")

(* The deferred cleanup of Prepare: UnbindLayer if this call bound the     *)
(* layer, then base.Remove of the key.                                     *)
Fail(w) == Goto(w, IF worker[w].unbind THEN "unbind" ELSE "undo")

PrepareSteps == {"resolve", "delegate", "manifest", "base", "materialize",
                 "bind", "put", "commit", "unbind", "undo"}
ClientSteps == {"apply", "extracted"}
RemoveSteps == {"baseRemove", "revoke"}

(* containerd's metadata store takes its lock for a backend Remove. *)
MayPrepare == ExclusiveRemove => \A w \in Workers : worker[w].pc \notin RemoveSteps
MayRemove == ExclusiveRemove =>
                \A w \in Workers : worker[w].pc \notin PrepareSteps \cup RemoveSteps

Published(c) == c \in DOMAIN committed /\ committed[c].id # 0
IsProxy(c) == Published(c) /\ committed[c].manifest # NoImage
HasChildren(c) == \/ \E k \in Keys : active[k].id # 0 /\ active[k].parent = c
                  \/ \E d \in Chains : Published(d) /\ Parent(d) = c
HasFile(i) == file[i].state # "none"
LazydUp == listener # "none"

(* The EROFS layer the handler's manifest and index select: what its blob  *)
(* packs.                                                                  *)
Wanted(w) == ErofsManifest[worker[w].manifest][worker[w].index + 1]

-----------------------------------------------------------------------------
(* Prepare of layer n of image im under key k: containerd's unpack asks    *)
(* with the chain ID as the snapshot.ref label and the layer's annotations *)
(* as labels.  A published target is answered AlreadyExists, which changes *)
(* nothing.                                                                *)
PrepareStat(w, k, im, n) ==
    LET target == SubSeq(LegacyLayers[im], 1, n)
    IN  /\ At(w, "idle")
        /\ MayPrepare
        /\ ~Published(target)
        /\ worker' = [worker EXCEPT ![w] =
                         [Idle EXCEPT !.pc = "resolve", !.key = k,
                                      !.target = target, !.image = im]]
        /\ UNCHANGED <<base, file, local, lazyd, crashes>>

(* Mutant of Annotated: every first layer is taken for an annotated one. *)
MutantFirstLayer(w) == Len(worker[w].target) = 1

(* The first legacy layer of a native image carries the manifest           *)
(* annotation.                                                             *)
Annotated(w) == Len(worker[w].target) = 1 /\ worker[w].image \in Native

ResolveAnnotation(w) ==
    /\ At(w, "resolve")
    /\ Annotated(w)
    /\ worker' = [worker EXCEPT ![w].pc = "manifest",
                                ![w].manifest = worker[w].image, ![w].index = 0]
    /\ UNCHANGED <<base, file, local, lazyd, crashes>>

(* Mutant of ResolveParent: the parent's index is not advanced. *)
MutantSameIndex(w) ==
    LET p == Parent(worker[w].target)
    IN  /\ At(w, "resolve")
        /\ ~Annotated(w)
        /\ IsProxy(p)
        /\ worker' = [worker EXCEPT ![w].pc = "manifest",
                                    ![w].manifest = committed[p].manifest,
                                    ![w].index = committed[p].index]
        /\ UNCHANGED <<base, file, local, lazyd, crashes>>

(* A later layer goes on from the manifest and index its parent recorded. *)
ResolveParent(w) ==
    LET p == Parent(worker[w].target)
    IN  /\ At(w, "resolve")
        /\ ~Annotated(w)
        /\ IsProxy(p)
        /\ worker' = [worker EXCEPT ![w].pc = "manifest",
                                    ![w].manifest = committed[p].manifest,
                                    ![w].index = committed[p].index + 1]
        /\ UNCHANGED <<base, file, local, lazyd, crashes>>

(* No annotation and no labels on the parent: the legacy path. *)
ResolveNone(w) ==
    /\ At(w, "resolve")
    /\ ~Annotated(w)
    /\ ~IsProxy(Parent(worker[w].target))
    /\ Goto(w, "delegate")
    /\ UNCHANGED <<base, file, local, lazyd, crashes>>

SelectLayer(w) ==
    /\ At(w, "manifest")
    /\ worker[w].index < Len(ErofsManifest[worker[w].manifest])
    /\ Goto(w, "base")
    /\ UNCHANGED <<base, file, local, lazyd, crashes>>

(* The manifest is unreachable or invalid, or the index is out of range. *)
SelectFails(w) ==
    /\ At(w, "manifest")
    /\ Return(w)
    /\ UNCHANGED <<base, file, local, lazyd, crashes>>

(* base.Prepare, for the proxy path or delegated. *)
CanBasePrepare(w) ==
    LET p == Parent(worker[w].target)
    IN  /\ active[worker[w].key].id = 0
        /\ p = <<>> \/ Published(p)
        /\ nextId \in Ids

(* Mutant of BasePrepare: the snapshot is prepared without its parent. *)
MutantNoParent(w) ==
    /\ worker[w].pc \in {"base", "delegate"}
    /\ CanBasePrepare(w)
    /\ active' = [active EXCEPT ![worker[w].key] = [id |-> nextId, parent |-> <<>>]]
    /\ nextId' = nextId + 1
    /\ worker' = [worker EXCEPT
                     ![w].pc = IF At(w, "base") THEN "materialize" ELSE "apply",
                     ![w].id = nextId]
    /\ UNCHANGED <<committed, file, local, lazyd, crashes>>

BasePrepare(w) ==
    /\ worker[w].pc \in {"base", "delegate"}
    /\ CanBasePrepare(w)
    /\ active' = [active EXCEPT ![worker[w].key] =
                     [id |-> nextId, parent |-> Parent(worker[w].target)]]
    /\ nextId' = nextId + 1
    /\ worker' = [worker EXCEPT
                     ![w].pc = IF At(w, "base") THEN "materialize" ELSE "apply",
                     ![w].id = nextId]
    /\ UNCHANGED <<committed, file, local, lazyd, crashes>>

BasePrepareFails(w) ==
    /\ worker[w].pc \in {"base", "delegate"}
    /\ ~CanBasePrepare(w)
    /\ Return(w)
    /\ UNCHANGED <<base, file, local, lazyd, crashes>>

(* BlobProvider.Materialize: the file is there, or is copied from the      *)
(* content store; the copy may break off in the middle; otherwise the      *)
(* layer is remote, which needs an image reference and credentials.        *)
MaterializeLocal(w) ==
    /\ At(w, "materialize")
    /\ HasFile(worker[w].id) \/ Wanted(w) \in local
    /\ file' = IF HasFile(worker[w].id) THEN file
               ELSE [file EXCEPT ![worker[w].id] =
                        [state |-> "full", layer |-> Wanted(w)]]
    /\ Goto(w, "commit")
    /\ UNCHANGED <<base, local, lazyd, crashes>>

(* Mutant of MaterializeFails: the error of a broken copy is dropped. *)
MutantCommitsTornCopy(w) ==
    /\ At(w, "materialize")
    /\ ~HasFile(worker[w].id)
    /\ Wanted(w) \in local
    /\ file' = [file EXCEPT ![worker[w].id] =
                   [state |-> "partial", layer |-> Wanted(w)]]
    /\ Goto(w, "commit")
    /\ UNCHANGED <<base, local, lazyd, crashes>>

MaterializeFails(w) ==
    /\ At(w, "materialize")
    /\ ~HasFile(worker[w].id)
    /\ \/ Wanted(w) \in local
          /\ file' = [file EXCEPT ![worker[w].id] =
                         [state |-> "partial", layer |-> Wanted(w)]]
       \/ UNCHANGED file
    /\ Fail(w)
    /\ UNCHANGED <<base, local, lazyd, crashes>>

MaterializeRemote(w) ==
    /\ At(w, "materialize")
    /\ ~HasFile(worker[w].id)
    /\ Wanted(w) \notin local
    /\ Goto(w, "bind")
    /\ UNCHANGED <<base, file, local, lazyd, crashes>>

-----------------------------------------------------------------------------
(* BindLayer.  The eager daemon downloads into a temporary file, verifies  *)
(* and renames; a failure leaves no target.                                *)
EagerBind(w) ==
    /\ At(w, "bind")
    /\ Daemon = "eager"
    /\ file' = [file EXCEPT ![worker[w].id] = [state |-> "full", layer |-> Wanted(w)]]
    /\ worker' = [worker EXCEPT ![w].pc = "commit", ![w].unbind = TRUE]
    /\ UNCHANGED <<base, local, lazyd, crashes>>

(* LazyDaemon creates the sparse target, then PUTs the instance. *)
CreateSparseTarget(w) ==
    /\ At(w, "bind")
    /\ Daemon = "lazyd"
    /\ file' = [file EXCEPT ![worker[w].id] = [state |-> "sparse", layer |-> Wanted(w)]]
    /\ Goto(w, "put")
    /\ UNCHANGED <<base, local, lazyd, crashes>>

BindFails(w) ==
    /\ At(w, "bind")
    /\ Fail(w)
    /\ UNCHANGED <<base, file, local, lazyd, crashes>>

(* lazyd registers a new instance, and accepts again the same config. *)
Mine(w) == [id |-> worker[w].id, layer |-> Wanted(w)]

CanRegister(w) == LazydUp /\ instance[worker[w].target] \in {NoInstance, Mine(w)}

PutInstance(w) ==
    /\ At(w, "put")
    /\ CanRegister(w)
    /\ instance' = [instance EXCEPT ![worker[w].target] = Mine(w)]
    /\ worker' = [worker EXCEPT ![w].pc = "commit", ![w].unbind = TRUE]
    /\ UNCHANGED <<base, file, local, listener, leaked, forgotten, contested,
                   crashes>>

(* Another config is registered under the chain ID (409), or lazyd is      *)
(* down, or cannot open or mark the target.                                *)
PutFails(w) ==
    /\ At(w, "put")
    /\ Fail(w)
    /\ UNCHANGED <<base, file, local, lazyd, crashes>>

(* The instance is registered and the answer never reaches BindLayer: the  *)
(* caller's context ends first.                                            *)
PutUnanswered(w) ==
    /\ LostCalls
    /\ At(w, "put")
    /\ CanRegister(w)
    /\ instance' = [instance EXCEPT ![worker[w].target] = Mine(w)]
    /\ leaked' = leaked \cup {worker[w].target}
    /\ Fail(w)
    /\ UNCHANGED <<base, file, local, listener, forgotten, contested, crashes>>

(* UnbindLayer: lazyd drops whatever is registered under the chain ID; a   *)
(* call that never arrives leaves it.  The eager daemon does nothing.      *)
UnbindLayer(c) ==
    /\ \/ /\ LazydUp
          /\ instance' = [instance EXCEPT ![c] = NoInstance]
          /\ leaked' = leaked \ {c}
       \/ /\ ~LazydUp \/ LostCalls
          /\ leaked' = IF instance[c] = NoInstance THEN leaked ELSE leaked \cup {c}
          /\ UNCHANGED instance
    /\ UNCHANGED <<listener, forgotten, contested>>

-----------------------------------------------------------------------------
(* base.Commit names the snapshot by its chain ID, with the proxy labels;  *)
(* Prepare answers AlreadyExists, which tells containerd the layer is done.*)
Commit(w) ==
    LET r == worker[w]
    IN  /\ At(w, "commit")
        /\ ~Published(r.target)
        /\ committed' = [committed EXCEPT ![r.target] =
                           [id |-> active[r.key].id,
                            manifest |-> r.manifest, index |-> r.index]]
        /\ active' = [active EXCEPT ![r.key] = NoActive]
        /\ Return(w)
        /\ UNCHANGED <<nextId, file, local, lazyd, crashes>>

(* The name is taken, or the base snapshotter fails. *)
CommitFails(w) ==
    /\ At(w, "commit")
    /\ Fail(w)
    /\ UNCHANGED <<base, file, local, lazyd, crashes>>

CleanupUnbind(w) ==
    /\ At(w, "unbind")
    /\ UnbindLayer(worker[w].target)
    /\ Goto(w, "undo")
    /\ UNCHANGED <<base, file, local, crashes>>

(* base.Remove of an active snapshot: its metadata and its directory. *)
RemoveActive(k) ==
    /\ active' = [active EXCEPT ![k] = NoActive]
    /\ file' = [file EXCEPT ![active[k].id] = NoFile]
    /\ UNCHANGED <<committed, nextId, local, lazyd, crashes>>

CleanupRemove(w) ==
    /\ At(w, "undo")
    /\ RemoveActive(worker[w].key)
    /\ Return(w)

(* The error is ignored and the snapshot stays, for RemoveStale. *)
CleanupRemoveFails(w) ==
    /\ At(w, "undo")
    /\ Return(w)
    /\ UNCHANGED <<base, file, local, lazyd, crashes>>

-----------------------------------------------------------------------------
(* The client of a delegated Prepare: the differ unpacks the legacy layer  *)
(* into the snapshot, then the client calls Commit, which passes through,  *)
(* or gives up and calls Remove on the key.                                *)
Apply(w) ==
    /\ At(w, "apply")
    /\ file' = [file EXCEPT ![worker[w].id] =
                   [state |-> "full", layer |-> Top(worker[w].target)]]
    /\ Goto(w, "extracted")
    /\ UNCHANGED <<base, local, lazyd, crashes>>

ClientCommit(w) ==
    LET r == worker[w]
    IN  /\ At(w, "extracted")
        /\ MayPrepare
        /\ ~Published(r.target)
        /\ committed' = [committed EXCEPT ![r.target] =
                           [id |-> active[r.key].id,
                            manifest |-> NoImage, index |-> 0]]
        /\ active' = [active EXCEPT ![r.key] = NoActive]
        /\ Return(w)
        /\ UNCHANGED <<nextId, file, local, lazyd, crashes>>

ClientAbort(w) ==
    /\ worker[w].pc \in ClientSteps
    /\ RemoveActive(worker[w].key)
    /\ Return(w)

(* A container's own snapshot: no snapshot.ref label, so Prepare and View  *)
(* pass straight to the base snapshotter.                                  *)
PrepareContainer(k, c) ==
    /\ MayPrepare
    /\ active[k].id = 0
    /\ Published(c)
    /\ nextId \in Ids
    /\ active' = [active EXCEPT ![k] = [id |-> nextId, parent |-> c]]
    /\ nextId' = nextId + 1
    /\ UNCHANGED <<committed, file, local, lazyd, crashes, worker>>

(* A container ends, or the garbage collector removes an active snapshot   *)
(* nobody works on.  No active snapshot has the proxy labels, so Remove     *)
(* unbinds nothing.                                                        *)
RemoveStale(k) ==
    /\ active[k].id # 0
    /\ \A w \in Workers : worker[w].key # k
    /\ RemoveActive(k)
    /\ UNCHANGED worker

-----------------------------------------------------------------------------
(* Remove of a committed snapshot: read its labels, remove it, and, if the *)
(* labels read were a proxy's, UnbindLayer.                                *)
RemoveStat(w, c) ==
    /\ At(w, "idle")
    /\ MayRemove
    /\ worker' = [worker EXCEPT ![w] =
                     [Idle EXCEPT !.pc = "baseRemove", !.target = c,
                                  !.unbind = IsProxy(c)]]
    /\ UNCHANGED <<base, file, local, lazyd, crashes>>

BaseRemove(w) ==
    LET c == worker[w].target
    IN  /\ At(w, "baseRemove")
        /\ Published(c)
        /\ ~HasChildren(c)
        /\ committed' = [committed EXCEPT ![c] = NoCommitted]
        /\ file' = [file EXCEPT ![committed[c].id] = NoFile]
        /\ IF worker[w].unbind THEN Goto(w, "revoke") ELSE Return(w)
        /\ UNCHANGED <<active, nextId, local, lazyd, crashes>>

BaseRemoveFails(w) ==
    LET c == worker[w].target
    IN  /\ At(w, "baseRemove")
        /\ ~Published(c) \/ HasChildren(c)
        /\ Return(w)
        /\ UNCHANGED <<base, file, local, lazyd, crashes>>

RemoveUnbind(w) ==
    /\ At(w, "revoke")
    /\ UnbindLayer(worker[w].target)
    /\ Return(w)
    /\ UNCHANGED <<base, file, local, crashes>>

-----------------------------------------------------------------------------
(* The environment: containerd fetches EROFS blobs into its content store  *)
(* and collects them.                                                      *)
StoreChanges(l) ==
    /\ ContentStore
    /\ \E m \in Native : \E i \in 1..Len(ErofsManifest[m]) : ErofsManifest[m][i] = l
    /\ local' = IF l \in local THEN local \ {l} ELSE local \cup {l}
    /\ UNCHANGED <<base, file, lazyd, crashes, worker>>

(* Mutant of LoseRegistry: a lazyd takes up the registry of the last one. *)
MutantKeepsRegistry == UNCHANGED <<instance, forgotten, leaked>>

(* lazyd keeps its registry in memory only. *)
LoseRegistry ==
    /\ instance' = [c \in Chains |-> NoInstance]
    /\ forgotten' = forgotten \cup ({instance[c].id : c \in Chains} \ {0})
    /\ leaked' = {}

(* lazyd exits; nothing starts it again while the server runs. *)
LazydDies ==
    /\ LazydUp
    /\ crashes < MaxCrashes
    /\ crashes' = crashes + 1
    /\ listener' = "none"
    /\ LoseRegistry
    /\ UNCHANGED <<base, file, local, worker, contested>>

(* What the registry of an orphan keeps for calls that died with the server.*)
Abandoned == {c \in Chains : instance[c] # NoInstance /\ \E w \in Workers : worker[w].target = c}

(* The server is killed and started again: every call in flight is gone,   *)
(* the snapshots and their files stay.  Its lazyd lives on; the new one    *)
(* has taken over the path by the time Start returns, or not yet.          *)
ServerRestarts ==
    /\ crashes < MaxCrashes
    /\ crashes' = crashes + 1
    /\ worker' = [w \in Workers |-> Idle]
    /\ \/ /\ listener' = IF Daemon = "lazyd" THEN "child" ELSE "none"
          /\ LoseRegistry
       \/ /\ LazydUp
          /\ listener' = "orphan"
          /\ leaked' = leaked \cup Abandoned
          /\ UNCHANGED <<instance, forgotten>>
    /\ UNCHANGED <<base, file, local, contested>>

(* The new lazyd removes the orphan's socket and binds its own.  A handler *)
(* that bound a layer to the orphan unbinds it, if it must, at the new one,*)
(* where the chain ID may have been registered by another handler since.   *)
OrphanDisplaced ==
    /\ listener = "orphan"
    /\ listener' = "child"
    /\ contested' = contested \cup {worker[w].target : w \in {v \in Workers : worker[v].unbind}}
    /\ LoseRegistry
    /\ UNCHANGED <<base, file, local, crashes, worker>>

PrepareStep(w) ==
    \/ \E k \in Keys, im \in Images :
          \E n \in 1..Len(LegacyLayers[im]) : PrepareStat(w, k, im, n)
    \/ ResolveAnnotation(w) \/ ResolveParent(w) \/ ResolveNone(w)
    \/ SelectLayer(w) \/ SelectFails(w)
    \/ BasePrepare(w) \/ BasePrepareFails(w)
    \/ MaterializeLocal(w) \/ MaterializeFails(w) \/ MaterializeRemote(w)
    \/ EagerBind(w) \/ CreateSparseTarget(w) \/ BindFails(w)
    \/ PutInstance(w) \/ PutFails(w) \/ PutUnanswered(w)
    \/ Commit(w) \/ CommitFails(w)
    \/ CleanupUnbind(w) \/ CleanupRemove(w) \/ CleanupRemoveFails(w)

ClientStep(w) == Apply(w) \/ ClientCommit(w) \/ ClientAbort(w)

RemoveStep(w) ==
    \/ \E c \in Chains : RemoveStat(w, c)
    \/ BaseRemove(w) \/ BaseRemoveFails(w) \/ RemoveUnbind(w)

Next ==
    \/ \E w \in Workers : PrepareStep(w) \/ ClientStep(w) \/ RemoveStep(w)
    \/ \E k \in Keys : RemoveStale(k) \/ \E c \in Chains : PrepareContainer(k, c)
    \/ \E l \in Layers : StoreChanges(l)
    \/ LazydDies
    \/ ServerRestarts
    \/ OrphanDisplaced

Spec == Init /\ [][Next]_vars

-----------------------------------------------------------------------------
Steps == {"idle"} \cup PrepareSteps \cup ClientSteps \cup RemoveSteps

Handlers ==
    [pc : Steps,
     key : Keys \cup {NoKey},
     target : Chains \cup {<<>>},
     image : Images \cup {NoImage},
     manifest : Native \cup {NoImage},
     index : Nat,
     id : SnapIds,
     unbind : BOOLEAN]

Files == [state : {"none", "partial", "sparse", "full"}, layer : Layers \cup {NoLayer}]

(* The type invariant. *)
TypeOK ==
    /\ active \in [Keys -> [id : SnapIds, parent : Chains \cup {<<>>}]]
    /\ committed \in [Chains -> [id : SnapIds, manifest : Native \cup {NoImage},
                                 index : Nat]]
    /\ nextId \in 1..(MaxId + 1)
    /\ file \in [Ids -> Files]
    /\ local \subseteq Layers
    /\ instance \in [Chains -> [id : SnapIds, layer : Layers \cup {NoLayer}]]
    /\ listener \in {"none", "child", "orphan"}
    /\ crashes \in 0..MaxCrashes
    /\ worker \in [Workers -> Handlers]
    /\ leaked \subseteq Chains
    /\ forgotten \subseteq Ids
    /\ contested \subseteq Chains \cup {<<>>}

(* What a chain ID promises: the file of a committed snapshot is complete, *)
(* or sparse and designated to be filled from the right blob, and holds    *)
(* the layer that the chain ID ends in; never another image's layer, nor   *)
(* the torn copy of a failed Prepare, nor the file of a snapshot that was  *)
(* removed.  (docs/erofs-native-image-spec.md:97-99)                       *)
ChainContent ==
    \A c \in Chains : Published(c) =>
        /\ file[committed[c].id].state \in {"full", "sparse"}
        /\ file[committed[c].id].layer = Top(c)

(* Why ChainContent holds: a manifest and an index describe a chain if the *)
(* chain begins like the manifest and is index + 1 layers long;            *)
Describes(m, i, c) ==
    m \in Native /\ i + 1 = Len(c) /\ c[1] = LegacyLayers[m][1]

Ready(i, c) == file[i].state \in {"full", "sparse"} /\ file[i].layer = Top(c)

Holding == {"materialize", "bind", "put", "commit", "unbind", "undo"} \cup ClientSteps
Selected == {"base", "materialize", "bind", "put", "commit"}

(* ... each handler that prepared a key holds that key's snapshot alone,   *)
(* and has checked and filled in what its step says;                       *)
HandlerOK(w) ==
    LET r == worker[w]
    IN  /\ r.pc \in PrepareSteps \cup ClientSteps =>
              r.key \in Keys /\ r.target \in Chains
        /\ r.pc \in RemoveSteps => r.target \in Chains
        /\ r.pc \in Holding => r.id \in Ids /\ active[r.key].id = r.id
        /\ r.pc = "resolve" => r.target[1] = LegacyLayers[r.image][1]
        /\ r.pc \in Selected \cup {"manifest"} =>
              Describes(r.manifest, r.index, r.target)
        /\ r.pc \in Selected => r.index < Len(LegacyLayers[r.manifest])
        /\ r.pc = "materialize" => ~HasFile(r.id)
        /\ r.pc \in {"commit", "extracted"} => Ready(r.id, r.target)
        /\ r.pc = "put" => file[r.id] = [state |-> "sparse", layer |-> Top(r.target)]

KeysHeldApart ==
    \A v, w \in Workers :
        v # w /\ worker[v].pc \in Holding /\ worker[w].pc \in Holding =>
            worker[v].key # worker[w].key

(* ... no two snapshots share an id, and an id not yet given has no file;  *)
IdsApart ==
    /\ \A k \in Keys : active[k].id < nextId
    /\ \A c \in Chains : committed[c].id < nextId
    /\ \A j, k \in Keys : j # k /\ active[j].id # 0 => active[j].id # active[k].id
    /\ \A c, d \in Chains : c # d /\ Published(c) => committed[c].id # committed[d].id
    /\ \A k \in Keys, c \in Chains : Published(c) => active[k].id # committed[c].id
    /\ \A i \in Ids : i >= nextId => ~HasFile(i)

(* ... and the labels of a proxy snapshot describe its chain. *)
LabelsOK ==
    \A c \in Chains : IsProxy(c) =>
        Describes(committed[c].manifest, committed[c].index, c)

IndInv ==
    /\ TypeOK
    /\ \A w \in Workers : HandlerOK(w)
    /\ KeysHeldApart
    /\ IdsApart
    /\ LabelsOK
    /\ ChainContent

(* A committed layer that is not on the disk is served: lazyd's registry   *)
(* has an instance for that very snapshot and blob, unless the lazyd it was*)
(* bound to is gone.  No cleanup and no Remove of one call may revoke the  *)
(* binding of another's snapshot.  One may (contested): a Prepare that     *)
(* bound the chain ID to an orphan, and fails after the new lazyd took     *)
(* over, unbinds by the chain ID what another Prepare registered there.    *)
Served ==
    Daemon = "lazyd" =>
        \A c \in Chains \ contested :
            LET i == committed[c].id
            IN  Published(c) /\ i \notin forgotten /\ file[i].state = "sparse" =>
                    instance[c] = [id |-> i, layer |-> file[i].layer]

(* No instance is left behind: each one is of a committed snapshot, or of  *)
(* a call in flight that is going to commit it or to unbind it.  One left  *)
(* behind has a path that is gone and answers 409 to every later Prepare   *)
(* of the chain ID.                                                        *)
InstanceOwned ==
    \A c \in Chains \ leaked :
        instance[c] # NoInstance =>
            \/ committed[c].id = instance[c].id
            \/ \E w \in Workers : worker[w].target = c /\ worker[w].unbind

(* The proxy labels resolveProxyTarget reads count the layers: a proxy     *)
(* snapshot at index i is the (i+1)st of its chain, and above the first    *)
(* rests on the proxy snapshot of the same manifest at index i - 1.        *)
LabelsFollowParent ==
    \A c \in Chains : IsProxy(c) =>
        /\ committed[c].index + 1 = Len(c)
        /\ Len(c) > 1 =>
              /\ IsProxy(Parent(c))
              /\ committed[Parent(c)].manifest = committed[c].manifest

(* The snapshots implement the store of layers containerd relies on: what  *)
(* is published has its parent published, its own content, all of it, and  *)
(* is dropped only from the top.                                           *)
Store == INSTANCE LayerStore WITH
    published <- [c \in {d \in Chains : Published(d)} |->
                    IF file[committed[c].id].state = "partial" THEN NoLayer
                    ELSE file[committed[c].id].layer]

ImplementsStore == Store!Spec

(* The registry behind the socket, as the handlers change it and crashes   *)
(* lose it, is a lazyd service, no more: LazyDaemonLifecycle shows that    *)
(* what the processes put behind the path is one.                          *)
Service == INSTANCE LazydService WITH
    Ids <- Chains,
    up <- LazydUp,
    instances <- {c \in Chains : instance[c] # NoInstance}

UsesService == Service!Spec
=============================================================================
