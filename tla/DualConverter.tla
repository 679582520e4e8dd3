---------------------------- MODULE DualConverter ----------------------------
(***************************************************************************)
(* The conversion of images to the native format (pkg/converter):          *)
(* DualManifestConverter writes, beside each legacy manifest, an EROFS     *)
(* manifest, and an index of both.  Conversions of ctr-erofs run beside    *)
(* each other, beside removals of images and beside containerd's garbage   *)
(* collector, which follows the labels the conversion wrote; each is under *)
(* a lease until it ends, or, when it is interrupted, until the lease      *)
(* expires.                                                                *)
(*                                                                         *)
(* A blob is named by its content, as by its digest.  mkfs.erofs is        *)
(* deterministic (the fixed -U), and docker2oci is set: --erofs-dual asks  *)
(* for --oci.                                                              *)
(***************************************************************************)
EXTENDS Naturals, Sequences

CONSTANTS
    Converters,     \* processes that run ctr-erofs image convert
    Source,         \* image name |-> descriptor of its target
    Matches,        \* platforms the platform matcher accepts
    Removable       \* the images that may be removed, a bound

Names == DOMAIN Source

ASSUME RemovableAssumption == Removable \subseteq Names

NoBlob == [kind |-> "none"]
NoPlatform == [arch |-> "none", features |-> <<>>]
NoTarget == [type |-> "none", blob |-> NoBlob, platform |-> NoPlatform]

VARIABLES
    store,      \* content: blob |-> its labels [refs, uncompressed]
    images,     \* image store: source name |-> target
    converted,  \* image store: the converted image of a source |-> target
    worker,     \* the conversions' control and locals, with their leases
    expiring    \* blobs under the leases of interrupted conversions

vars == <<store, images, converted, worker, expiring>>

-----------------------------------------------------------------------------
(* Blobs.  A layer is [type, blob, manifest], the last the annotation.     *)

Tar(l) == [kind |-> "tar", of |-> l]
Erofs(l) == [kind |-> "erofs", of |-> l]
BlobsOf(descs) == {descs[n].blob : n \in DOMAIN descs}

(* What a manifest or an index refers to. *)
References(b) ==
    IF b.kind = "manifest" THEN {b.config.blob} \cup BlobsOf(b.layers)
    ELSE IF b.kind = "index" THEN BlobsOf(b.manifests)
    ELSE {}

Tree(b) == {b} \cup References(b) \cup UNION {References(c) : c \in References(b)}

(* ConvertDockerMediaTypeToOCI. *)
ToOCI(type) ==
    CASE type = "docker.manifest" -> "oci.manifest"
      [] type = "docker.config" -> "oci.config"
      [] type = "docker.layer" -> "oci.layer"
      [] OTHER -> type

IsIndex(d) == d.type \in {"docker.index", "oci.index"}
IsLayer(l) == l.type \in {"docker.layer", "oci.layer"}

ShouldConvert(d, m) ==
    /\ ~m.artifact
    /\ \/ d.type = "docker.manifest"
       \/ d.type = "oci.manifest" /\ m.config.type \in {"docker.config", "oci.config"}

(* The manifests that the conversion of an image goes through. *)
Listed(s) ==
    IF IsIndex(Source[s]) THEN Source[s].blob.manifests
    ELSE <<[Source[s] EXCEPT !.platform = NoPlatform]>>

Entries == UNION {{Listed(s)[n] : n \in DOMAIN Listed(s)} : s \in Names}

(* What is converted has the form of an image's manifest. *)
WellFormed(m) ==
    /\ m = [kind |-> "manifest", type |-> m.type, artifact |-> m.artifact,
            config |-> m.config, layers |-> m.layers]
    /\ m.config = [type |-> m.config.type, blob |-> m.config.blob]
    /\ {"kind", "diffIDs"} \subseteq DOMAIN m.config.blob
    /\ m.config.blob.kind = "config"
    /\ m.layers \in Seq({m.layers[n] : n \in DOMAIN m.layers})
    /\ \A n \in DOMAIN m.layers :
          LET l == m.layers[n]
          IN  l = [type |-> l.type, blob |-> l.blob, manifest |-> l.manifest]

ASSUME SourceAssumption ==
    /\ Source = [s \in Names |-> Source[s]]
    /\ \A s \in Names :
          LET d == Source[s]
          IN  /\ d = [type |-> d.type, blob |-> d.blob, platform |-> d.platform]
              /\ IsIndex(d) => d.blob.kind = "index"
    /\ \A s \in Names : Listed(s) \in Seq(Entries)
    /\ \A d \in Entries : ShouldConvert(d, d.blob) => WellFormed(d.blob)
    /\ \A s \in Names : \A b \in Tree(Source[s].blob) :
          b.kind \in {"tar", "erofs", "config", "manifest", "index", "other"}

(* LayerConvertFunc: a tar layer becomes an EROFS image, in a copy of its  *)
(* descriptor; any other blob is passed on.                                *)
EROFSLayer(l) ==
    IF IsLayer(l) THEN [l EXCEPT !.type = "erofs.layer", !.blob = Erofs(l.blob.of)] ELSE l

(* Mutant of EROFSLayers: layers are prepended. *)
MutantReversed(m) ==
    [n \in DOMAIN m.layers |-> EROFSLayer(m.layers[Len(m.layers) + 1 - n])]

EROFSLayers(m) == [n \in DOMAIN m.layers |-> EROFSLayer(m.layers[n])]

EROFSConfig(m) ==
    [m.config.blob EXCEPT !.diffIDs =
        [n \in DOMAIN m.layers |-> EROFSLayers(m)[n].blob]]

EROFSManifest(m) ==
    [kind |-> "manifest", type |-> "oci.manifest", artifact |-> FALSE,
     config |-> [type |-> ToOCI(m.config.type), blob |-> EROFSConfig(m)],
     layers |-> EROFSLayers(m)]

(* The legacy manifest again, its first layer annotated. *)
LegacyManifest(m) ==
    [m EXCEPT
        !.type = ToOCI(m.type),
        !.config.type = ToOCI(m.config.type),
        !.layers = [n \in DOMAIN m.layers |->
            [m.layers[n] EXCEPT
                !.type = ToOCI(m.layers[n].type),
                !.manifest = IF n = 1 THEN EROFSManifest(m) ELSE @]]]

(* The two descriptors.  The platform is the index's, or else the config's.*)
Platform(d) ==
    IF d.platform # NoPlatform THEN d.platform
    ELSE [arch |-> d.blob.config.blob.arch, features |-> d.blob.config.blob.features]

Pair(d) ==
    <<[type |-> "oci.manifest", blob |-> LegacyManifest(d.blob), platform |-> Platform(d)],
      [type |-> "oci.manifest", blob |-> EROFSManifest(d.blob),
       platform |-> [Platform(d) EXCEPT !.features = Append(@, "erofs")]]>>

Index(manifests) == [kind |-> "index", manifests |-> manifests]

-----------------------------------------------------------------------------
Idle == [pc |-> "idle", source |-> "", todo |-> <<>>, layer |-> 0, out |-> <<>>,
         target |-> NoTarget, lease |-> {}]

(* What a pull leaves: every blob of an image, a manifest's and an index's *)
(* labelled with what they refer to, an unpacked layer with its diff ID.   *)
Pulled(b) ==
    [refs |-> References(b),
     uncompressed |-> b.kind \in {"tar", "erofs"}]

Init ==
    /\ store = [b \in UNION {Tree(Source[s].blob) : s \in Names} |-> Pulled(b)]
    /\ images = Source
    /\ converted = [s \in Names |-> NoTarget]
    /\ worker = [c \in Converters |-> Idle]
    /\ expiring = {}

At(c, pc) == worker[c].pc = pc
Present(b) == b \in DOMAIN store

(* A commit to the content store, under the lease; the labels of a blob    *)
(* that is there already (AlreadyExists) stay as they are.                 *)
Put(b, refs, uncompressed) ==
    store' = [x \in DOMAIN store \cup {b} |->
                 IF Present(x) THEN store[x]
                 ELSE [refs |-> refs, uncompressed |-> uncompressed]]

(* Mutant of Becomes: what is written is not put under the lease. *)
MutantNoLease(c, pc, b) == worker' = [worker EXCEPT ![c].pc = pc]

Becomes(c, pc, b) ==
    worker' = [worker EXCEPT ![c].pc = pc, ![c].lease = @ \cup {b}]

(* The command ends; its lease is deleted. *)
End(c) == worker' = [worker EXCEPT ![c] = Idle]

Current(c) == Head(worker[c].todo)
Manifest(c) == Current(c).blob
Layer(c) == Manifest(c).layers[worker[c].layer]

(* The command begins, by the type of the image's target: an index, or one *)
(* manifest, whose own platform is not looked at; a manifest that is no    *)
(* image stays as it is.                                                   *)
Convert(c, s) ==
    LET d == images[s]
        started == [Idle EXCEPT !.source = s, !.target = d]
    IN  /\ At(c, "idle")
        /\ d # NoTarget
        /\ Present(d.blob)
        /\ worker' = [worker EXCEPT ![c] =
               IF IsIndex(d)
               THEN [started EXCEPT !.pc = "manifests", !.todo = d.blob.manifests]
               ELSE IF ShouldConvert(d, d.blob)
               THEN [started EXCEPT !.pc = "manifests",
                                    !.todo = <<[d EXCEPT !.platform = NoPlatform]>>]
               ELSE [started EXCEPT !.pc = "delete"]]
        /\ UNCHANGED <<store, images, converted, expiring>>

(* The loop of convertIndex: a manifest of another platform is left out,   *)
(* one that is no image is passed on, one without layers is an error.      *)
NextManifest(c) ==
    LET d == Current(c)
        matched == d.platform = NoPlatform \/ d.platform \in Matches
    IN  /\ At(c, "manifests")
        /\ worker[c].todo # <<>>
        /\ \/ /\ ~matched
              /\ worker' = [worker EXCEPT ![c].todo = Tail(@)]
           \/ /\ matched /\ Present(d.blob) /\ ~ShouldConvert(d, d.blob)
              /\ worker' = [worker EXCEPT ![c].todo = Tail(@), ![c].out = Append(@, d)]
           \/ /\ matched /\ Present(d.blob) /\ ShouldConvert(d, d.blob)
              /\ IF d.blob.layers = <<>> THEN End(c)
                 ELSE worker' = [worker EXCEPT ![c].pc = "layer", ![c].layer = 1]
        /\ UNCHANGED <<store, images, converted, expiring>>

(* LayerConvertFunc: the layer is read and the EROFS image committed, with *)
(* its diff ID as a label.                                                 *)
ConvertLayer(c) ==
    LET l == Layer(c)
    IN  /\ At(c, "layer")
        /\ \/ /\ IsLayer(l) /\ Present(l.blob)
              /\ Put(EROFSLayer(l).blob, {}, TRUE)
              /\ Becomes(c, "diffID", EROFSLayer(l).blob)
           \/ /\ ~IsLayer(l)
              /\ worker' = [worker EXCEPT ![c].pc = "diffID"]
              /\ UNCHANGED store
        /\ UNCHANGED <<images, converted, expiring>>

(* Mutant of DiffID: a layer too many. *)
MutantOneMore(c) ==
    LET b == EROFSLayer(Layer(c)).blob
        last == worker[c].layer > Len(Manifest(c).layers)
    IN  /\ At(c, "diffID")
        /\ Present(b)
        /\ IF ~store[b].uncompressed THEN End(c)
           ELSE IF last THEN worker' = [worker EXCEPT ![c].pc = "config"]
           ELSE worker' = [worker EXCEPT ![c].pc = "layer", ![c].layer = @ + 1]
        /\ UNCHANGED <<store, images, converted, expiring>>

(* The diff ID is taken from the label; without it the conversion fails.   *)
DiffID(c) ==
    LET b == EROFSLayer(Layer(c)).blob
        last == worker[c].layer = Len(Manifest(c).layers)
    IN  /\ At(c, "diffID")
        /\ Present(b)
        /\ IF ~store[b].uncompressed THEN End(c)
           ELSE IF last THEN worker' = [worker EXCEPT ![c].pc = "config"]
           ELSE worker' = [worker EXCEPT ![c].pc = "layer", ![c].layer = @ + 1]
        /\ UNCHANGED <<store, images, converted, expiring>>

WriteConfig(c) ==
    /\ At(c, "config")
    /\ Present(Manifest(c).config.blob)
    /\ Put(EROFSConfig(Manifest(c)), {}, FALSE)
    /\ Becomes(c, "erofs", EROFSConfig(Manifest(c)))
    /\ UNCHANGED <<images, converted, expiring>>

(* The garbage collector's labels of a manifest; mutant: only the config. *)
MutantNoLayerLabels(b) == {b.config.blob}
ManifestLabels(b) == {b.config.blob} \cup BlobsOf(b.layers)

WriteEROFSManifest(c) ==
    LET b == EROFSManifest(Manifest(c))
    IN  /\ At(c, "erofs")
        /\ Put(b, ManifestLabels(b), FALSE)
        /\ Becomes(c, "legacy", b)
        /\ UNCHANGED <<images, converted, expiring>>

WriteLegacyManifest(c) ==
    LET b == LegacyManifest(Manifest(c))
    IN  /\ At(c, "legacy")
        /\ Put(b, ManifestLabels(b), FALSE)
        /\ worker' = [worker EXCEPT ![c].pc = "manifests", ![c].lease = @ \cup {b},
                                    ![c].todo = Tail(@), ![c].layer = 0,
                                    ![c].out = @ \o Pair(Current(c))]
        /\ UNCHANGED <<images, converted, expiring>>

WriteIndex(c) ==
    LET b == Index(worker[c].out)
    IN  /\ At(c, "manifests")
        /\ worker[c].todo = <<>>
        /\ Put(b, BlobsOf(worker[c].out), FALSE)
        /\ worker' = [worker EXCEPT ![c].pc = "delete", ![c].lease = @ \cup {b},
                          ![c].target = [@ EXCEPT !.type = "oci.index", !.blob = b]]
        /\ UNCHANGED <<images, converted, expiring>>

(* containerd's converter.Convert deletes the image that has the name ...  *)
DeleteImage(c) ==
    /\ At(c, "delete")
    /\ converted' = [converted EXCEPT ![worker[c].source] = NoTarget]
    /\ worker' = [worker EXCEPT ![c].pc = "create"]
    /\ UNCHANGED <<store, images, expiring>>

(* ... and creates it anew; the lease is deleted. *)
CreateImage(c) ==
    /\ At(c, "create")
    /\ converted[worker[c].source] = NoTarget
    /\ converted' = [converted EXCEPT ![worker[c].source] = worker[c].target]
    /\ End(c)
    /\ UNCHANGED <<store, images, expiring>>

(* Another conversion has created it in between. *)
CreateFails(c) ==
    /\ At(c, "create")
    /\ converted[worker[c].source] # NoTarget
    /\ End(c)
    /\ UNCHANGED <<store, images, converted, expiring>>

(* What is to be read is not there (any more). *)
ToRead(c) ==
    CASE At(c, "layer") /\ IsLayer(Layer(c)) -> {Layer(c).blob}
      [] At(c, "diffID") -> {EROFSLayer(Layer(c)).blob}
      [] At(c, "config") -> {Manifest(c).config.blob}
      [] At(c, "manifests") /\ worker[c].todo # <<>> -> {Manifest(c)}
      [] OTHER -> {}

ReadFails(c) ==
    /\ \E b \in ToRead(c) : ~Present(b)
    /\ End(c)
    /\ UNCHANGED <<store, images, converted, expiring>>

(* Interrupted or killed: the lease cannot be deleted and expires later.   *)
(* Bound: the leases of one interrupted conversion at a time.              *)
Interrupt(c) ==
    /\ ~At(c, "idle")
    /\ expiring = {}
    /\ expiring' = expiring \cup worker[c].lease
    /\ End(c)
    /\ UNCHANGED <<store, images, converted>>

LeasesExpire ==
    /\ expiring # {}
    /\ expiring' = {}
    /\ UNCHANGED <<store, images, converted, worker>>

-----------------------------------------------------------------------------
(* containerd. *)

RemoveImage(s) ==
    /\ s \in Removable
    /\ images[s] # NoTarget
    /\ images' = [images EXCEPT ![s] = NoTarget]
    /\ UNCHANGED <<store, converted, worker, expiring>>

RemoveConverted(s) ==
    /\ converted[s] # NoTarget
    /\ converted' = [converted EXCEPT ![s] = NoTarget]
    /\ UNCHANGED <<store, images, worker, expiring>>

(* What the labels keep: from images and leases, two levels down. *)
Targets == {images[s].blob : s \in Names} \cup {converted[s].blob : s \in Names}
Leased == expiring \cup UNION {worker[c].lease : c \in Converters}
Labels(S) == S \cup UNION {store[b].refs : b \in S \cap DOMAIN store}
Live == Labels(Labels(Targets \cup Leased)) \cap DOMAIN store

CollectGarbage ==
    /\ Live # DOMAIN store
    /\ store' = [b \in Live |-> store[b]]
    /\ UNCHANGED <<images, converted, worker, expiring>>

Step(c) ==
    \/ \E s \in Names : Convert(c, s)
    \/ NextManifest(c)
    \/ ConvertLayer(c) \/ DiffID(c)
    \/ WriteConfig(c) \/ WriteEROFSManifest(c) \/ WriteLegacyManifest(c)
    \/ WriteIndex(c) \/ DeleteImage(c) \/ CreateImage(c)
    \/ ReadFails(c) \/ CreateFails(c) \/ Interrupt(c)

Next ==
    \/ \E c \in Converters : Step(c)
    \/ LeasesExpire
    \/ \E s \in Names : RemoveImage(s) \/ RemoveConverted(s)
    \/ CollectGarbage

Spec == Init /\ [][Next]_vars

-----------------------------------------------------------------------------
Steps == {"idle", "manifests", "layer", "diffID", "config", "erofs", "legacy",
          "delete", "create"}

(* The type invariant; a conversion writes only under its lease. *)
TypeOK ==
    /\ \A b \in DOMAIN store :
          /\ b.kind \in {"tar", "erofs", "config", "manifest", "index", "other"}
          /\ store[b].uncompressed \in BOOLEAN
    /\ \A s \in Names : images[s] \in {Source[s], NoTarget}
    /\ \A c \in Converters :
          /\ worker[c].pc \in Steps
          /\ worker[c].lease \subseteq DOMAIN store
          /\ worker[c].pc \in {"layer", "diffID"} =>
                worker[c].layer \in DOMAIN Manifest(c).layers
    /\ expiring \subseteq DOMAIN store

(* A converted image is complete, whatever was interrupted, removed or     *)
(* collected during the conversion: every blob it refers to is in the      *)
(* content store.  The lease keeps what the conversion writes; its source  *)
(* has only its image to keep it, and may be gone when that is removed.    *)
Complete ==
    \A s \in Names : converted[s] # NoTarget =>
        \A b \in Tree(converted[s].blob) :
            Present(b) \/ (images[s] = NoTarget /\ b \in Tree(Source[s].blob))

Whole(s) == converted[s] # NoTarget /\ Tree(converted[s].blob) \subseteq DOMAIN store

(* A converted image that is complete stays so as long as it is there, when*)
(* every lease has ended and its source is gone: the labels that writeJSON *)
(* gave the index and the manifests keep it.                               *)
StaysComplete ==
    [][\A s \in Names : Whole(s) => Whole(s)' \/ converted'[s] # converted[s]]_vars

(* The entry is one for the erofs snapshotter: its platform says so.       *)
IsEROFS(d) == \E n \in DOMAIN d.platform.features : d.platform.features[n] = "erofs"

(* An EROFS manifest's entry e is the counterpart of the legacy one's, l.  *)
Counterparts(l, e) ==
    LET legacy == l.blob
        erofs == e.blob
    IN  /\ ~IsEROFS(l)
        /\ e.platform = [l.platform EXCEPT !.features = Append(@, "erofs")]
        /\ legacy.layers[1].manifest = erofs
        /\ DOMAIN legacy.layers = DOMAIN erofs.layers
        /\ \A n \in DOMAIN legacy.layers :
              /\ legacy.layers[n].type = "oci.layer"
              /\ erofs.layers[n].type = "erofs.layer"
              /\ erofs.layers[n].blob = Erofs(legacy.layers[n].blob.of)
              /\ erofs.config.blob.diffIDs[n] = erofs.layers[n].blob

(* The native image format (docs/erofs-native-image-spec.md:9-20, 97-99):  *)
(* a legacy manifest of tar layers comes right before its EROFS manifest,  *)
(* whose platform differs by the feature only, whose layers match by index *)
(* and whose digest its first layer is annotated with.                     *)
(* convertSingleManifest is to write it for every image it converts.       *)
NativeFormat ==
    \A s \in Names : IsIndex(converted[s]) =>
        LET ms == converted[s].blob.manifests
        IN  \A n \in DOMAIN ms :
               \/ ~ShouldConvert(ms[n], ms[n].blob)
               \/ n + 1 \in DOMAIN ms /\ Counterparts(ms[n], ms[n + 1])
               \/ n - 1 \in DOMAIN ms /\ Counterparts(ms[n - 1], ms[n])
=============================================================================
