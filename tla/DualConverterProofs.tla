------------------------ MODULE DualConverterProofs ------------------------
(***************************************************************************)
(* Proofs about DualConverter, for any images, any number of conversions   *)
(* and any platforms.                                                      *)
(***************************************************************************)
EXTENDS DualConverter, TLAPS

Converting == {"layer", "diffID", "config", "erofs", "legacy"}
Kinds == {"tar", "erofs", "config", "manifest", "index", "other"}

(* The blobs are labelled with all that they refer to. *)
Labelled == \A b \in DOMAIN store : store[b].refs = References(b)

(* What a conversion may list in its index. *)
Outs == Entries \cup {Pair(d)[1] : d \in Entries} \cup {Pair(d)[2] : d \in Entries}

(* A conversion goes through the entries of its source, and is at a layer  *)
(* of an image when it converts one.                                       *)
Fits(w) ==
    /\ w = [pc |-> w.pc, source |-> w.source, todo |-> w.todo, layer |-> w.layer,
            out |-> w.out, target |-> w.target, lease |-> w.lease]
    /\ w.target = [type |-> w.target.type, blob |-> w.target.blob,
                   platform |-> w.target.platform]
    /\ w.pc \in Steps
    /\ w.todo \in Seq(Entries)
    /\ w.out \in Seq(Outs)
    /\ w.pc \in Converting => w.todo # <<>> /\ WellFormed(Head(w.todo).blob)
    /\ w.pc \in {"layer", "diffID"} => w.layer \in DOMAIN Head(w.todo).blob.layers

WorkersOK ==
    /\ worker = [c \in Converters |-> worker[c]]
    /\ \A c \in Converters : Fits(worker[c])

Tables ==
    /\ images = [s \in Names |-> images[s]]
    /\ converted = [s \in Names |-> converted[s]]

IndInv == TypeOK /\ Labelled /\ WorkersOK /\ Tables

-----------------------------------------------------------------------------
(* Every blob that is there, and every lease, is kept by a step that adds  *)
(* to the store at most a blob with the labels of what it refers to.       *)
StoreGrows ==
    /\ DOMAIN store \subseteq DOMAIN store'
    /\ \A b \in DOMAIN store' :
          /\ b.kind \in Kinds
          /\ store'[b].uncompressed \in BOOLEAN
          /\ store'[b].refs = References(b)

LEMMA PutGrows ==
    ASSUME IndInv, NEW b, NEW refs, NEW u \in BOOLEAN,
           b.kind \in Kinds, refs = References(b), Put(b, refs, u)
    PROVE  StoreGrows /\ b \in DOMAIN store'
<1>1. DOMAIN store' = DOMAIN store \cup {b}
  BY DEF Put
<1>2. ASSUME NEW x \in DOMAIN store' PROVE
         /\ x.kind \in Kinds
         /\ store'[x].uncompressed \in BOOLEAN
         /\ store'[x].refs = References(x)
  <2>1. CASE x \in DOMAIN store
    BY <2>1 DEF Put, Present, IndInv, TypeOK, Labelled, Kinds
  <2>2. CASE x \notin DOMAIN store
    BY <1>1, <1>2, <2>2 DEF Put, Present
  <2> QED BY <2>1, <2>2
<1> QED BY <1>1, <1>2 DEF StoreGrows

LEMMA UnchangedGrows ==
    ASSUME IndInv, UNCHANGED store
    PROVE  StoreGrows
BY DEF IndInv, TypeOK, Labelled, StoreGrows, Kinds

(* A step of one conversion preserves the invariant when its new control   *)
(* state fits.                                                             *)
LEMMA WorkerStep ==
    ASSUME IndInv, StoreGrows, NEW c \in Converters, NEW w,
           worker' = [worker EXCEPT ![c] = w],
           Fits(w), w.lease \subseteq DOMAIN store',
           UNCHANGED images, Tables', expiring' \subseteq DOMAIN store'
    PROVE  IndInv'
<1>1. worker'[c] = w /\ \A d \in Converters : d # c => worker'[d] = worker[d]
  BY DEF IndInv, WorkersOK
<1>2. WorkersOK'
  <2>1. worker' = [d \in Converters |-> worker'[d]]
    BY DEF IndInv, WorkersOK
  <2>2. ASSUME NEW d \in Converters PROVE Fits(worker'[d])
    BY <1>1 DEF IndInv, WorkersOK
  <2> QED BY <2>1, <2>2 DEF WorkersOK, Fits
<1>3. ASSUME NEW d \in Converters PROVE
         /\ worker'[d].pc \in Steps
         /\ worker'[d].lease \subseteq DOMAIN store'
         /\ worker'[d].pc \in {"layer", "diffID"} =>
               worker'[d].layer \in DOMAIN Head(worker'[d].todo).blob.layers
  <2>1. Fits(worker'[d])
    BY <1>1 DEF IndInv, WorkersOK
  <2>2. worker'[d].lease \subseteq DOMAIN store'
    BY <1>1 DEF IndInv, TypeOK, StoreGrows
  <2> QED BY <2>1, <2>2 DEF Fits
<1>4. TypeOK'
  BY <1>3 DEF IndInv, TypeOK, StoreGrows, Kinds, Manifest, Current
<1>5. Labelled'
  BY DEF StoreGrows, Labelled
<1> QED BY <1>2, <1>4, <1>5 DEF IndInv

(* Only the control state changes. *)
LEMMA QuietStep ==
    ASSUME IndInv, NEW c \in Converters, NEW w,
           worker' = [worker EXCEPT ![c] = w],
           Fits(w), w.lease \subseteq worker[c].lease,
           UNCHANGED <<store, images, converted, expiring>>
    PROVE  IndInv'
<1>1. StoreGrows
  BY UnchangedGrows
<1>2. w.lease \subseteq DOMAIN store'
  BY DEF IndInv, TypeOK
<1>3. Tables' /\ expiring' \subseteq DOMAIN store'
  BY DEF IndInv, TypeOK, Tables
<1> QED BY <1>1, <1>2, <1>3, WorkerStep

LEMMA IdleFits == Fits(Idle) /\ Idle.lease = {}
<1>1. <<>> \in Seq(Entries) /\ <<>> \in Seq(Outs)
  OBVIOUS
<1> QED BY <1>1 DEF Fits, Idle, NoTarget, Steps, Converting

LEMMA EndQuiet ==
    ASSUME IndInv, NEW c \in Converters, End(c),
           UNCHANGED <<store, images, converted, expiring>>
    PROVE  IndInv'
BY QuietStep, IdleFits DEF End

-----------------------------------------------------------------------------
LEMMA InitOK == Init => IndInv
<1> SUFFICES ASSUME Init PROVE IndInv
  OBVIOUS
<1>1. \A c \in Converters : worker[c] = Idle
  BY DEF Init
<1>2. \A b \in DOMAIN store : store[b] = Pulled(b)
  BY DEF Init
<1>3. \A b \in DOMAIN store : b.kind \in Kinds
  BY SourceAssumption DEF Init, Kinds
<1>4. TypeOK
  <2>1. \A b \in DOMAIN store : store[b].uncompressed \in BOOLEAN
    <3>1. ASSUME NEW b PROVE Pulled(b).uncompressed \in BOOLEAN
      <4> DEFINE u == b.kind \in {"tar", "erofs"}
      <4>1. u \in BOOLEAN
        OBVIOUS
      <4>2. Pulled(b) = [refs |-> References(b), uncompressed |-> u]
        BY DEF Pulled
      <4> HIDE DEF u
      <4> QED BY <4>1, <4>2
    <3> QED BY <1>2, <3>1
  <2>2. \A c \in Converters :
          worker[c].pc = "idle" /\ worker[c].lease = {}
    <3>1. Idle.pc = "idle"
      BY DEF Idle
    <3> QED BY <1>1, <3>1, IdleFits
  <2>3. images = Source /\ expiring = {}
    BY DEF Init
  <2> QED BY <1>3, <2>1, <2>2, <2>3 DEF TypeOK, Kinds, Steps
<1>5. Labelled
  BY <1>2 DEF Labelled, Pulled
<1>6. WorkersOK
  BY <1>1, IdleFits DEF WorkersOK, Init
<1>7. Tables
  BY SourceAssumption DEF Init, Tables
<1> QED BY <1>4, <1>5, <1>6, <1>7 DEF IndInv

LEMMA ConvertOK ==
    ASSUME IndInv, NEW c \in Converters, NEW s \in Names, Convert(c, s)
    PROVE  IndInv'
<1> DEFINE d == images[s]
           started == [Idle EXCEPT !.source = s, !.target = d]
<1>1. d = Source[s]
  BY DEF IndInv, TypeOK, Convert
<1>2. Listed(s) \in Seq(Entries) /\ <<>> \in Seq(Entries) /\ <<>> \in Seq(Outs)
  BY SourceAssumption
<1>3. PICK w : /\ worker' = [worker EXCEPT ![c] = w]
               /\ \/ /\ IsIndex(d)
                     /\ w = [started EXCEPT !.pc = "manifests", !.todo = d.blob.manifests]
                  \/ /\ ~IsIndex(d)
                     /\ w = [started EXCEPT !.pc = "manifests",
                                            !.todo = <<[d EXCEPT !.platform = NoPlatform]>>]
                  \/ w = [started EXCEPT !.pc = "delete"]
  BY DEF Convert
<1>4. /\ w.todo \in Seq(Entries) /\ w.pc \in {"manifests", "delete"} /\ w.lease = {}
      /\ w.out = <<>> /\ w.target = Source[s]
  BY <1>1, <1>2, <1>3 DEF Listed, Idle
<1>5. Fits(w)
  <2>1. w = [pc |-> w.pc, source |-> w.source, todo |-> w.todo, layer |-> w.layer,
             out |-> w.out, target |-> w.target, lease |-> w.lease]
    BY <1>3 DEF Idle
  <2>2. w.target = [type |-> w.target.type, blob |-> w.target.blob,
                    platform |-> w.target.platform]
    BY <1>4, SourceAssumption
  <2> QED BY <1>2, <1>4, <2>1, <2>2 DEF Fits, Steps, Converting
<1> QED BY <1>3, <1>4, <1>5, QuietStep DEF Convert

LEMMA NextManifestOK ==
    ASSUME IndInv, NEW c \in Converters, NextManifest(c)
    PROVE  IndInv'
<1> DEFINE k == worker[c]
<1>1. Fits(k) /\ k.pc = "manifests" /\ k.todo # <<>> /\ k.todo \in Seq(Entries)
  BY DEF IndInv, WorkersOK, NextManifest, At, Fits
<1>2. Tail(k.todo) \in Seq(Entries) /\ Head(k.todo) \in Entries
  BY <1>1
<1>7. Append(k.out, Current(c)) \in Seq(Outs)
  BY <1>1, <1>2 DEF Fits, Outs, Current
<1>3. CASE worker' = [worker EXCEPT ![c].todo = Tail(@)]
  <2>1. PICK w : w = [k EXCEPT !.todo = Tail(@)]
    OBVIOUS
  <2>2. worker' = [worker EXCEPT ![c] = w]
    BY <1>3, <2>1
  <2>3. Fits(w) /\ w.lease = k.lease
    BY <1>1, <1>2, <2>1 DEF Fits, Converting
  <2> QED BY <2>2, <2>3, QuietStep DEF NextManifest
<1>4. CASE worker' = [worker EXCEPT ![c].todo = Tail(@), ![c].out = Append(@, Current(c))]
  <2>1. PICK w : w = [k EXCEPT !.todo = Tail(@), !.out = Append(@, Current(c))]
    OBVIOUS
  <2>2. worker' = [worker EXCEPT ![c] = w]
    BY <1>4, <2>1
  <2>3. Fits(w) /\ w.lease = k.lease
    BY <1>1, <1>2, <1>7, <2>1 DEF Fits, Converting
  <2> QED BY <2>2, <2>3, QuietStep DEF NextManifest
<1>5. CASE End(c)
  BY <1>5, EndQuiet DEF NextManifest
<1>6. CASE /\ ShouldConvert(Current(c), Manifest(c))
           /\ Manifest(c).layers # <<>>
           /\ worker' = [worker EXCEPT ![c].pc = "layer", ![c].layer = 1]
  <2>1. PICK w : w = [k EXCEPT !.pc = "layer", !.layer = 1]
    OBVIOUS
  <2>2. worker' = [worker EXCEPT ![c] = w]
    BY <1>6, <2>1
  <2>3. WellFormed(Manifest(c))
    BY <1>2, <1>6, SourceAssumption DEF Manifest, Current
  <2>4. 1 \in DOMAIN Manifest(c).layers
    BY <1>6, <2>3 DEF WellFormed
  <2>5. /\ w.todo = k.todo /\ w.out = k.out /\ w.target = k.target /\ w.pc = "layer" /\ w.layer = 1 /\ w.lease = k.lease
        /\ w = [pc |-> w.pc, source |-> w.source, todo |-> w.todo, layer |-> w.layer,
                out |-> w.out, target |-> w.target, lease |-> w.lease]
    BY <1>1, <2>1 DEF Fits
  <2>6. Fits(w)
    BY <1>1, <2>3, <2>4, <2>5 DEF Fits, Converting, Steps, Manifest, Current
  <2> QED BY <2>2, <2>5, <2>6, QuietStep DEF NextManifest
<1> QED BY <1>3, <1>4, <1>5, <1>6 DEF NextManifest, Manifest

LEMMA ConvertLayerOK ==
    ASSUME IndInv, NEW c \in Converters, ConvertLayer(c)
    PROVE  IndInv'
<1> DEFINE k == worker[c]
           b == EROFSLayer(Layer(c)).blob
<1>1. /\ Fits(k) /\ k.pc = "layer" /\ WellFormed(Manifest(c))
      /\ k.layer \in DOMAIN Manifest(c).layers
  BY DEF IndInv, WorkersOK, ConvertLayer, At, Fits, Converting, Manifest, Current
<1>2. CASE ~IsLayer(Layer(c))
  <2>1. PICK w : w = [k EXCEPT !.pc = "diffID"]
    OBVIOUS
  <2>2. worker' = [worker EXCEPT ![c] = w] /\ UNCHANGED store
    BY <1>2, <2>1 DEF ConvertLayer
  <2>3. Fits(w) /\ w.lease = k.lease
    BY <1>1, <2>1 DEF Fits, Converting, Steps
  <2> QED BY <2>2, <2>3, QuietStep DEF ConvertLayer
<1>3. CASE IsLayer(Layer(c))
  <2>1. b = Erofs(Layer(c).blob.of)
    BY <1>1, <1>3 DEF EROFSLayer, WellFormed, Layer
  <2>2. b.kind \in Kinds /\ References(b) = {}
    BY <2>1 DEF Erofs, References, Kinds
  <2>3. Put(b, {}, TRUE)
    BY <1>3 DEF ConvertLayer
  <2>4. StoreGrows /\ b \in DOMAIN store'
    BY <2>2, <2>3, PutGrows
  <2>5. PICK w : w = [k EXCEPT !.pc = "diffID", !.lease = @ \cup {b}]
    OBVIOUS
  <2>6. worker' = [worker EXCEPT ![c] = w]
    BY <1>3, <2>5 DEF ConvertLayer, Becomes
  <2>7. Fits(w) /\ w.lease = k.lease \cup {b}
    BY <1>1, <2>5 DEF Fits, Converting, Steps
  <2> QED BY <2>4, <2>6, <2>7, WorkerStep
          DEF ConvertLayer, IndInv, TypeOK, Tables, StoreGrows
<1> QED BY <1>2, <1>3

LEMMA DiffIDOK ==
    ASSUME IndInv, NEW c \in Converters, DiffID(c)
    PROVE  IndInv'
<1> DEFINE k == worker[c]
<1>1. /\ Fits(k) /\ k.pc = "diffID" /\ WellFormed(Manifest(c))
      /\ k.layer \in DOMAIN Manifest(c).layers
  BY DEF IndInv, WorkersOK, DiffID, At, Fits, Converting, Manifest, Current
<1>2. CASE End(c)
  BY <1>2, EndQuiet DEF DiffID
<1>3. CASE worker' = [worker EXCEPT ![c].pc = "config"]
  <2>1. PICK w : w = [k EXCEPT !.pc = "config"]
    OBVIOUS
  <2>2. worker' = [worker EXCEPT ![c] = w]
    BY <1>3, <2>1
  <2>3. Fits(w) /\ w.lease = k.lease
    BY <1>1, <2>1 DEF Fits, Converting, Steps
  <2> QED BY <2>2, <2>3, QuietStep DEF DiffID
<1>4. CASE /\ k.layer # Len(Manifest(c).layers)
           /\ worker' = [worker EXCEPT ![c].pc = "layer", ![c].layer = @ + 1]
  <2>1. PICK w : w = [k EXCEPT !.pc = "layer", !.layer = @ + 1]
    OBVIOUS
  <2>2. worker' = [worker EXCEPT ![c] = w]
    BY <1>4, <2>1
  <2>3. k.layer + 1 \in DOMAIN Manifest(c).layers
    BY <1>1, <1>4 DEF WellFormed
  <2>4. /\ w.todo = k.todo /\ w.out = k.out /\ w.target = k.target /\ w.pc = "layer" /\ w.layer = k.layer + 1 /\ w.lease = k.lease
        /\ w = [pc |-> w.pc, source |-> w.source, todo |-> w.todo, layer |-> w.layer,
                out |-> w.out, target |-> w.target, lease |-> w.lease]
    BY <1>1, <2>1 DEF Fits
  <2>5. Fits(w)
    BY <1>1, <2>3, <2>4 DEF Fits, Converting, Steps, Manifest, Current
  <2> QED BY <2>2, <2>4, <2>5, QuietStep DEF DiffID
<1> QED BY <1>2, <1>3, <1>4 DEF DiffID

(* What the conversion of a manifest writes besides its layers. *)
LEMMA WrittenLabels ==
    ASSUME NEW m, WellFormed(m)
    PROVE  /\ EROFSConfig(m).kind \in Kinds
           /\ References(EROFSConfig(m)) = {}
           /\ EROFSManifest(m).kind \in Kinds
           /\ References(EROFSManifest(m)) = ManifestLabels(EROFSManifest(m))
           /\ LegacyManifest(m).kind \in Kinds
           /\ References(LegacyManifest(m)) = ManifestLabels(LegacyManifest(m))
<1>1. EROFSConfig(m).kind = "config"
  BY DEF WellFormed, EROFSConfig
<1>2. EROFSManifest(m).kind = "manifest"
  BY DEF EROFSManifest
<1>3. LegacyManifest(m).kind = "manifest"
  BY DEF WellFormed, LegacyManifest
<1> QED BY <1>1, <1>2, <1>3 DEF References, ManifestLabels, Kinds

(* Config and EROFS manifest: a commit under the lease, and on. *)
LEMMA BecomesOK ==
    ASSUME IndInv, NEW c \in Converters, worker[c].pc \in Converting,
           NEW b, NEW refs, b.kind \in Kinds, refs = References(b), Put(b, refs, FALSE),
           NEW pc \in {"config", "erofs", "legacy"}, Becomes(c, pc, b),
           UNCHANGED <<images, converted, expiring>>
    PROVE  IndInv'
<1> DEFINE k == worker[c]
<1>1. Fits(k) /\ k.todo # <<>> /\ WellFormed(Manifest(c))
  BY DEF IndInv, WorkersOK, Fits, Manifest, Current
<1>2. StoreGrows /\ b \in DOMAIN store'
  BY PutGrows
<1>3. PICK w : w = [k EXCEPT !.pc = pc, !.lease = @ \cup {b}]
  OBVIOUS
<1>4. worker' = [worker EXCEPT ![c] = w]
  BY <1>3 DEF Becomes
<1>5. /\ w.todo = k.todo /\ w.out = k.out /\ w.target = k.target /\ w.pc = pc /\ w.lease = k.lease \cup {b}
      /\ w = [pc |-> w.pc, source |-> w.source, todo |-> w.todo, layer |-> w.layer,
              out |-> w.out, target |-> w.target, lease |-> w.lease]
  BY <1>1, <1>3 DEF Fits
<1>6. Fits(w)
  BY <1>1, <1>5 DEF Fits, Converting, Steps, Manifest, Current
<1> QED BY <1>2, <1>4, <1>5, <1>6, WorkerStep DEF IndInv, TypeOK, Tables, StoreGrows

(* Writing one blob more under the lease, with the image tables as they    *)
(* were.                                                                   *)
LEMMA WrittenStep ==
    ASSUME IndInv, StoreGrows, NEW c \in Converters, NEW w, NEW b, b \in DOMAIN store',
           worker' = [worker EXCEPT ![c] = w], Fits(w),
           w.lease = worker[c].lease \cup {b},
           UNCHANGED <<images, converted, expiring>>
    PROVE  IndInv'
<1>1. w.lease \subseteq DOMAIN store'
  <2>1. worker[c].lease \subseteq DOMAIN store
    BY DEF IndInv, TypeOK
  <2> QED BY <2>1 DEF StoreGrows
<1>2. expiring' \subseteq DOMAIN store'
  BY DEF IndInv, TypeOK, StoreGrows
<1>3. Tables'
  BY DEF IndInv, Tables
<1> QED BY <1>1, <1>2, <1>3, WorkerStep

LEMMA WriteManifestPartsOK ==
    ASSUME IndInv, NEW c \in Converters, WriteConfig(c) \/ WriteEROFSManifest(c)
    PROVE  IndInv'
<1>1. worker[c].pc \in Converting /\ WellFormed(Manifest(c))
  BY DEF IndInv, WorkersOK, Fits, Converting, Manifest, Current,
         WriteConfig, WriteEROFSManifest, At
<1>2. CASE WriteConfig(c)
  BY <1>1, <1>2, WrittenLabels, BecomesOK DEF WriteConfig
<1>3. CASE WriteEROFSManifest(c)
  BY <1>1, <1>3, WrittenLabels, BecomesOK DEF WriteEROFSManifest
<1> QED BY <1>2, <1>3

LEMMA PairShape ==
    ASSUME NEW d
    PROVE  /\ Pair(d) = <<Pair(d)[1], Pair(d)[2]>>
           /\ Pair(d)[1].blob = LegacyManifest(d.blob)
           /\ Pair(d)[2].blob = EROFSManifest(d.blob)
BY DEF Pair

LEMMA PairListed ==
    ASSUME NEW d \in Entries
    PROVE  Pair(d) \in Seq(Outs)
<1>1. Pair(d)[1] \in Outs /\ Pair(d)[2] \in Outs
  BY DEF Outs
<1>2. \A a, b \in Outs : <<a, b>> \in Seq(Outs)
  OBVIOUS
<1> QED BY <1>1, <1>2, PairShape

LEMMA WriteLegacyManifestOK ==
    ASSUME IndInv, NEW c \in Converters, WriteLegacyManifest(c)
    PROVE  IndInv'
<1> DEFINE k == worker[c]
           b == LegacyManifest(Manifest(c))
<1>1. Fits(k) /\ k.todo # <<>> /\ k.todo \in Seq(Entries) /\ WellFormed(Manifest(c))
  BY DEF IndInv, WorkersOK, Fits, Converting, Manifest, Current, WriteLegacyManifest, At
<1>2. StoreGrows /\ b \in DOMAIN store'
  BY <1>1, WrittenLabels, PutGrows DEF WriteLegacyManifest
<1>3. PICK w : w = [k EXCEPT !.pc = "manifests", !.lease = @ \cup {b}, !.todo = Tail(@),
                             !.layer = 0, !.out = @ \o Pair(Current(c))]
  OBVIOUS
<1>4. worker' = [worker EXCEPT ![c] = w]
  BY <1>3 DEF WriteLegacyManifest
<1>5. Tail(k.todo) \in Seq(Entries) /\ k.out \o Pair(Current(c)) \in Seq(Outs)
  <2>1. Current(c) \in Entries /\ Tail(k.todo) \in Seq(Entries)
    BY <1>1 DEF Current
  <2>2. Pair(Current(c)) \in Seq(Outs)
    BY <2>1, PairListed
  <2> QED BY <1>1, <2>1, <2>2 DEF Fits
<1>6. /\ w.todo = Tail(k.todo) /\ w.pc = "manifests" /\ w.out = k.out \o Pair(Current(c))
      /\ w.target = k.target
      /\ w = [pc |-> w.pc, source |-> w.source, todo |-> w.todo, layer |-> w.layer,
              out |-> w.out, target |-> w.target, lease |-> w.lease]
  <2> DEFINE out == k.out \o Pair(Current(c))
  <2>1. w = [k EXCEPT !.pc = "manifests", !.lease = @ \cup {b}, !.todo = Tail(@),
                      !.layer = 0, !.out = out]
    BY <1>3
  <2> HIDE DEF out, b
  <2>2. w.out = out
    BY <1>1, <2>1 DEF Fits
  <2>3. /\ w.todo = Tail(k.todo) /\ w.pc = "manifests" /\ w.target = k.target
        /\ w = [pc |-> w.pc, source |-> w.source, todo |-> w.todo, layer |-> w.layer,
                out |-> w.out, target |-> w.target, lease |-> w.lease]
    BY <1>1, <2>1 DEF Fits
  <2> QED BY <2>2, <2>3 DEF out
<1>7. Fits(w)
  BY <1>1, <1>5, <1>6 DEF Fits, Converting, Steps
<1>8. w.lease = k.lease \cup {b}
  BY <1>1, <1>3 DEF Fits
<1>9. UNCHANGED <<images, converted, expiring>>
  BY DEF WriteLegacyManifest
<1> HIDE DEF b
<1> QED BY <1>2, <1>4, <1>7, <1>8, <1>9, WrittenStep

LEMMA WriteIndexOK ==
    ASSUME IndInv, NEW c \in Converters, WriteIndex(c)
    PROVE  IndInv'
<1> DEFINE k == worker[c]
           b == Index(k.out)
<1>1. Fits(k)
  BY DEF IndInv, WorkersOK
<1>2. b.kind \in Kinds /\ References(b) = BlobsOf(k.out)
  BY DEF Index, References, Kinds
<1>3. StoreGrows /\ b \in DOMAIN store'
  BY <1>2, PutGrows DEF WriteIndex
<1>4. PICK w : w = [k EXCEPT !.pc = "delete", !.lease = @ \cup {b},
                             !.target = [@ EXCEPT !.type = "oci.index", !.blob = b]]
  OBVIOUS
<1>5. worker' = [worker EXCEPT ![c] = w]
  BY <1>4 DEF WriteIndex
<1>6. Fits(w) /\ w.lease = k.lease \cup {b}
  BY <1>1, <1>4 DEF Fits, Converting, Steps
<1>7. UNCHANGED <<images, converted, expiring>>
  BY DEF WriteIndex
<1> HIDE DEF b
<1> QED BY <1>3, <1>5, <1>6, <1>7, WrittenStep

LEMMA DeleteImageOK ==
    ASSUME IndInv, NEW c \in Converters, DeleteImage(c)
    PROVE  IndInv'
<1>1. StoreGrows
  BY UnchangedGrows DEF DeleteImage
<1>2. PICK w : w = [worker[c] EXCEPT !.pc = "create"]
  OBVIOUS
<1>3. Fits(worker[c]) /\ worker[c].pc = "delete"
  BY DEF DeleteImage, At, IndInv, WorkersOK
<1>4. Fits(w) /\ w.lease = worker[c].lease
  BY <1>2, <1>3 DEF Fits, Steps, Converting
<1>5. worker' = [worker EXCEPT ![c] = w]
  BY <1>2 DEF DeleteImage
<1> QED BY <1>1, <1>4, <1>5, WorkerStep DEF DeleteImage, IndInv, TypeOK, Tables

LEMMA CreateImageOK ==
    ASSUME IndInv, NEW c \in Converters, CreateImage(c)
    PROVE  IndInv'
<1>1. StoreGrows
  BY UnchangedGrows DEF CreateImage
<1> QED BY <1>1, IdleFits, WorkerStep DEF CreateImage, End, IndInv, TypeOK, Tables

LEMMA InterruptOK ==
    ASSUME IndInv, NEW c \in Converters, Interrupt(c)
    PROVE  IndInv'
<1>1. StoreGrows
  BY UnchangedGrows DEF Interrupt
<1> QED BY <1>1, IdleFits, WorkerStep DEF Interrupt, End, IndInv, TypeOK, Tables

-----------------------------------------------------------------------------
(* containerd.                                                             *)

LEMMA ContainerdOK ==
    ASSUME IndInv,
           LeasesExpire \/ \E s \in Names : RemoveImage(s) \/ RemoveConverted(s)
    PROVE  IndInv'
<1>1. UNCHANGED <<store, worker>> /\ expiring' \subseteq expiring
  BY DEF LeasesExpire, RemoveImage, RemoveConverted
<1>2. /\ images' \in {images} \cup {[images EXCEPT ![s] = NoTarget] : s \in Names}
      /\ converted' \in {converted} \cup {[converted EXCEPT ![s] = NoTarget] : s \in Names}
  BY DEF LeasesExpire, RemoveImage, RemoveConverted
<1>3. Tables' /\ \A s \in Names : images'[s] \in {Source[s], NoTarget}
  BY <1>2 DEF IndInv, Tables, TypeOK
<1> QED BY <1>1, <1>3 DEF IndInv, TypeOK, Labelled, WorkersOK, Manifest, Current

LEMMA LeasesLive == Leased \cap DOMAIN store \subseteq Live
BY DEF Live, Labels

LEMMA CollectGarbageOK ==
    ASSUME IndInv, CollectGarbage
    PROVE  IndInv'
<1>1. store' = [b \in Live |-> store[b]] /\ Live \subseteq DOMAIN store
  BY DEF CollectGarbage, Live
<1>2. /\ expiring \subseteq Live
      /\ \A c \in Converters : worker[c].lease \subseteq Live
  BY LeasesLive DEF IndInv, TypeOK, Leased
<1>3. TypeOK'
  BY <1>1, <1>2 DEF IndInv, TypeOK, CollectGarbage, Manifest, Current
<1>4. Labelled'
  BY <1>1 DEF IndInv, Labelled
<1> QED BY <1>3, <1>4 DEF IndInv, WorkersOK, Tables, CollectGarbage

LEMMA NextOK ==
    ASSUME IndInv, [Next]_vars
    PROVE  IndInv'
<1>1. CASE \E c \in Converters : Step(c)
  <2> SUFFICES ASSUME NEW c \in Converters, Step(c) PROVE IndInv'
    BY <1>1
  <2>1. ReadFails(c) \/ CreateFails(c) => IndInv'
    BY EndQuiet DEF ReadFails, CreateFails
  <2> QED BY <2>1, ConvertOK, NextManifestOK, ConvertLayerOK, DiffIDOK,
             WriteManifestPartsOK, WriteLegacyManifestOK, WriteIndexOK, DeleteImageOK,
             CreateImageOK, InterruptOK DEF Step
<1>2. CASE UNCHANGED vars
  BY <1>2 DEF vars, IndInv, TypeOK, Labelled, WorkersOK, Tables, Manifest, Current
<1> QED BY <1>1, <1>2, ContainerdOK, CollectGarbageOK DEF Next

-----------------------------------------------------------------------------
(* The inductive invariant holds of every behaviour. *)
THEOREM Invariance == Spec => []IndInv
BY InitOK, NextOK, PTL DEF Spec

(* Type correctness; what a conversion wrote under its lease is there until*)
(* the lease ends.                                                         *)
THEOREM TypeCorrect == Spec => []TypeOK
<1>1. IndInv => TypeOK
  BY DEF IndInv
<1> QED BY <1>1, Invariance, PTL

(* The labels lead from an image to all of its tree. *)
LEMMA WholeIsLive ==
    ASSUME IndInv, NEW s \in Names, Whole(s)
    PROVE  Tree(converted[s].blob) \subseteq Live
<1> DEFINE r == converted[s].blob
           first == Labels(Targets \cup Leased)
<1>1. \A b \in Tree(r) : b \in DOMAIN store /\ store[b].refs = References(b)
  BY DEF Whole, IndInv, Labelled
<1>2. r \in Tree(r) /\ References(r) \subseteq Tree(r)
  BY DEF Tree
<1>3. r \in Targets
  BY DEF Targets
<1>4. {r} \cup References(r) \subseteq first
  BY <1>1, <1>2, <1>3 DEF Labels
<1>5. ASSUME NEW b \in References(r) PROVE References(b) \subseteq Labels(first)
  BY <1>1, <1>2, <1>4, <1>5 DEF Labels
<1>6. first \subseteq Labels(first)
  BY DEF Labels
<1>7. Tree(r) \subseteq Labels(first)
  BY <1>4, <1>5, <1>6 DEF Tree
<1> QED BY <1>1, <1>7 DEF Live

LEMMA StaysWhole ==
    ASSUME IndInv, [Next]_vars, NEW s \in Names, Whole(s), converted'[s] = converted[s]
    PROVE  Whole(s)'
<1>1. CASE CollectGarbage
  BY <1>1, WholeIsLive DEF CollectGarbage, Whole
<1>2. CASE DOMAIN store \subseteq DOMAIN store'
  BY <1>2 DEF Whole
<1>3. \/ CollectGarbage
      \/ UNCHANGED store
      \/ \E b, refs, u : Put(b, refs, u)
  BY DEF Next, Step, Convert, NextManifest, ConvertLayer, DiffID, WriteConfig,
         WriteEROFSManifest, WriteLegacyManifest, WriteIndex, DeleteImage, CreateImage,
         ReadFails, CreateFails, Interrupt, LeasesExpire, RemoveImage, RemoveConverted, vars
<1>4. (\E b, refs, u : Put(b, refs, u)) => DOMAIN store \subseteq DOMAIN store'
  BY DEF Put
<1> QED BY <1>1, <1>2, <1>3, <1>4

(* An image that is converted and complete stays complete for as long as it*)
(* is there: the labels written by writeJSON keep all of it, with or       *)
(* without leases, and whatever becomes of its source.                     *)
THEOREM LabelsKeep == Spec => StaysComplete
<1>1. IndInv /\ [Next]_vars =>
        [\A s \in Names : Whole(s) => Whole(s)' \/ converted'[s] # converted[s]]_vars
  BY StaysWhole
<1> QED BY <1>1, Invariance, PTL DEF Spec, StaysComplete

-----------------------------------------------------------------------------
(* Why a converted image is complete.  What a conversion refers to is under*)
(* its lease or belongs to its source, which is whole while it has its     *)
(* image; Nodes are the manifests and indexes of a source.                 *)

Nodes(s) == {Source[s].blob} \cup References(Source[s].blob)
Leaves(s) == Tree(Source[s].blob)

(* b and what it refers to are kept, as far as w is concerned. *)
Kept(w, b) ==
    /\ b \in w.lease \cup Nodes(w.source)
    /\ References(b) \subseteq w.lease \cup Leaves(w.source)

(* What is written of the image that w converts. *)
Written(w) ==
    LET m == Head(w.todo).blob
        LayerKept(n) ==
            EROFSLayer(m.layers[n]).blob \in w.lease \cup Leaves(w.source)
    IN  /\ w.pc = "layer" =>
              \A n \in DOMAIN m.layers : n < w.layer => LayerKept(n)
        /\ w.pc = "diffID" =>
              \A n \in DOMAIN m.layers : n <= w.layer => LayerKept(n)
        /\ w.pc \in {"config", "erofs", "legacy"} =>
              \A n \in DOMAIN m.layers : LayerKept(n)
        /\ w.pc \in {"erofs", "legacy"} => EROFSConfig(m) \in w.lease
        /\ w.pc = "legacy" => EROFSManifest(m) \in w.lease

LeaseOK(w) ==
    w.pc # "idle" =>
        /\ w.source \in Names
        /\ BlobsOf(w.todo) \subseteq Nodes(w.source)
        /\ \A b \in BlobsOf(w.out) : Kept(w, b)
        /\ Written(w)
        /\ w.pc \in {"delete", "create"} =>
              /\ w.target.blob \in w.lease \cup {Source[w.source].blob}
              /\ \A b \in References(w.target.blob) : Kept(w, b)

LeasesOK == \A c \in Converters : LeaseOK(worker[c])

SourceWhole(s) == images[s] # NoTarget => Leaves(s) \subseteq DOMAIN store

(* Complete, level by level: what is not there went with the source. *)
ThereOr(s, b, S) == Present(b) \/ (images[s] = NoTarget /\ b \in S)

ConvertedOK(s) ==
    LET r == converted[s].blob
    IN  converted[s] # NoTarget =>
            /\ ThereOr(s, r, {Source[s].blob})
            /\ \A m \in References(r) :
                  /\ ThereOr(s, m, Nodes(s))
                  /\ \A x \in References(m) : ThereOr(s, x, Leaves(s))

ImagesOK == \A s \in Names : SourceWhole(s) /\ ConvertedOK(s)

Keeping == LeasesOK /\ ImagesOK

LEMMA NodesHaveLeaves ==
    ASSUME NEW s
    PROVE  /\ Nodes(s) \subseteq Leaves(s)
           /\ \A b \in Nodes(s) : References(b) \subseteq Leaves(s)
BY DEF Nodes, Leaves, Tree

LEMMA EntriesAreNodes ==
    ASSUME NEW s \in Names
    PROVE  BlobsOf(Listed(s)) \subseteq Nodes(s)
<1>1. CASE IsIndex(Source[s])
  <2>1. References(Source[s].blob) = BlobsOf(Source[s].blob.manifests)
    BY <1>1, SourceAssumption DEF References
  <2> QED BY <1>1, <2>1 DEF Listed, Nodes
<1>2. CASE ~IsIndex(Source[s])
  <2> DEFINE d == [Source[s] EXCEPT !.platform = NoPlatform]
  <2>1. d.blob = Source[s].blob
    BY SourceAssumption
  <2>2. Listed(s) = <<d>>
    BY <1>2 DEF Listed
  <2> HIDE DEF d
  <2> QED BY <2>1, <2>2 DEF BlobsOf, Nodes
<1> QED BY <1>1, <1>2

LEMMA KeptGrows ==
    ASSUME NEW w, NEW v, NEW b, Kept(w, b),
           v.source = w.source, w.lease \subseteq v.lease
    PROVE  Kept(v, b)
BY DEF Kept

LEMMA JoinedBlobs ==
    ASSUME NEW S, NEW s \in Seq(S), NEW t \in Seq(S)
    PROVE  BlobsOf(s \o t) \subseteq BlobsOf(s) \cup BlobsOf(t)
<1> SUFFICES ASSUME NEW n \in DOMAIN (s \o t)
             PROVE  (s \o t)[n].blob \in BlobsOf(s) \cup BlobsOf(t)
  BY DEF BlobsOf
<1>1. CASE n \in DOMAIN s
  <2>1. (s \o t)[n] = s[n]
    BY <1>1
  <2> QED BY <1>1, <2>1 DEF BlobsOf
<1>2. CASE n \notin DOMAIN s
  <2>1. n - Len(s) \in DOMAIN t /\ (s \o t)[n] = t[n - Len(s)]
    BY <1>2
  <2> QED BY <2>1 DEF BlobsOf
<1> QED BY <1>1, <1>2

LEMMA AppendedBlobs ==
    ASSUME NEW S, NEW s \in Seq(S), NEW d \in S
    PROVE  BlobsOf(Append(s, d)) \subseteq BlobsOf(s) \cup {d.blob}
<1> SUFFICES ASSUME NEW n \in DOMAIN Append(s, d)
             PROVE  Append(s, d)[n].blob \in BlobsOf(s) \cup {d.blob}
  BY DEF BlobsOf
<1>1. CASE n \in DOMAIN s
  <2>1. Append(s, d)[n] = s[n]
    BY <1>1
  <2> QED BY <1>1, <2>1 DEF BlobsOf
<1>2. CASE n \notin DOMAIN s
  BY <1>2
<1> QED BY <1>1, <1>2

LEMMA TwoBlobs ==
    ASSUME NEW x, NEW y
    PROVE  BlobsOf(<<x, y>>) \subseteq {x.blob, y.blob}
BY DEF BlobsOf

LEMMA PairBlobs ==
    ASSUME NEW d
    PROVE  BlobsOf(Pair(d)) \subseteq {LegacyManifest(d.blob), EROFSManifest(d.blob)}
<1> DEFINE x == Pair(d)[1]
           y == Pair(d)[2]
<1>1. BlobsOf(<<x, y>>) \subseteq {x.blob, y.blob}
  BY TwoBlobs
<1>2. Pair(d) = <<x, y>> /\ x.blob = LegacyManifest(d.blob) /\ y.blob = EROFSManifest(d.blob)
  BY PairShape
<1> HIDE DEF x, y
<1> QED BY <1>1, <1>2

LEMMA TailBlobs ==
    ASSUME NEW S, NEW s \in Seq(S), s # <<>>
    PROVE  /\ Head(s).blob \in BlobsOf(s)
           /\ BlobsOf(Tail(s)) \subseteq BlobsOf(s)
<1>1. 1 \in DOMAIN s /\ Head(s) = s[1]
  OBVIOUS
<1>2. \A n \in DOMAIN Tail(s) : n + 1 \in DOMAIN s /\ Tail(s)[n] = s[n + 1]
  OBVIOUS
<1> QED BY <1>1, <1>2 DEF BlobsOf

(* A step of one conversion that drops nothing preserves Keeping. *)
LEMMA KeepStep ==
    ASSUME IndInv, Keeping, NEW c \in Converters, NEW w,
           worker' = [worker EXCEPT ![c] = w], LeaseOK(w),
           DOMAIN store \subseteq DOMAIN store', UNCHANGED <<images, converted>>
    PROVE  Keeping'
<1>1. \A d \in Converters : worker'[d] = worker[d] \/ worker'[d] = w
  BY DEF IndInv, WorkersOK
<1>2. LeasesOK'
  BY <1>1 DEF Keeping, LeasesOK
<1>3. ImagesOK'
  BY DEF Keeping, ImagesOK, SourceWhole, ConvertedOK, ThereOr, Present
<1> QED BY <1>2, <1>3 DEF Keeping

LEMMA KeepEnd ==
    ASSUME IndInv, Keeping, NEW c \in Converters, End(c),
           DOMAIN store \subseteq DOMAIN store', UNCHANGED <<images, converted>>
    PROVE  Keeping'
<1>1. LeaseOK(Idle)
  BY DEF LeaseOK, Idle
<1> QED BY <1>1, KeepStep DEF End

LEMMA ConvertKeeps ==
    ASSUME IndInv, Keeping, NEW c \in Converters, NEW s \in Names, Convert(c, s)
    PROVE  Keeping'
<1> DEFINE d == images[s]
           started == [Idle EXCEPT !.source = s, !.target = d]
<1>1. d = Source[s]
  BY DEF IndInv, TypeOK, Convert
<1>2. PICK w : /\ worker' = [worker EXCEPT ![c] = w]
               /\ \/ /\ IsIndex(d)
                     /\ w = [started EXCEPT !.pc = "manifests", !.todo = d.blob.manifests]
                  \/ /\ ~IsIndex(d)
                     /\ w = [started EXCEPT !.pc = "manifests",
                                            !.todo = <<[d EXCEPT !.platform = NoPlatform]>>]
                  \/ w = [started EXCEPT !.pc = "delete"]
  BY DEF Convert
<1>3. /\ w.source = s /\ w.out = <<>> /\ w.lease = {} /\ w.target = d
      /\ \/ w.pc = "manifests" /\ w.todo = Listed(s)
         \/ w.pc = "delete" /\ w.todo = <<>>
  <2> HIDE DEF d
  <2>1. CASE IsIndex(d) /\ w = [started EXCEPT !.pc = "manifests", !.todo = d.blob.manifests]
    BY <1>1, <2>1 DEF Listed, Idle
  <2>2. CASE /\ ~IsIndex(d)
             /\ w = [started EXCEPT !.pc = "manifests",
                                    !.todo = <<[d EXCEPT !.platform = NoPlatform]>>]
    BY <1>1, <2>2 DEF Listed, Idle
  <2>3. CASE w = [started EXCEPT !.pc = "delete"]
    BY <1>1, <2>3 DEF Idle
  <2> QED BY <1>2, <2>1, <2>2, <2>3
<1>4. BlobsOf(<<>>) = {}
  BY DEF BlobsOf
<1>5. BlobsOf(w.todo) \subseteq Nodes(s) /\ BlobsOf(w.out) = {}
  BY <1>3, <1>4, EntriesAreNodes
<1>6. \A b \in References(Source[s].blob) : Kept(w, b)
  BY <1>3, NodesHaveLeaves DEF Kept, Nodes
<1>7. LeaseOK(w)
  BY <1>1, <1>3, <1>5, <1>6 DEF LeaseOK, Written
<1> QED BY <1>2, <1>7, KeepStep DEF Convert

LEMMA NextManifestKeeps ==
    ASSUME IndInv, Keeping, NEW c \in Converters, NextManifest(c)
    PROVE  Keeping'
<1> DEFINE k == worker[c]
<1>1. /\ Fits(k) /\ k.pc = "manifests" /\ k.todo # <<>>
      /\ k.todo \in Seq(Entries) /\ k.out \in Seq(Outs)
  BY DEF IndInv, WorkersOK, NextManifest, At, Fits
<1>2. /\ k.source \in Names /\ BlobsOf(k.todo) \subseteq Nodes(k.source)
      /\ \A b \in BlobsOf(k.out) : Kept(k, b)
  BY <1>1 DEF Keeping, LeasesOK, LeaseOK
<1>3. Head(k.todo) \in Outs
  BY <1>1 DEF Outs
<1>4. /\ BlobsOf(Tail(k.todo)) \subseteq Nodes(k.source)
      /\ Manifest(c) \in Nodes(k.source)
  BY <1>1, <1>2, TailBlobs DEF Manifest, Current
<1>5. Kept(k, Manifest(c))
  BY <1>4, NodesHaveLeaves DEF Kept
<1>6. \A b \in BlobsOf(Append(k.out, Current(c))) : Kept(k, b)
  BY <1>1, <1>2, <1>3, <1>5, AppendedBlobs DEF Manifest, Current
<1>7. CASE worker' = [worker EXCEPT ![c].todo = Tail(@)]
  <2>1. PICK w : w = [k EXCEPT !.todo = Tail(@)]
    OBVIOUS
  <2>2. worker' = [worker EXCEPT ![c] = w]
    BY <1>7, <2>1
  <2>3. /\ w.source = k.source /\ w.lease = k.lease /\ w.pc = "manifests"
        /\ w.todo = Tail(k.todo) /\ w.out = k.out
    BY <1>1, <2>1 DEF Fits
  <2>4. LeaseOK(w)
    BY <1>2, <1>4, <2>3, KeptGrows DEF LeaseOK, Written
  <2> QED BY <2>2, <2>4, KeepStep DEF NextManifest
<1>8. CASE worker' = [worker EXCEPT ![c].todo = Tail(@), ![c].out = Append(@, Current(c))]
  <2>1. PICK w : w = [k EXCEPT !.todo = Tail(@), !.out = Append(@, Current(c))]
    OBVIOUS
  <2>2. worker' = [worker EXCEPT ![c] = w]
    BY <1>8, <2>1
  <2>3. /\ w.source = k.source /\ w.lease = k.lease /\ w.pc = "manifests"
        /\ w.todo = Tail(k.todo) /\ w.out = Append(k.out, Current(c))
    BY <1>1, <2>1 DEF Fits
  <2>4. LeaseOK(w)
    BY <1>2, <1>4, <1>6, <2>3, KeptGrows DEF LeaseOK, Written
  <2> QED BY <2>2, <2>4, KeepStep DEF NextManifest
<1>9. CASE End(c)
  BY <1>9, KeepEnd DEF NextManifest
<1>10. CASE /\ ShouldConvert(Current(c), Manifest(c))
            /\ worker' = [worker EXCEPT ![c].pc = "layer", ![c].layer = 1]
  <2>1. PICK w : w = [k EXCEPT !.pc = "layer", !.layer = 1]
    OBVIOUS
  <2>2. worker' = [worker EXCEPT ![c] = w]
    BY <1>10, <2>1
  <2>3. /\ w.source = k.source /\ w.lease = k.lease /\ w.pc = "layer"
        /\ w.todo = k.todo /\ w.out = k.out /\ w.layer = 1
    BY <1>1, <2>1 DEF Fits
  <2>4. WellFormed(Manifest(c))
    BY <1>1, <1>10, SourceAssumption DEF Manifest, Current
  <2>5. \A n \in DOMAIN Manifest(c).layers : ~(n < 1)
    BY <2>4 DEF WellFormed
  <2>6. LeaseOK(w)
    BY <1>2, <2>3, <2>5, KeptGrows DEF LeaseOK, Written, Manifest, Current
  <2> QED BY <2>2, <2>6, KeepStep DEF NextManifest
<1> QED BY <1>7, <1>8, <1>9, <1>10 DEF NextManifest, Manifest

(* The layer at hand is written or is the source's own. *)
LEMMA LayerWritten ==
    ASSUME NEW w, NEW m \in Nodes(w.source), WellFormed(m), NEW n \in DOMAIN m.layers,
           IsLayer(m.layers[n]) => EROFSLayer(m.layers[n]).blob \in w.lease
    PROVE  EROFSLayer(m.layers[n]).blob \in w.lease \cup Leaves(w.source)
<1>1. CASE IsLayer(m.layers[n])
  BY <1>1
<1>2. CASE ~IsLayer(m.layers[n])
  <2>1. m.layers[n].blob \in References(m)
    BY DEF References, WellFormed, BlobsOf
  <2> QED BY <1>2, <2>1, NodesHaveLeaves DEF EROFSLayer
<1> QED BY <1>1, <1>2

(* What a conversion knows when it is at an image. *)
LEMMA AtImage ==
    ASSUME IndInv, Keeping, NEW c \in Converters, worker[c].pc \in Converting
    PROVE  LET k == worker[c]
           IN  /\ Fits(k) /\ k.todo \in Seq(Entries) /\ k.todo # <<>>
               /\ LeaseOK(k) /\ k.source \in Names
               /\ BlobsOf(k.todo) \subseteq Nodes(k.source)
               /\ \A b \in BlobsOf(k.out) : Kept(k, b)
               /\ Manifest(c) \in Nodes(k.source) /\ WellFormed(Manifest(c))
               /\ \A b \in References(Manifest(c)) : b \in Leaves(k.source)
<1> DEFINE k == worker[c]
<1>1. Fits(k) /\ k.todo \in Seq(Entries) /\ k.todo # <<>> /\ WellFormed(Manifest(c))
  BY DEF IndInv, WorkersOK, Fits, Manifest, Current
<1>2. /\ LeaseOK(k) /\ k.source \in Names /\ BlobsOf(k.todo) \subseteq Nodes(k.source)
      /\ \A b \in BlobsOf(k.out) : Kept(k, b)
  BY DEF Keeping, LeasesOK, LeaseOK, Converting
<1>3. Manifest(c) \in Nodes(k.source)
  BY <1>1, <1>2, TailBlobs DEF Manifest, Current
<1> QED BY <1>1, <1>2, <1>3, NodesHaveLeaves

LEMMA LayerNumbers ==
    ASSUME NEW m, WellFormed(m)
    PROVE  Len(m.layers) \in Nat /\ DOMAIN m.layers = 1..Len(m.layers)
BY DEF WellFormed

LEMMA ConvertLayerKeeps ==
    ASSUME IndInv, Keeping, NEW c \in Converters, ConvertLayer(c)
    PROVE  Keeping'
<1> DEFINE k == worker[c]
           m == Manifest(c)
           b == EROFSLayer(Layer(c)).blob
<1>1. /\ k.pc = "layer" /\ k.layer \in DOMAIN m.layers /\ k.pc \in Converting
      /\ m = Head(k.todo).blob
  BY DEF IndInv, WorkersOK, ConvertLayer, At, Fits, Converting, Manifest, Current
<1>2. \A n \in DOMAIN m.layers :
         n < k.layer => EROFSLayer(m.layers[n]).blob \in k.lease \cup Leaves(k.source)
  BY <1>1, AtImage DEF LeaseOK, Written
<1>3. PICK w : /\ worker' = [worker EXCEPT ![c] = w]
               /\ \/ ~IsLayer(Layer(c)) /\ w = [k EXCEPT !.pc = "diffID"]
                  \/ w = [k EXCEPT !.pc = "diffID", !.lease = @ \cup {b}]
  BY DEF ConvertLayer, Becomes
<1>4. /\ w.source = k.source /\ k.lease \subseteq w.lease /\ w.pc = "diffID"
      /\ w.todo = k.todo /\ w.out = k.out /\ w.layer = k.layer
      /\ IsLayer(Layer(c)) => b \in w.lease
  <2> HIDE DEF b
  <2>1. Fits(k)
    BY <1>1, AtImage
  <2>2. CASE ~IsLayer(Layer(c)) /\ w = [k EXCEPT !.pc = "diffID"]
    BY <2>1, <2>2 DEF Fits
  <2>3. CASE w = [k EXCEPT !.pc = "diffID", !.lease = @ \cup {b}]
    BY <2>1, <2>3 DEF Fits
  <2> QED BY <1>3, <2>2, <2>3
<1>5. b \in w.lease \cup Leaves(w.source)
  BY <1>1, <1>4, AtImage, LayerWritten DEF Layer
<1>6. \A n \in DOMAIN m.layers :
         n <= k.layer => EROFSLayer(m.layers[n]).blob \in w.lease \cup Leaves(w.source)
  <2> SUFFICES ASSUME NEW n \in DOMAIN m.layers, n <= k.layer
               PROVE  EROFSLayer(m.layers[n]).blob \in w.lease \cup Leaves(w.source)
    OBVIOUS
  <2>1. n \in Nat /\ k.layer \in Nat
    BY <1>1, AtImage, LayerNumbers
  <2>2. n < k.layer \/ n = k.layer
    BY <2>1
  <2> QED BY <1>2, <1>4, <1>5, <2>2 DEF Layer
<1>7. Written(w)
  BY <1>1, <1>4, <1>6 DEF Written
<1>8. LeaseOK(w)
  BY <1>1, <1>4, <1>7, AtImage, KeptGrows DEF LeaseOK
<1>9. DOMAIN store \subseteq DOMAIN store'
  BY DEF ConvertLayer, Put
<1> QED BY <1>3, <1>8, <1>9, KeepStep DEF ConvertLayer

LEMMA DiffIDKeeps ==
    ASSUME IndInv, Keeping, NEW c \in Converters, DiffID(c)
    PROVE  Keeping'
<1> DEFINE k == worker[c]
           m == Manifest(c)
<1>1. /\ k.pc = "diffID" /\ k.layer \in DOMAIN m.layers /\ k.pc \in Converting
      /\ m = Head(k.todo).blob
  BY DEF IndInv, WorkersOK, DiffID, At, Fits, Converting, Manifest, Current
<1>2. \A n \in DOMAIN m.layers :
         n <= k.layer => EROFSLayer(m.layers[n]).blob \in k.lease \cup Leaves(k.source)
  BY <1>1, AtImage DEF LeaseOK, Written
<1>3. CASE End(c)
  BY <1>3, KeepEnd DEF DiffID
<1>4. CASE /\ k.layer = Len(m.layers)
           /\ worker' = [worker EXCEPT ![c].pc = "config"]
  <2>1. PICK w : w = [k EXCEPT !.pc = "config"]
    OBVIOUS
  <2>2. worker' = [worker EXCEPT ![c] = w]
    BY <1>4, <2>1
  <2>3. /\ w.source = k.source /\ k.lease = w.lease /\ w.pc = "config"
        /\ w.todo = k.todo /\ w.out = k.out
    BY <1>1, <2>1, AtImage DEF Fits
  <2>4. \A n \in DOMAIN m.layers : n <= k.layer
    BY <1>1, <1>4, AtImage, LayerNumbers
  <2>5. Written(w)
    BY <1>1, <1>2, <2>3, <2>4 DEF Written
  <2>6. LeaseOK(w)
    BY <1>1, <2>3, <2>5, AtImage, KeptGrows DEF LeaseOK
  <2> QED BY <2>2, <2>6, KeepStep DEF DiffID
<1>5. CASE worker' = [worker EXCEPT ![c].pc = "layer", ![c].layer = @ + 1]
  <2>1. PICK w : w = [k EXCEPT !.pc = "layer", !.layer = @ + 1]
    OBVIOUS
  <2>2. worker' = [worker EXCEPT ![c] = w]
    BY <1>5, <2>1
  <2>3. /\ w.source = k.source /\ k.lease = w.lease /\ w.pc = "layer"
        /\ w.todo = k.todo /\ w.out = k.out /\ w.layer = k.layer + 1
    BY <1>1, <2>1, AtImage DEF Fits
  <2>4. \A n \in DOMAIN m.layers : n < k.layer + 1 => n <= k.layer
    BY <1>1, AtImage, LayerNumbers
  <2>5. Written(w)
    BY <1>1, <1>2, <2>3, <2>4 DEF Written
  <2>6. LeaseOK(w)
    BY <1>1, <2>3, <2>5, AtImage, KeptGrows DEF LeaseOK
  <2> QED BY <2>2, <2>6, KeepStep DEF DiffID
<1> QED BY <1>3, <1>4, <1>5 DEF DiffID

LEMMA WritePartsKeeps ==
    ASSUME IndInv, Keeping, NEW c \in Converters, WriteConfig(c) \/ WriteEROFSManifest(c)
    PROVE  Keeping'
<1> DEFINE k == worker[c]
           m == Manifest(c)
<1>1. /\ k.pc \in {"config", "erofs"} /\ k.pc \in Converting /\ m = Head(k.todo).blob
  BY DEF WriteConfig, WriteEROFSManifest, At, Converting, Manifest, Current
<1>2. \A n \in DOMAIN m.layers :
         EROFSLayer(m.layers[n]).blob \in k.lease \cup Leaves(k.source)
  BY <1>1, AtImage DEF LeaseOK, Written
<1>3. PICK b, pc : /\ Becomes(c, pc, b)
                   /\ \/ k.pc = "config" /\ pc = "erofs" /\ b = EROFSConfig(m)
                      \/ k.pc = "erofs" /\ pc = "legacy" /\ b = EROFSManifest(m)
  BY DEF WriteConfig, WriteEROFSManifest, At
<1>4. PICK w : w = [k EXCEPT !.pc = pc, !.lease = @ \cup {b}]
  OBVIOUS
<1>5. worker' = [worker EXCEPT ![c] = w]
  BY <1>3, <1>4 DEF Becomes
<1>6. /\ w.source = k.source /\ w.lease = k.lease \cup {b} /\ w.pc = pc
      /\ w.todo = k.todo /\ w.out = k.out
  BY <1>1, <1>4, AtImage DEF Fits
<1>7. k.pc = "erofs" => EROFSConfig(m) \in k.lease
  BY <1>1, AtImage DEF LeaseOK, Written
<1>8. Written(w)
  BY <1>1, <1>2, <1>3, <1>6, <1>7 DEF Written
<1>9. LeaseOK(w)
  BY <1>1, <1>3, <1>6, <1>8, AtImage, KeptGrows DEF LeaseOK
<1>10. DOMAIN store \subseteq DOMAIN store' /\ UNCHANGED <<images, converted>>
  BY DEF WriteConfig, WriteEROFSManifest, Put
<1> QED BY <1>5, <1>9, <1>10, KeepStep

LEMMA WriteLegacyKeeps ==
    ASSUME IndInv, Keeping, NEW c \in Converters, WriteLegacyManifest(c)
    PROVE  Keeping'
<1> DEFINE k == worker[c]
           m == Manifest(c)
           b == LegacyManifest(m)
           e == EROFSManifest(m)
<1>1. /\ k.pc = "legacy" /\ k.pc \in Converting /\ m = Current(c).blob
      /\ m = Head(k.todo).blob
  BY DEF WriteLegacyManifest, At, Converting, Manifest, Current
<1>2. /\ e \in k.lease /\ EROFSConfig(m) \in k.lease
      /\ \A n \in DOMAIN m.layers :
            EROFSLayer(m.layers[n]).blob \in k.lease \cup Leaves(k.source)
  BY <1>1, AtImage DEF LeaseOK, Written
<1>3. References(e) \subseteq k.lease \cup Leaves(k.source)
  <2>1. /\ e.kind = "manifest" /\ e.config.blob = EROFSConfig(m)
        /\ e.layers = [n \in DOMAIN m.layers |-> EROFSLayer(m.layers[n])]
    BY DEF EROFSManifest, EROFSLayers
  <2>2. References(e) = {EROFSConfig(m)} \cup BlobsOf(e.layers)
    BY <2>1 DEF References
  <2>3. \A x \in BlobsOf(e.layers) :
           \E n \in DOMAIN m.layers : x = EROFSLayer(m.layers[n]).blob
    BY <2>1 DEF BlobsOf
  <2> HIDE DEF e
  <2> QED BY <1>2, <2>2, <2>3
<1>4. References(b) \subseteq Leaves(k.source)
  <2>2. WellFormed(m) /\ \A x \in References(m) : x \in Leaves(k.source)
    BY <1>1, AtImage
  <2>6. m.kind = "manifest"
    BY <2>2 DEF WellFormed
  <2>1. References(m) = {m.config.blob} \cup BlobsOf(m.layers)
    BY <2>6 DEF References
  <2>3. /\ b.kind = "manifest" /\ b.config.blob = m.config.blob
        /\ DOMAIN b.layers = DOMAIN m.layers
        /\ \A n \in DOMAIN m.layers : b.layers[n].blob = m.layers[n].blob
    BY <2>2 DEF LegacyManifest, WellFormed
  <2>4. References(b) = {m.config.blob} \cup BlobsOf(b.layers)
    BY <2>3 DEF References
  <2>5. BlobsOf(b.layers) \subseteq BlobsOf(m.layers)
    BY <2>3 DEF BlobsOf
  <2> QED BY <2>1, <2>2, <2>4, <2>5
<1>5. PICK w : w = [k EXCEPT !.pc = "manifests", !.lease = @ \cup {b}, !.todo = Tail(@),
                             !.layer = 0, !.out = @ \o Pair(Current(c))]
  OBVIOUS
<1>6. worker' = [worker EXCEPT ![c] = w]
  BY <1>5 DEF WriteLegacyManifest
<1>7. /\ w.source = k.source /\ w.lease = k.lease \cup {b} /\ w.pc = "manifests"
      /\ w.todo = Tail(k.todo) /\ w.out = k.out \o Pair(Current(c))
  <2> DEFINE out == k.out \o Pair(Current(c))
  <2>1. w = [k EXCEPT !.pc = "manifests", !.lease = @ \cup {b}, !.todo = Tail(@),
                      !.layer = 0, !.out = out]
    BY <1>5
  <2>2. Fits(k)
    BY <1>1, AtImage
  <2> HIDE DEF out, b
  <2>3. w.out = out
    BY <2>1, <2>2 DEF Fits
  <2>4. /\ w.source = k.source /\ w.lease = k.lease \cup {b} /\ w.pc = "manifests"
        /\ w.todo = Tail(k.todo)
    BY <2>1, <2>2 DEF Fits
  <2> QED BY <2>3, <2>4 DEF out
<1>8. BlobsOf(w.todo) \subseteq Nodes(w.source)
  BY <1>1, <1>7, AtImage, TailBlobs
<1>9. \A x \in BlobsOf(w.out) : Kept(w, x)
  <2>1. Current(c) \in Entries
    BY <1>1, AtImage DEF Current
  <2>2. BlobsOf(w.out) \subseteq BlobsOf(k.out) \cup BlobsOf(Pair(Current(c)))
    BY <1>1, <1>7, <2>1, AtImage, PairListed, JoinedBlobs DEF Fits
  <2>3. BlobsOf(Pair(Current(c))) \subseteq {b, e}
    BY <1>1, PairBlobs
  <2>4. Kept(w, b) /\ Kept(w, e)
    BY <1>2, <1>3, <1>4, <1>7 DEF Kept
  <2>5. \A x \in BlobsOf(k.out) : Kept(w, x)
    BY <1>1, <1>7, AtImage, KeptGrows
  <2> QED BY <2>2, <2>3, <2>4, <2>5
<1>10. LeaseOK(w)
  BY <1>1, <1>7, <1>8, <1>9, AtImage DEF LeaseOK, Written
<1>11. DOMAIN store \subseteq DOMAIN store'
  BY DEF WriteLegacyManifest, Put
<1> QED BY <1>6, <1>10, <1>11, KeepStep DEF WriteLegacyManifest

LEMMA WriteIndexKeeps ==
    ASSUME IndInv, Keeping, NEW c \in Converters, WriteIndex(c)
    PROVE  Keeping'
<1> DEFINE k == worker[c]
           b == Index(k.out)
<1>1. /\ Fits(k) /\ k.pc = "manifests" /\ k.source \in Names
      /\ BlobsOf(k.todo) \subseteq Nodes(k.source)
      /\ \A x \in BlobsOf(k.out) : Kept(k, x)
  BY DEF IndInv, WorkersOK, Keeping, LeasesOK, LeaseOK, WriteIndex, At
<1>2. References(b) = BlobsOf(k.out)
  BY DEF Index, References
<1>3. PICK t : t = [k.target EXCEPT !.type = "oci.index", !.blob = b]
  OBVIOUS
<1>4. PICK w : w = [k EXCEPT !.pc = "delete", !.lease = @ \cup {b}, !.target = t]
  OBVIOUS
<1>5. worker' = [worker EXCEPT ![c] = w]
  BY <1>3, <1>4 DEF WriteIndex
<1>6. /\ w.source = k.source /\ w.lease = k.lease \cup {b} /\ w.pc = "delete"
      /\ w.todo = k.todo /\ w.out = k.out /\ w.target = t
  <2> HIDE DEF b
  <2> QED BY <1>1, <1>4 DEF Fits
<1>7. t.blob = b
  <2>1. k.target = [type |-> k.target.type, blob |-> k.target.blob,
                    platform |-> k.target.platform]
    BY <1>1 DEF Fits
  <2> HIDE DEF b
  <2> QED BY <1>3, <2>1
<1>8. \A x \in References(w.target.blob) : Kept(w, x)
  BY <1>1, <1>2, <1>6, <1>7, KeptGrows
<1>9. LeaseOK(w)
  <2>1. \A x \in BlobsOf(w.out) : Kept(w, x)
    BY <1>1, <1>6, KeptGrows
  <2> QED BY <1>1, <1>6, <1>7, <1>8, <2>1 DEF LeaseOK, Written
<1>10. DOMAIN store \subseteq DOMAIN store'
  BY DEF WriteIndex, Put
<1> QED BY <1>5, <1>9, <1>10, KeepStep DEF WriteIndex

LEMMA DeleteImageKeeps ==
    ASSUME IndInv, Keeping, NEW c \in Converters, DeleteImage(c)
    PROVE  Keeping'
<1>1. PICK w : w = [worker[c] EXCEPT !.pc = "create"]
  OBVIOUS
<1>2. worker' = [worker EXCEPT ![c] = w] /\ UNCHANGED <<store, images>>
  BY <1>1 DEF DeleteImage
<1>3. LeaseOK(worker[c]) /\ worker[c].pc = "delete" /\ Fits(worker[c])
  BY DEF DeleteImage, At, Keeping, LeasesOK, IndInv, WorkersOK
<1>4. /\ w.pc = "create" /\ w.source = worker[c].source /\ w.todo = worker[c].todo
      /\ w.out = worker[c].out /\ w.target = worker[c].target
      /\ w.lease = worker[c].lease
  BY <1>1, <1>3 DEF Fits
<1>5. LeaseOK(w)
  BY <1>3, <1>4 DEF LeaseOK, Kept, Written
<1>6. \A d \in Converters : worker'[d] = worker[d] \/ worker'[d] = w
  BY <1>2 DEF IndInv, WorkersOK
<1>7. LeasesOK'
  BY <1>5, <1>6 DEF Keeping, LeasesOK
<1>8. \A s \in Names : converted'[s] = converted[s] \/ converted'[s] = NoTarget
  BY DEF DeleteImage, IndInv, Tables
<1>9. ImagesOK'
  BY <1>2, <1>8 DEF Keeping, ImagesOK, SourceWhole, ConvertedOK, ThereOr, Present
<1> QED BY <1>7, <1>9 DEF Keeping

LEMMA CreateImageKeeps ==
    ASSUME IndInv, Keeping, NEW c \in Converters, CreateImage(c)
    PROVE  Keeping'
<1>0. PICK k, s : k = worker[c] /\ s = k.source
  OBVIOUS
<1>1. /\ k.pc = "create" /\ s \in Names
      /\ k.target.blob \in k.lease \cup {Source[s].blob}
      /\ \A b \in References(k.target.blob) : Kept(k, b)
      /\ k.lease \subseteq DOMAIN store /\ SourceWhole(s)
  BY <1>0 DEF CreateImage, At, Keeping, LeasesOK, LeaseOK, ImagesOK, IndInv, TypeOK
<1>2. \A x \in k.lease \cup Leaves(s) : x \in DOMAIN store \/ images[s] = NoTarget
  BY <1>1 DEF SourceWhole
<1>3. Source[s].blob \in Nodes(s) /\ Nodes(s) \subseteq Leaves(s)
  BY NodesHaveLeaves DEF Nodes
<1>4. /\ UNCHANGED <<store, images>>
      /\ converted'[s] = k.target
      /\ \A r \in Names : r # s => converted'[r] = converted[r]
  BY <1>0, <1>1 DEF CreateImage, IndInv, Tables
<1>5. ConvertedOK(s)'
  <2> SUFFICES
         /\ ThereOr(s, k.target.blob, {Source[s].blob})
         /\ \A m \in References(k.target.blob) :
               /\ ThereOr(s, m, Nodes(s))
               /\ \A x \in References(m) : ThereOr(s, x, Leaves(s))
    BY <1>4 DEF ConvertedOK, ThereOr, Present
  <2>1. ThereOr(s, k.target.blob, {Source[s].blob})
    BY <1>1, <1>2, <1>3 DEF ThereOr, Present
  <2>2. ASSUME NEW m \in References(k.target.blob)
        PROVE  /\ ThereOr(s, m, Nodes(s))
               /\ \A x \in References(m) : ThereOr(s, x, Leaves(s))
    BY <1>0, <1>1, <1>2, <1>3 DEF Kept, ThereOr, Present
  <2> QED BY <2>1, <2>2
<1>6. ImagesOK'
  BY <1>4, <1>5 DEF Keeping, ImagesOK, SourceWhole, ConvertedOK, ThereOr, Present
<1>7. LeasesOK'
  <2>1. \A d \in Converters : worker'[d] = worker[d] \/ worker'[d] = Idle
    BY DEF CreateImage, End, IndInv, WorkersOK
  <2>2. LeaseOK(Idle)
    BY DEF LeaseOK, Idle
  <2> QED BY <2>1, <2>2 DEF Keeping, LeasesOK
<1> QED BY <1>6, <1>7 DEF Keeping

LEMMA ContainerdKeeps ==
    ASSUME IndInv, Keeping,
           LeasesExpire \/ \E s \in Names : RemoveImage(s) \/ RemoveConverted(s)
    PROVE  Keeping'
<1>1. UNCHANGED <<store, worker>>
  BY DEF LeasesExpire, RemoveImage, RemoveConverted
<1>2. \A s \in Names : /\ images'[s] = images[s] \/ images'[s] = NoTarget
                       /\ converted'[s] = converted[s] \/ converted'[s] = NoTarget
  BY DEF LeasesExpire, RemoveImage, RemoveConverted, IndInv, Tables
<1>3. LeasesOK'
  BY <1>1 DEF Keeping, LeasesOK
<1>4. ImagesOK'
  BY <1>1, <1>2 DEF Keeping, ImagesOK, SourceWhole, ConvertedOK, ThereOr, Present
<1> QED BY <1>3, <1>4 DEF Keeping

(* From a blob that is kept, the labels keep what it refers to, and once   *)
(* more.                                                                   *)
LEMMA LabelsReach ==
    ASSUME IndInv, NEW r \in Targets
    PROVE  /\ Present(r) => r \in Live
           /\ \A m \in References(r) :
                 Present(r) /\ Present(m) =>
                     /\ m \in Live
                     /\ \A x \in References(m) : Present(x) => x \in Live
<1> DEFINE first == Labels(Targets \cup Leased)
<1>1. r \in first /\ first \subseteq Labels(first)
  BY DEF Labels
<1>2. Present(r) => References(r) \subseteq first
  BY DEF IndInv, Labelled, Labels, Present
<1>3. ASSUME NEW m \in first, Present(m) PROVE References(m) \subseteq Labels(first)
  BY <1>3 DEF IndInv, Labelled, Labels, Present
<1>4. Live = Labels(first) \cap DOMAIN store
  BY DEF Live
<1> HIDE DEF first
<1> QED BY <1>1, <1>2, <1>3, <1>4 DEF Present

LEMMA CollectGarbageKeeps ==
    ASSUME IndInv, Keeping, CollectGarbage
    PROVE  Keeping'
<1>1. DOMAIN store' = Live /\ UNCHANGED <<images, converted, worker>>
  BY DEF CollectGarbage
<1>2. ASSUME NEW s \in Names PROVE SourceWhole(s)'
  <2> SUFFICES ASSUME images[s] # NoTarget PROVE Leaves(s) \subseteq Live
    BY <1>1 DEF SourceWhole
  <2>1. images[s] = Source[s] /\ Leaves(s) \subseteq DOMAIN store
    BY DEF IndInv, TypeOK, Keeping, ImagesOK, SourceWhole
  <2>2. Source[s].blob \in Targets
    BY <2>1 DEF Targets
  <2> QED BY <2>1, <2>2, LabelsReach DEF Leaves, Tree, Present
<1>3. ASSUME NEW s \in Names PROVE ConvertedOK(s)'
  <2>0. PICK r : r = converted[s].blob
    OBVIOUS
  <2> SUFFICES ASSUME converted[s] # NoTarget
               PROVE  /\ ThereOr(s, r, {Source[s].blob})'
                      /\ \A m \in References(r) :
                            /\ ThereOr(s, m, Nodes(s))'
                            /\ \A x \in References(m) : ThereOr(s, x, Leaves(s))'
    BY <1>1, <2>0 DEF ConvertedOK, ThereOr, Present
  <2>1. /\ ThereOr(s, r, {Source[s].blob})
        /\ \A m \in References(r) :
              /\ ThereOr(s, m, Nodes(s))
              /\ \A x \in References(m) : ThereOr(s, x, Leaves(s))
    BY <2>0 DEF Keeping, ImagesOK, ConvertedOK
  <2>2. r \in Targets
    BY <2>0 DEF Targets
  <2>3. \A b, S : ThereOr(s, b, S)' <=> b \in Live \/ (images[s] = NoTarget /\ b \in S)
    BY <1>1 DEF ThereOr, Present
  <2>4. ThereOr(s, r, {Source[s].blob})'
    BY <2>1, <2>2, <2>3, LabelsReach DEF ThereOr
  <2>5. ASSUME NEW m \in References(r)
        PROVE  /\ ThereOr(s, m, Nodes(s))'
               /\ \A x \in References(m) : ThereOr(s, x, Leaves(s))'
    <3>1. CASE Present(r) /\ Present(m)
      BY <2>1, <2>2, <2>3, <3>1, LabelsReach DEF ThereOr
    <3>2. CASE images[s] = NoTarget /\ m \in Nodes(s)
      BY <2>3, <3>2, NodesHaveLeaves
    <3>3. r = Source[s].blob => m \in Nodes(s)
      BY DEF Nodes
    <3> QED BY <2>1, <3>1, <3>2, <3>3 DEF ThereOr
  <2> QED BY <2>4, <2>5
<1>4. LeasesOK'
  BY <1>1 DEF Keeping, LeasesOK
<1> QED BY <1>2, <1>3, <1>4 DEF Keeping, ImagesOK

LEMMA InitKeeps == Init => Keeping
<1> SUFFICES ASSUME Init PROVE Keeping
  OBVIOUS
<1>1. LeasesOK
  BY DEF Init, LeasesOK, LeaseOK, Idle
<1>2. \A s \in Names : Leaves(s) \subseteq DOMAIN store
  BY DEF Init, Leaves
<1>3. \A s \in Names : converted[s] = NoTarget
  BY DEF Init
<1> QED BY <1>1, <1>2, <1>3 DEF Keeping, ImagesOK, SourceWhole, ConvertedOK

LEMMA NextKeeps ==
    ASSUME IndInv, Keeping, [Next]_vars
    PROVE  Keeping'
<1>1. CASE \E c \in Converters : Step(c)
  <2> SUFFICES ASSUME NEW c \in Converters, Step(c) PROVE Keeping'
    BY <1>1
  <2>1. ReadFails(c) \/ CreateFails(c) \/ Interrupt(c) => Keeping'
    BY KeepEnd DEF ReadFails, CreateFails, Interrupt
  <2> QED BY <2>1, ConvertKeeps, NextManifestKeeps, ConvertLayerKeeps, DiffIDKeeps,
             WritePartsKeeps, WriteLegacyKeeps, WriteIndexKeeps, DeleteImageKeeps,
             CreateImageKeeps DEF Step
<1>2. CASE UNCHANGED vars
  BY <1>2 DEF vars, Keeping, LeasesOK, ImagesOK, SourceWhole, ConvertedOK, ThereOr, Present
<1> QED BY <1>1, <1>2, ContainerdKeeps, CollectGarbageKeeps DEF Next

(* A converted image is complete, whatever was interrupted, removed or     *)
(* collected while it was written: the lease keeps it until the image has  *)
(* it, the labels from then on; only what went with its source is missing. *)
THEOREM ConvertedAreComplete == Spec => []Complete
<1>1. Keeping => Complete
  <2> SUFFICES ASSUME Keeping, NEW s \in Names, converted[s] # NoTarget,
                      NEW b \in Tree(converted[s].blob)
               PROVE  Present(b) \/ (images[s] = NoTarget /\ b \in Leaves(s))
    BY DEF Complete, Leaves
  <2>1. ConvertedOK(s)
    BY DEF Keeping, ImagesOK
  <2>2. Source[s].blob \in Leaves(s) /\ Nodes(s) \subseteq Leaves(s)
    BY NodesHaveLeaves DEF Nodes
  <2> QED BY <2>1, <2>2 DEF ConvertedOK, ThereOr, Tree
<1>2. Spec => [](IndInv /\ Keeping)
  <2>1. Init => IndInv /\ Keeping
    BY InitOK, InitKeeps
  <2>2. (IndInv /\ Keeping) /\ [Next]_vars => (IndInv /\ Keeping)'
    BY NextOK, NextKeeps
  <2> QED BY <2>1, <2>2, PTL DEF Spec
<1> QED BY <1>1, <1>2, PTL

-----------------------------------------------------------------------------
(* What is written is in the native format, for sources that are not       *)
(* native already.                                                         *)

Matched(d) == d.platform = NoPlatform \/ d.platform \in Matches

(* Of the images to convert, no platform has the EROFS feature, and no     *)
(* layer but the tar layers comes with a diff ID.                          *)
NoneNative ==
    \A d \in Entries :
        ShouldConvert(d, d.blob) /\ Matched(d) =>
            /\ \A n \in DOMAIN Platform(d).features : Platform(d).features[n] # "erofs"
            /\ \A n \in DOMAIN d.blob.layers :
                  \/ IsLayer(d.blob.layers[n])
                  \/ d.blob.layers[n].blob.kind \notin {"tar", "erofs"}

(* A list of manifests in the native format. *)
Paired(ms) ==
    \A n \in DOMAIN ms :
        \/ ~ShouldConvert(ms[n], ms[n].blob)
        \/ n + 1 \in DOMAIN ms /\ Counterparts(ms[n], ms[n + 1])
        \/ n - 1 \in DOMAIN ms /\ Counterparts(ms[n - 1], ms[n])

(* The layers that w has been through are tar layers. *)
TarLayers(w) ==
    LET d == Head(w.todo)
    IN  w.pc \in Converting =>
            /\ ShouldConvert(d, d.blob) /\ Matched(d)
            /\ 1 \in DOMAIN d.blob.layers
            /\ \A n \in DOMAIN d.blob.layers :
                  (w.pc \in {"layer", "diffID"} => n < w.layer) => IsLayer(d.blob.layers[n])

Formatted(w) ==
    /\ Paired(w.out)
    /\ TarLayers(w)
    /\ w.pc \in {"delete", "create"} /\ IsIndex(w.target) => Paired(w.target.blob.manifests)

(* Only layers have diff IDs. *)
DiffIDsOfLayers ==
    \A b \in DOMAIN store : store[b].uncompressed => b.kind \in {"tar", "erofs"}

Formats ==
    /\ DiffIDsOfLayers
    /\ \A c \in Converters : Formatted(worker[c])
    /\ NativeFormat

(* NativeFormat, said of the list of an index. *)
LEMMA NativeIsPaired ==
    NativeFormat <=> \A s \in Names : IsIndex(converted[s]) => Paired(converted[s].blob.manifests)
BY DEF NativeFormat, Paired

(* An entry that is passed on as it is does not break the pairs. *)
LEMMA PairedPassedOn ==
    ASSUME NEW S, NEW ms \in Seq(S), NEW d \in S, Paired(ms), ~ShouldConvert(d, d.blob)
    PROVE  Paired(Append(ms, d))
<1> DEFINE t == Append(ms, d)
<1>1. /\ Len(ms) \in Nat /\ DOMAIN ms = 1..Len(ms) /\ DOMAIN t = 1..(Len(ms) + 1)
      /\ t[Len(ms) + 1] = d
      /\ \A n \in DOMAIN ms : t[n] = ms[n]
  OBVIOUS
<1> HIDE DEF t
<1>2. DOMAIN ms \subseteq DOMAIN t /\ \A n \in DOMAIN t : n \in DOMAIN ms \/ t[n] = d
  BY <1>1
<1>3. ASSUME NEW n \in DOMAIN ms
      PROVE  \/ ~ShouldConvert(t[n], t[n].blob)
             \/ n + 1 \in DOMAIN t /\ Counterparts(t[n], t[n + 1])
             \/ n - 1 \in DOMAIN t /\ Counterparts(t[n - 1], t[n])
  BY <1>1, <1>2 DEF Paired
<1> QED BY <1>2, <1>3 DEF Paired, t

(* The two entries a conversion appends are each other's counterparts. *)
LEMMA PairedPair ==
    ASSUME NEW S, NEW ms \in Seq(S), NEW a \in S, NEW b \in S, Paired(ms), Counterparts(a, b)
    PROVE  Paired(ms \o <<a, b>>)
<1> DEFINE t == ms \o <<a, b>>
           k == Len(ms)
<1>1. /\ k \in Nat /\ DOMAIN ms = 1..k /\ DOMAIN t = 1..(k + 2)
      /\ t[k + 1] = a /\ t[k + 2] = b
      /\ \A n \in DOMAIN ms : t[n] = ms[n]
  OBVIOUS
<1> HIDE DEF t
<1>2. /\ DOMAIN ms \subseteq DOMAIN t
      /\ \A n \in DOMAIN t : n \in DOMAIN ms \/ n = k + 1 \/ n = k + 2
  BY <1>1
<1>3. ASSUME NEW n \in DOMAIN ms
      PROVE  \/ ~ShouldConvert(t[n], t[n].blob)
             \/ n + 1 \in DOMAIN t /\ Counterparts(t[n], t[n + 1])
             \/ n - 1 \in DOMAIN t /\ Counterparts(t[n - 1], t[n])
  BY <1>1, <1>2 DEF Paired
<1>4. /\ k + 2 \in DOMAIN t /\ k + 1 \in DOMAIN t
      /\ (k + 1) + 1 = k + 2 /\ (k + 2) - 1 = k + 1
  BY <1>1
<1>5. Counterparts(t[k + 1], t[(k + 1) + 1]) /\ Counterparts(t[(k + 2) - 1], t[k + 2])
  BY <1>1, <1>4
<1> QED BY <1>2, <1>3, <1>4, <1>5 DEF Paired, t

(* What is written of an image of tar layers is its native form. *)
LEMMA PairMatches ==
    ASSUME NEW d, WellFormed(d.blob), 1 \in DOMAIN d.blob.layers,
           \A n \in DOMAIN d.blob.layers : IsLayer(d.blob.layers[n]),
           \A n \in DOMAIN Platform(d).features : Platform(d).features[n] # "erofs"
    PROVE  Counterparts(Pair(d)[1], Pair(d)[2])
<1> DEFINE m == d.blob
           old == LegacyManifest(m)
           new == EROFSManifest(m)
           p == Platform(d)
<1>1. /\ Pair(d)[1].blob = old /\ Pair(d)[2].blob = new
      /\ Pair(d)[1].platform = p
      /\ Pair(d)[2].platform = [p EXCEPT !.features = Append(@, "erofs")]
  BY DEF Pair
<1>2. /\ old.layers = [n \in DOMAIN m.layers |->
            [m.layers[n] EXCEPT
                !.type = ToOCI(m.layers[n].type),
                !.manifest = IF n = 1 THEN EROFSManifest(m) ELSE @]]
  BY DEF LegacyManifest, WellFormed
<1>3. new.layers = [n \in DOMAIN m.layers |-> EROFSLayer(m.layers[n])]
  BY DEF EROFSManifest, EROFSLayers
<1>4. new.config.blob = EROFSConfig(m)
  BY DEF EROFSManifest
<1>5. EROFSConfig(m).diffIDs = [n \in DOMAIN m.layers |-> EROFSLayer(m.layers[n]).blob]
  BY DEF EROFSConfig, WellFormed, EROFSLayers
<1>6. ASSUME NEW n \in DOMAIN m.layers
      PROVE  /\ old.layers[n].type = "oci.layer"
             /\ old.layers[n].blob = m.layers[n].blob
             /\ n = 1 => old.layers[n].manifest = EROFSManifest(m)
             /\ new.layers[n].type = "erofs.layer"
             /\ new.layers[n].blob = Erofs(m.layers[n].blob.of)
             /\ new.config.blob.diffIDs[n] = new.layers[n].blob
  <2> DEFINE l == m.layers[n]
  <2>1. l = [type |-> l.type, blob |-> l.blob, manifest |-> l.manifest] /\ IsLayer(l)
    BY <1>6 DEF WellFormed
  <2>2. ToOCI(l.type) = "oci.layer"
    BY <2>1 DEF IsLayer, ToOCI
  <2>3. EROFSLayer(l).type = "erofs.layer" /\ EROFSLayer(l).blob = Erofs(l.blob.of)
    BY <2>1 DEF EROFSLayer
  <2>4. /\ old.layers[n] = [l EXCEPT !.type = ToOCI(l.type),
                                     !.manifest = IF n = 1 THEN EROFSManifest(m) ELSE @]
        /\ new.layers[n] = EROFSLayer(l)
        /\ new.config.blob.diffIDs[n] = EROFSLayer(l).blob
    <3> HIDE DEF old, new
    <3> QED BY <1>2, <1>3, <1>4, <1>5
  <2> HIDE DEF old, new, m, l
  <2>5. /\ old.layers[n].type = "oci.layer" /\ old.layers[n].blob = l.blob
        /\ n = 1 => old.layers[n].manifest = EROFSManifest(m)
    BY <2>1, <2>2, <2>4
  <2> QED BY <2>3, <2>4, <2>5 DEF l
<1>7. DOMAIN old.layers = DOMAIN m.layers /\ DOMAIN new.layers = DOMAIN m.layers
  BY <1>2, <1>3
<1>8. ~IsEROFS(Pair(d)[1])
  BY <1>1 DEF IsEROFS
<1> HIDE DEF old, new, p
<1>9. /\ old.layers[1].manifest = new
      /\ DOMAIN old.layers = DOMAIN new.layers
      /\ \A n \in DOMAIN old.layers :
            /\ old.layers[n].type = "oci.layer"
            /\ new.layers[n].type = "erofs.layer"
            /\ new.layers[n].blob = Erofs(old.layers[n].blob.of)
            /\ new.config.blob.diffIDs[n] = new.layers[n].blob
  BY <1>6, <1>7 DEF new
<1>10. Pair(d)[2].platform = [Pair(d)[1].platform EXCEPT !.features = Append(@, "erofs")]
  BY <1>1
<1> QED BY <1>1, <1>8, <1>9, <1>10 DEF Counterparts

(* A step of one conversion. *)
LEMMA FormatStep ==
    ASSUME IndInv, Formats, NEW c \in Converters, NEW w,
           worker' = [worker EXCEPT ![c] = w], Formatted(w),
           DiffIDsOfLayers', UNCHANGED converted
    PROVE  Formats'
<1>1. \A e \in Converters : worker'[e] = worker[e] \/ worker'[e] = w
  BY DEF IndInv, WorkersOK
<1>2. \A e \in Converters : Formatted(worker'[e])
  BY <1>1 DEF Formats
<1>3. NativeFormat'
  BY DEF Formats, NativeFormat
<1> QED BY <1>2, <1>3 DEF Formats, Formatted, TarLayers

(* A converter at rest. *)
LEMMA IdleFormatted == Formatted(Idle)
<1>1. Idle.pc = "idle" /\ Idle.out = <<>>
  BY DEF Idle
<1>2. DOMAIN <<>> = {}
  OBVIOUS
<1> QED BY <1>1, <1>2 DEF Formatted, TarLayers, Paired, Converting

(* What is put has a diff ID only if it is a layer. *)
LEMMA PutDiffIDs ==
    ASSUME DiffIDsOfLayers, NEW b, NEW refs, NEW u \in BOOLEAN,
           u => b.kind \in {"tar", "erofs"}, Put(b, refs, u)
    PROVE  DiffIDsOfLayers'
BY DEF DiffIDsOfLayers, Put, Present

(* A conversion starts with an empty list. *)
LEMMA ConvertFormats ==
    ASSUME IndInv, Formats, NEW c \in Converters, NEW s \in Names, Convert(c, s)
    PROVE  Formats'
<1> DEFINE d == images[s]
           started == [Idle EXCEPT !.source = s, !.target = d]
<1>1. PICK w : /\ worker' = [worker EXCEPT ![c] = w]
               /\ \/ w = [started EXCEPT !.pc = "manifests", !.todo = d.blob.manifests]
                  \/ w = [started EXCEPT !.pc = "manifests",
                                         !.todo = <<[d EXCEPT !.platform = NoPlatform]>>]
                  \/ ~IsIndex(d) /\ w = [started EXCEPT !.pc = "delete"]
  BY DEF Convert
<1>2. /\ w.out = <<>> /\ w.target = d
      /\ w.pc \in {"manifests", "delete"}
      /\ w.pc = "delete" => ~IsIndex(d)
  <2> HIDE DEF d
  <2> QED BY <1>1 DEF Idle
<1>3. DOMAIN <<>> = {}
  OBVIOUS
<1>4. Formatted(w)
  BY <1>2, <1>3 DEF Formatted, TarLayers, Paired, Converting
<1>5. DiffIDsOfLayers'
  BY DEF Formats, DiffIDsOfLayers, Convert
<1> QED BY <1>1, <1>4, <1>5, FormatStep DEF Convert

(* The next entry is passed on, or its conversion starts. *)
LEMMA NextManifestFormats ==
    ASSUME IndInv, Formats, NEW c \in Converters, NextManifest(c)
    PROVE  Formats'
<1> DEFINE k == worker[c]
           d == Current(c)
<1>1. /\ Fits(k) /\ k.pc = "manifests" /\ k.todo # <<>>
      /\ k.todo \in Seq(Entries) /\ k.out \in Seq(Outs) /\ Paired(k.out)
  BY DEF IndInv, WorkersOK, NextManifest, At, Fits, Formats, Formatted
<1>2. d \in Entries /\ d \in Outs /\ d = Head(k.todo)
  BY <1>1 DEF Current, Outs
<1>3. DiffIDsOfLayers'
  BY DEF Formats, DiffIDsOfLayers, NextManifest
<1>4. CASE worker' = [worker EXCEPT ![c].todo = Tail(@)]
  <2>1. PICK w : w = [k EXCEPT !.todo = Tail(@)]
    OBVIOUS
  <2>2. worker' = [worker EXCEPT ![c] = w]
    BY <1>4, <2>1
  <2>3. w.pc = "manifests" /\ w.out = k.out
    BY <1>1, <2>1 DEF Fits
  <2>4. Formatted(w)
    BY <1>1, <2>3 DEF Formatted, TarLayers, Converting
  <2> QED BY <1>3, <2>2, <2>4, FormatStep DEF NextManifest
<1>5. CASE /\ ~ShouldConvert(d, d.blob)
           /\ worker' = [worker EXCEPT ![c].todo = Tail(@), ![c].out = Append(@, d)]
  <2>1. PICK w : w = [k EXCEPT !.todo = Tail(@), !.out = Append(@, d)]
    OBVIOUS
  <2>2. worker' = [worker EXCEPT ![c] = w]
    BY <1>5, <2>1
  <2>3. w.pc = "manifests" /\ w.out = Append(k.out, d)
    BY <1>1, <2>1 DEF Fits
  <2>4. Paired(w.out)
    BY <1>1, <1>2, <1>5, <2>3, PairedPassedOn
  <2>5. Formatted(w)
    BY <2>3, <2>4 DEF Formatted, TarLayers, Converting
  <2> QED BY <1>3, <2>2, <2>5, FormatStep DEF NextManifest
<1>6. CASE End(c)
  BY <1>3, <1>6, IdleFormatted, FormatStep DEF NextManifest, End
<1>7. CASE /\ Matched(d) /\ ShouldConvert(d, d.blob) /\ d.blob.layers # <<>>
           /\ worker' = [worker EXCEPT ![c].pc = "layer", ![c].layer = 1]
  <2>1. PICK w : w = [k EXCEPT !.pc = "layer", !.layer = 1]
    OBVIOUS
  <2>2. worker' = [worker EXCEPT ![c] = w]
    BY <1>7, <2>1
  <2>3. w.pc = "layer" /\ w.todo = k.todo /\ w.out = k.out /\ w.layer = 1
    BY <1>1, <2>1 DEF Fits
  <2>4. WellFormed(d.blob)
    BY <1>2, <1>7, SourceAssumption
  <2>5. 1 \in DOMAIN d.blob.layers /\ \A n \in DOMAIN d.blob.layers : ~(n < 1)
    BY <1>7, <2>4 DEF WellFormed
  <2>6. TarLayers(w)
    BY <1>2, <1>7, <2>3, <2>5 DEF TarLayers
  <2>7. Formatted(w)
    BY <1>1, <2>3, <2>6 DEF Formatted
  <2> QED BY <1>3, <2>2, <2>7, FormatStep DEF NextManifest
<1> QED BY <1>4, <1>5, <1>6, <1>7 DEF NextManifest, Matched

(* A layer's EROFS blob carries the layer's diff ID. *)
LEMMA ConvertLayerFormats ==
    ASSUME IndInv, Formats, NEW c \in Converters, ConvertLayer(c)
    PROVE  Formats'
<1> DEFINE k == worker[c]
           b == EROFSLayer(Layer(c)).blob
<1>1. k.pc = "layer" /\ Formatted(k) /\ Fits(k)
  BY DEF ConvertLayer, At, Formats, IndInv, WorkersOK
<1>2. PICK w : /\ worker' = [worker EXCEPT ![c] = w]
               /\ \/ w = [k EXCEPT !.pc = "diffID"]
                  \/ w = [k EXCEPT !.pc = "diffID", !.lease = @ \cup {b}]
  BY DEF ConvertLayer, Becomes
<1>3. w.pc = "diffID" /\ w.todo = k.todo /\ w.out = k.out /\ w.layer = k.layer
  <2> HIDE DEF b
  <2> QED BY <1>1, <1>2 DEF Fits
<1>4. Formatted(w)
  BY <1>1, <1>3 DEF Formatted, TarLayers, Converting
<1>5. DiffIDsOfLayers'
  <2>1. CASE IsLayer(Layer(c))
    <3>1. WellFormed(Manifest(c)) /\ k.layer \in DOMAIN Manifest(c).layers
      BY <1>1 DEF Fits, Converting, Manifest, Current
    <3>2. b = Erofs(Layer(c).blob.of)
      BY <2>1, <3>1 DEF EROFSLayer, WellFormed, Layer
    <3>3. b.kind = "erofs"
      BY <3>2 DEF Erofs
    <3>4. Put(b, {}, TRUE)
      BY <2>1 DEF ConvertLayer
    <3> HIDE DEF b
    <3> QED BY <3>3, <3>4, PutDiffIDs DEF Formats
  <2>2. CASE ~IsLayer(Layer(c))
    BY <2>2 DEF ConvertLayer, Formats, DiffIDsOfLayers
  <2> QED BY <2>1, <2>2
<1> QED BY <1>2, <1>4, <1>5, FormatStep DEF ConvertLayer

(* A layer that is no tar has no diff ID: the conversion fails at it. *)
LEMMA DiffIDFormats ==
    ASSUME NoneNative, IndInv, Formats, NEW c \in Converters, DiffID(c)
    PROVE  Formats'
<1> DEFINE k == worker[c]
           d == Head(k.todo)
           m == d.blob
<1>1. /\ k.pc = "diffID" /\ Formatted(k) /\ Fits(k)
      /\ k.todo \in Seq(Entries) /\ k.todo # <<>> /\ WellFormed(m)
      /\ k.layer \in DOMAIN m.layers
  BY DEF DiffID, At, Formats, IndInv, WorkersOK, Fits, Converting
<1>2. d \in Entries /\ m = Manifest(c)
  BY <1>1 DEF Manifest, Current
<1>3. /\ ShouldConvert(d, m) /\ Matched(d) /\ 1 \in DOMAIN m.layers
      /\ \A n \in DOMAIN m.layers : n < k.layer => IsLayer(m.layers[n])
  BY <1>1 DEF Formatted, TarLayers, Converting
<1>4. DiffIDsOfLayers'
  BY DEF Formats, DiffIDsOfLayers, DiffID
<1>5. CASE End(c)
  BY <1>4, <1>5, IdleFormatted, FormatStep DEF DiffID, End
<1>6. CASE store[EROFSLayer(Layer(c)).blob].uncompressed
  <2>1. IsLayer(m.layers[k.layer])
    <3> SUFFICES ASSUME ~IsLayer(m.layers[k.layer]) PROVE FALSE
      OBVIOUS
    <3>1. EROFSLayer(Layer(c)).blob = m.layers[k.layer].blob
      BY <1>2 DEF EROFSLayer, Layer
    <3>2. m.layers[k.layer].blob.kind \in {"tar", "erofs"}
      BY <1>6, <3>1 DEF DiffID, Present, Formats, DiffIDsOfLayers
    <3> QED BY <1>1, <1>2, <1>3, <3>2 DEF NoneNative
  <2>2. \A n \in DOMAIN m.layers : n < k.layer + 1 => IsLayer(m.layers[n])
    <3> SUFFICES ASSUME NEW n \in DOMAIN m.layers, n < k.layer + 1
                 PROVE  IsLayer(m.layers[n])
      OBVIOUS
    <3>1. n \in Nat /\ k.layer \in Nat
      BY <1>1, LayerNumbers
    <3>2. n < k.layer \/ n = k.layer
      BY <3>1
    <3> QED BY <1>3, <2>1, <3>2
  <2>3. CASE /\ k.layer = Len(m.layers)
             /\ worker' = [worker EXCEPT ![c].pc = "config"]
    <3>1. PICK w : w = [k EXCEPT !.pc = "config"]
      OBVIOUS
    <3>2. worker' = [worker EXCEPT ![c] = w]
      BY <2>3, <3>1
    <3>3. w.pc = "config" /\ w.todo = k.todo /\ w.out = k.out
      BY <1>1, <3>1 DEF Fits
    <3>4. \A n \in DOMAIN m.layers : n < k.layer + 1
      BY <1>1, <2>3, LayerNumbers
    <3>5. \A n \in DOMAIN m.layers : IsLayer(m.layers[n])
      BY <2>2, <3>4
    <3>6. TarLayers(w)
      BY <1>3, <3>3, <3>5 DEF TarLayers
    <3>7. Formatted(w)
      BY <1>1, <3>3, <3>6 DEF Formatted
    <3> QED BY <1>4, <3>2, <3>7, FormatStep DEF DiffID
  <2>4. CASE worker' = [worker EXCEPT ![c].pc = "layer", ![c].layer = @ + 1]
    <3>1. PICK w : w = [k EXCEPT !.pc = "layer", !.layer = @ + 1]
      OBVIOUS
    <3>2. worker' = [worker EXCEPT ![c] = w]
      BY <2>4, <3>1
    <3>3. w.pc = "layer" /\ w.todo = k.todo /\ w.out = k.out /\ w.layer = k.layer + 1
      BY <1>1, <3>1 DEF Fits
    <3>4. TarLayers(w)
      BY <1>3, <2>2, <3>3 DEF TarLayers
    <3>5. Formatted(w)
      BY <1>1, <3>3, <3>4 DEF Formatted
    <3> QED BY <1>4, <3>2, <3>5, FormatStep DEF DiffID
  <2> QED BY <1>2, <1>6, <2>3, <2>4 DEF DiffID
<1> QED BY <1>5, <1>6 DEF DiffID

(* Config and EROFS manifest are written of what was converted. *)
LEMMA WritePartsFormats ==
    ASSUME IndInv, Formats, NEW c \in Converters, WriteConfig(c) \/ WriteEROFSManifest(c)
    PROVE  Formats'
<1> DEFINE k == worker[c]
<1>1. k.pc \in {"config", "erofs"} /\ Formatted(k) /\ Fits(k)
  BY DEF WriteConfig, WriteEROFSManifest, At, Formats, IndInv, WorkersOK
<1>2. PICK b, refs, pc : /\ Put(b, refs, FALSE)
                         /\ pc \in {"erofs", "legacy"} /\ Becomes(c, pc, b)
  BY DEF WriteConfig, WriteEROFSManifest
<1>3. DiffIDsOfLayers'
  BY <1>2, PutDiffIDs DEF Formats
<1>4. PICK w : w = [k EXCEPT !.pc = pc, !.lease = @ \cup {b}]
  OBVIOUS
<1>5. worker' = [worker EXCEPT ![c] = w]
  BY <1>2, <1>4 DEF Becomes
<1>6. w.pc \in {"erofs", "legacy"} /\ w.todo = k.todo /\ w.out = k.out
  BY <1>1, <1>2, <1>4 DEF Fits
<1>7. Formatted(w)
  BY <1>1, <1>6 DEF Formatted, TarLayers, Converting
<1> QED BY <1>3, <1>5, <1>7, FormatStep DEF WriteConfig, WriteEROFSManifest

(* The legacy manifest completes the pair. *)
LEMMA WriteLegacyFormats ==
    ASSUME NoneNative, IndInv, Formats, NEW c \in Converters, WriteLegacyManifest(c)
    PROVE  Formats'
<1> DEFINE k == worker[c]
           d == Head(k.todo)
           b == LegacyManifest(d.blob)
           out == k.out \o Pair(d)
<1>1. /\ k.pc = "legacy" /\ Formatted(k) /\ Fits(k)
      /\ k.todo \in Seq(Entries) /\ k.todo # <<>> /\ WellFormed(d.blob)
      /\ k.out \in Seq(Outs) /\ Paired(k.out)
  BY DEF WriteLegacyManifest, At, Formats, Formatted, IndInv, WorkersOK, Fits, Converting
<1>2. d \in Entries /\ d = Current(c) /\ d.blob = Manifest(c)
  BY <1>1 DEF Manifest, Current
<1>3. /\ ShouldConvert(d, d.blob) /\ Matched(d) /\ 1 \in DOMAIN d.blob.layers
      /\ \A n \in DOMAIN d.blob.layers : IsLayer(d.blob.layers[n])
  BY <1>1 DEF Formatted, TarLayers, Converting
<1>4. Counterparts(Pair(d)[1], Pair(d)[2])
  BY <1>1, <1>2, <1>3, PairMatches DEF NoneNative
<1>5. Paired(out)
  <2>1. Pair(d)[1] \in Outs /\ Pair(d)[2] \in Outs /\ Pair(d) = <<Pair(d)[1], Pair(d)[2]>>
    BY <1>2, PairShape DEF Outs
  <2> QED BY <1>1, <1>4, <2>1, PairedPair
<1>6. PICK w : w = [k EXCEPT !.pc = "manifests", !.lease = @ \cup {b}, !.todo = Tail(@),
                             !.layer = 0, !.out = out]
  OBVIOUS
<1>7. worker' = [worker EXCEPT ![c] = w]
  BY <1>2, <1>6 DEF WriteLegacyManifest
<1>8. w.pc = "manifests" /\ w.out = out
  <2> HIDE DEF b, out
  <2> QED BY <1>1, <1>6 DEF Fits
<1>9. Formatted(w)
  BY <1>5, <1>8 DEF Formatted, TarLayers, Converting
<1>10. DiffIDsOfLayers'
  <2>1. Put(b, ManifestLabels(b), FALSE)
    BY <1>2 DEF WriteLegacyManifest
  <2> HIDE DEF b
  <2> QED BY <2>1, PutDiffIDs DEF Formats
<1> QED BY <1>7, <1>9, <1>10, FormatStep DEF WriteLegacyManifest

(* The index has the pairs of the list. *)
LEMMA WriteIndexFormats ==
    ASSUME IndInv, Formats, NEW c \in Converters, WriteIndex(c)
    PROVE  Formats'
<1> DEFINE k == worker[c]
           b == Index(k.out)
<1>1. /\ k.pc = "manifests" /\ Fits(k) /\ Paired(k.out)
  BY DEF WriteIndex, At, Formats, Formatted, IndInv, WorkersOK
<1>2. PICK t : t = [k.target EXCEPT !.type = "oci.index", !.blob = b]
  OBVIOUS
<1>3. PICK w : w = [k EXCEPT !.pc = "delete", !.lease = @ \cup {b}, !.target = t]
  OBVIOUS
<1>4. worker' = [worker EXCEPT ![c] = w]
  BY <1>2, <1>3 DEF WriteIndex
<1>5. w.pc = "delete" /\ w.out = k.out /\ w.target = t
  <2> HIDE DEF b
  <2> QED BY <1>1, <1>3 DEF Fits
<1>6. t.blob = b
  <2>1. k.target = [type |-> k.target.type, blob |-> k.target.blob,
                    platform |-> k.target.platform]
    BY <1>1 DEF Fits
  <2> HIDE DEF b
  <2> QED BY <1>2, <2>1
<1>7. b.manifests = k.out /\ b.kind = "index"
  BY DEF Index
<1>8. Formatted(w)
  <2> HIDE DEF b
  <2> QED BY <1>1, <1>5, <1>6, <1>7 DEF Formatted, TarLayers, Converting
<1>9. DiffIDsOfLayers'
  <2>1. Put(b, BlobsOf(k.out), FALSE)
    BY DEF WriteIndex
  <2> HIDE DEF b
  <2> QED BY <2>1, PutDiffIDs DEF Formats
<1> QED BY <1>4, <1>8, <1>9, FormatStep DEF WriteIndex

(* The image that has the name goes. *)
LEMMA DeleteImageFormats ==
    ASSUME IndInv, Formats, NEW c \in Converters, DeleteImage(c)
    PROVE  Formats'
<1>1. PICK w : w = [worker[c] EXCEPT !.pc = "create"]
  OBVIOUS
<1>2. worker' = [worker EXCEPT ![c] = w]
  BY <1>1 DEF DeleteImage
<1>3. Formatted(worker[c]) /\ worker[c].pc = "delete" /\ Fits(worker[c])
  BY DEF DeleteImage, At, Formats, IndInv, WorkersOK
<1>4. /\ w.pc = "create" /\ w.out = worker[c].out /\ w.target = worker[c].target
  BY <1>1, <1>3 DEF Fits
<1>5. Formatted(w)
  BY <1>3, <1>4 DEF Formatted, TarLayers, Converting
<1>6. \A e \in Converters : worker'[e] = worker[e] \/ worker'[e] = w
  BY <1>2 DEF IndInv, WorkersOK
<1>7. \A e \in Converters : Formatted(worker'[e])
  BY <1>5, <1>6 DEF Formats
<1>8. \A s \in Names : converted'[s] = converted[s] \/ converted'[s] = NoTarget
  BY DEF DeleteImage, IndInv, Tables
<1>9. ~IsIndex(NoTarget)
  BY DEF IsIndex, NoTarget
<1>10. NativeFormat'
  BY <1>8, <1>9 DEF Formats, NativeFormat
<1>11. DiffIDsOfLayers'
  BY DEF Formats, DiffIDsOfLayers, DeleteImage
<1> QED BY <1>7, <1>10, <1>11 DEF Formats, Formatted, TarLayers

(* What becomes the converted image is that index. *)
LEMMA CreateImageFormats ==
    ASSUME IndInv, Formats, NEW c \in Converters, CreateImage(c)
    PROVE  Formats'
<1> DEFINE k == worker[c]
<1>1. /\ k.pc = "create"
      /\ IsIndex(k.target) => Paired(k.target.blob.manifests)
  BY DEF CreateImage, At, Formats, Formatted
<1>2. \A s \in Names : converted'[s] = converted[s] \/ converted'[s] = k.target
  BY DEF CreateImage, IndInv, Tables
<1>3. \A s \in Names : IsIndex(converted'[s]) => Paired(converted'[s].blob.manifests)
  BY <1>1, <1>2, NativeIsPaired DEF Formats
<1>4. NativeFormat'
  BY <1>3 DEF NativeFormat, Paired
<1>5. \A e \in Converters : worker'[e] = worker[e] \/ worker'[e] = Idle
  BY DEF CreateImage, End, IndInv, WorkersOK
<1>6. \A e \in Converters : Formatted(worker'[e])
  BY <1>5, IdleFormatted DEF Formats
<1>7. DiffIDsOfLayers'
  BY DEF Formats, DiffIDsOfLayers, CreateImage
<1> QED BY <1>4, <1>6, <1>7 DEF Formats, Formatted, TarLayers

(* Collections and removals format nothing. *)
LEMMA ContainerdFormats ==
    ASSUME IndInv, Formats,
           LeasesExpire \/ CollectGarbage
             \/ \E s \in Names : RemoveImage(s) \/ RemoveConverted(s)
    PROVE  Formats'
<1>1. UNCHANGED worker
  BY DEF LeasesExpire, CollectGarbage, RemoveImage, RemoveConverted
<1>2. DOMAIN store' \subseteq DOMAIN store /\ \A b \in DOMAIN store' : store'[b] = store[b]
  BY DEF LeasesExpire, CollectGarbage, RemoveImage, RemoveConverted, Live
<1>3. DiffIDsOfLayers'
  BY <1>2 DEF Formats, DiffIDsOfLayers
<1>4. \A s \in Names : converted'[s] = converted[s] \/ converted'[s] = NoTarget
  BY DEF LeasesExpire, CollectGarbage, RemoveImage, RemoveConverted, IndInv, Tables
<1>5. ~IsIndex(NoTarget)
  BY DEF IsIndex, NoTarget
<1>6. NativeFormat'
  BY <1>4, <1>5 DEF Formats, NativeFormat
<1> QED BY <1>1, <1>3, <1>6 DEF Formats, Formatted, TarLayers

(* Nothing is converted at first. *)
LEMMA InitFormats == Init => Formats
<1> SUFFICES ASSUME Init PROVE Formats
  OBVIOUS
<1>1. \A c \in Converters : worker[c] = Idle
  BY DEF Init
<1>2. \A s \in Names : ~IsIndex(converted[s])
  BY DEF Init, IsIndex, NoTarget
<1>3. \A b : Pulled(b).uncompressed => b.kind \in {"tar", "erofs"}
  BY DEF Pulled
<1>4. DiffIDsOfLayers
  BY <1>3 DEF Init, DiffIDsOfLayers
<1> QED BY <1>1, <1>2, <1>4, IdleFormatted DEF Formats, NativeFormat

(* Every step keeps the formats. *)
LEMMA NextFormats ==
    ASSUME NoneNative, IndInv, Formats, [Next]_vars
    PROVE  Formats'
<1>1. CASE \E c \in Converters : Step(c)
  <2> SUFFICES ASSUME NEW c \in Converters, Step(c) PROVE Formats'
    BY <1>1
  <2>1. CASE ReadFails(c) \/ CreateFails(c) \/ Interrupt(c)
    <3>1. UNCHANGED <<store, converted>> /\ End(c)
      BY <2>1 DEF ReadFails, CreateFails, Interrupt
    <3>2. DiffIDsOfLayers'
      BY <3>1 DEF Formats, DiffIDsOfLayers
    <3> QED BY <3>1, <3>2, IdleFormatted, FormatStep DEF End
  <2> QED BY <2>1, ConvertFormats, NextManifestFormats, ConvertLayerFormats, DiffIDFormats,
             WritePartsFormats, WriteLegacyFormats, WriteIndexFormats, DeleteImageFormats,
             CreateImageFormats DEF Step
<1>2. CASE UNCHANGED vars
  BY <1>2 DEF vars, Formats, DiffIDsOfLayers, Formatted, TarLayers, NativeFormat
<1> QED BY <1>1, <1>2, ContainerdFormats DEF Next

(* What an index of a converted image lists is in the native format, when  *)
(* no source is native already: a legacy manifest right before its EROFS   *)
(* manifest, layer for layer; whatever conversions run beside it, are      *)
(* interrupted or fail.  (dual_manifest.go convertSingleManifest)          *)
THEOREM ConvertedAreNative ==
    ASSUME NoneNative
    PROVE  Spec => []NativeFormat
<1>1. Init => IndInv /\ Formats
  BY InitOK, InitFormats
<1>2. (IndInv /\ Formats) /\ [Next]_vars => (IndInv /\ Formats)'
  BY NextOK, NextFormats
<1>3. IndInv /\ Formats => NativeFormat
  BY DEF Formats
<1> QED BY <1>1, <1>2, <1>3, PTL DEF Spec
=============================================================================
