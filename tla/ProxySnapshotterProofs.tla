----------------------- MODULE ProxySnapshotterProofs -----------------------
(***************************************************************************)
(* Proofs about ProxySnapshotter, for any number of handlers, keys, images *)
(* and snapshots.                                                          *)
(***************************************************************************)
EXTENDS ProxySnapshotter, SequenceTheorems, TLAPS

-----------------------------------------------------------------------------
(* Chains. *)

(* A chain ID lists the first layers of some image, at least one. *)
LEMMA ChainShape ==
    ASSUME NEW c \in Chains
    PROVE  /\ c \in Seq(Layers)
           /\ Len(c) \in Nat \ {0}
           /\ \E im \in Images :
                 /\ Len(c) <= Len(LegacyLayers[im])
                 /\ \A i \in 1..Len(c) : c[i] = LegacyLayers[im][i]
<1>0. PICK im \in Images :
         c \in {SubSeq(LegacyLayers[im], 1, n) : n \in 1..Len(LegacyLayers[im])}
  BY DEF Chains
<1>1. PICK n \in 1..Len(LegacyLayers[im]) : c = SubSeq(LegacyLayers[im], 1, n)
  BY <1>0
<1>2. LegacyLayers[im] \in Seq(Layers)
  BY ImageAssumption
<1>3. n \in Int /\ 1 \in Int /\ 1 <= n /\ n <= Len(LegacyLayers[im])
  BY <1>2
<1>4. \A i \in 1..n : LegacyLayers[im][i] \in Layers
  BY <1>2, <1>3
<1>5. /\ c \in Seq(Layers)
      /\ Len(c) = n
      /\ \A i \in 1..n : c[i] = LegacyLayers[im][i]
  BY <1>1, <1>3, <1>4, SubSeqProperties
<1> QED
  BY <1>3, <1>5

(* The EROFS manifest of a native image has one layer per legacy layer. *)
LEMMA NativeLayers ==
    ASSUME NEW m \in Native
    PROVE  /\ LegacyLayers[m] \in Seq(Layers)
           /\ Len(LegacyLayers[m]) \in Nat \ {0}
           /\ ErofsManifest[m] = LegacyLayers[m]
  BY ImageAssumption DEF ErofsManifest

(* If shared bases agree, the layer selected for a chain by a manifest and *)
(* an index that describe it is the chain's own top layer.                 *)
LEMMA SelectedLayer ==
    ASSUME SharedBasesAgree,
           NEW c \in Chains, NEW m, NEW i \in Nat,
           Describes(m, i, c), i < Len(LegacyLayers[m])
    PROVE  ErofsManifest[m][i + 1] = Top(c)
<1>1. m \in Native /\ i + 1 = Len(c) /\ c[1] = LegacyLayers[m][1]
  BY DEF Describes
<1>2. PICK im \in Images :
         /\ Len(c) <= Len(LegacyLayers[im])
         /\ \A j \in 1..Len(c) : c[j] = LegacyLayers[im][j]
  BY ChainShape
<1>3. Len(LegacyLayers[m]) \in Nat /\ Len(LegacyLayers[im]) \in Nat
  BY <1>1, ImageAssumption
<1>4. i + 1 \in (1..Len(LegacyLayers[m])) \cap (1..Len(LegacyLayers[im]))
  BY <1>1, <1>2, <1>3
<1>5. LegacyLayers[im][1] = LegacyLayers[m][1]
  BY <1>1, <1>2
<1>6. LegacyLayers[im][i + 1] = LegacyLayers[m][i + 1]
  BY <1>1, <1>4, <1>5 DEF SharedBasesAgree
<1>7. c[i + 1] = LegacyLayers[im][i + 1]
  BY <1>1, <1>2
<1> QED
  BY <1>1, <1>6, <1>7, NativeLayers DEF Top

(* A chain's parent, if it is a chain, is one layer shorter and begins     *)
(* like it.                                                                *)
LEMMA ParentShape ==
    ASSUME NEW c \in Chains, Parent(c) \in Chains
    PROVE  Len(Parent(c)) + 1 = Len(c) /\ Parent(c)[1] = c[1]
<1>1. Len(c) \in Nat \ {0} /\ Len(Parent(c)) \in Nat \ {0} /\ c \in Seq(Layers)
  BY ChainShape
<1>2. \A i \in 1..(Len(c) - 1) : c[i] \in Layers
  BY <1>1
<1>3. /\ Len(Parent(c)) = IF 1 <= Len(c) - 1 THEN Len(c) - 1 - 1 + 1 ELSE 0
      /\ \A i \in 1..(Len(c) - 1 - 1 + 1) : Parent(c)[i] = c[1 + i - 1]
  BY <1>1, <1>2, SubSeqProperties DEF Parent
<1> QED
  BY <1>1, <1>3

-----------------------------------------------------------------------------
(* Steps of one handler that change neither snapshots nor files. *)

Quiet(w) ==
    /\ UNCHANGED <<base, file>>
    /\ \A v \in Workers \ {w} : worker'[v] = worker[v]
    /\ worker'[w].pc \in Holding =>
          worker[w].pc \in Holding /\ worker'[w].key = worker[w].key

(* A step that is quiet for the other handlers keeps the invariant if it    *)
(* keeps types and what its own handler must satisfy.                       *)
LEMMA QuietStep ==
    ASSUME IndInv, NEW w \in Workers, Quiet(w), TypeOK', HandlerOK(w)'
    PROVE  IndInv'
<1>1. \A v \in Workers : HandlerOK(v)'
  <2> SUFFICES ASSUME NEW v \in Workers, v # w PROVE HandlerOK(v)'
    OBVIOUS
  <2> QED
    BY DEF IndInv, HandlerOK, Quiet, Ready, HasFile, base
<1>2. KeysHeldApart'
  BY DEF IndInv, KeysHeldApart, Quiet
<1>3. IdsApart' /\ LabelsOK' /\ ChainContent'
  BY DEF IndInv, IdsApart, LabelsOK, ChainContent, Quiet, base, Published,
         IsProxy, HasFile
<1> QED
  BY <1>1, <1>2, <1>3 DEF IndInv

(* The step names the handlers go to are steps. *)
LEMMA StepNames ==
    /\ {"idle", "resolve", "delegate", "manifest", "base", "materialize", "bind",
        "put", "commit", "unbind", "undo", "apply", "extracted", "baseRemove",
        "revoke"} \subseteq Steps
  BY DEF Steps, PrepareSteps, ClientSteps, RemoveSteps

(* The locals of a handler at rest are typed. *)
LEMMA IdleTyped == Idle \in Handlers
<1>1. <<>> \in Chains \cup {<<>>}
  OBVIOUS
<1>2. 0 \in SnapIds
  BY BoundAssumption DEF SnapIds
<1> QED
  BY <1>1, <1>2, StepNames DEF Idle, Handlers

(* Moving a handler to a step keeps the handlers typed. *)
LEMMA GotoTyped ==
    ASSUME TypeOK, NEW w \in Workers, NEW pc \in Steps, Goto(w, pc)
    PROVE  worker' \in [Workers -> Handlers]
<1>1. worker \in [Workers -> Handlers]
  BY DEF TypeOK
<1>2. [worker[w] EXCEPT !.pc = pc] \in Handlers
  BY <1>1 DEF Handlers
<1> QED
  BY <1>1, <1>2 DEF Goto

(* So does selecting a manifest and an index (resolveProxyTarget). *)
LEMMA SelectTyped ==
    ASSUME TypeOK, NEW w \in Workers, NEW m \in Native, NEW i \in Nat,
           worker' = [worker EXCEPT ![w].pc = "manifest",
                                    ![w].manifest = m, ![w].index = i]
    PROVE  worker' \in [Workers -> Handlers]
<1>1. "manifest" \in Steps
  BY StepNames
<1>2. [worker[w] EXCEPT !.pc = "manifest", !.manifest = m, !.index = i] \in Handlers
  <2>1. worker[w] \in Handlers
    BY DEF TypeOK
  <2> QED
    BY <1>1, <2>1 DEF Handlers
<1> QED
  BY <1>2 DEF TypeOK

(* A step that changes only handlers keeps the type invariant. *)
LEMMA LocalsTyped ==
    ASSUME TypeOK, UNCHANGED <<base, file, local, lazyd, crashes>>,
           worker' \in [Workers -> Handlers]
    PROVE  TypeOK'
  BY DEF TypeOK, base, lazyd

(* Prepare until it has a snapshot, and its failures before that. *)
LEMMA RequestStep ==
    ASSUME IndInv, NEW w \in Workers, NEW k \in Keys, NEW im \in Images,
           NEW n \in 1..Len(LegacyLayers[im]), PrepareStat(w, k, im, n)
    PROVE  IndInv'
<1> DEFINE target == SubSeq(LegacyLayers[im], 1, n)
<1>1. target \in Chains
  BY DEF Chains
<1>2. target[1] = LegacyLayers[im][1]
  <2>1. LegacyLayers[im] \in Seq(Layers) /\ n \in Int /\ 1 <= n
    BY ImageAssumption
  <2>2. \A i \in 1..n : LegacyLayers[im][i] \in Layers
    BY <2>1
  <2> QED
    BY <2>1, <2>2, SubSeqProperties
<1>3. TypeOK'
  <2>1. [Idle EXCEPT !.pc = "resolve", !.key = k, !.target = target, !.image = im]
           \in Handlers
    BY <1>1, IdleTyped, StepNames DEF Handlers
  <2>2. worker' \in [Workers -> Handlers]
    BY <2>1 DEF IndInv, TypeOK, PrepareStat
  <2> QED
    BY <2>2, LocalsTyped DEF IndInv, PrepareStat
<1>4. /\ worker'[w].pc = "resolve" /\ worker'[w].key = k
      /\ worker'[w].target = target /\ worker'[w].image = im
  BY DEF IndInv, TypeOK, PrepareStat, Idle
<1>5. HandlerOK(w)'
  BY <1>1, <1>2, <1>4 DEF HandlerOK, RemoveSteps, Holding, Selected, ClientSteps
<1>6. Quiet(w)
  BY <1>4 DEF IndInv, TypeOK, PrepareStat, Quiet, Holding, ClientSteps, base
<1> QED
  BY <1>3, <1>5, <1>6, QuietStep

(* resolveProxyTarget keeps the invariant, whichever way it finds the       *)
(* target.                                                                  *)
LEMMA ResolveStep ==
    ASSUME IndInv, NEW w \in Workers,
           ResolveAnnotation(w) \/ ResolveParent(w) \/ ResolveNone(w)
    PROVE  IndInv'
<1> DEFINE r == worker[w]
           p == Parent(r.target)
<1>1. /\ r.pc = "resolve" /\ r.target \in Chains /\ r.key \in Keys
      /\ r.target[1] = LegacyLayers[r.image][1]
  BY DEF IndInv, HandlerOK, PrepareSteps, ResolveAnnotation, ResolveParent,
         ResolveNone, At
<1>2. CASE ResolveAnnotation(w)
  <2>1. Describes(r.image, 0, r.target)
    BY <1>1, <1>2 DEF ResolveAnnotation, Annotated, Describes
  <2>2. /\ worker'[w].pc = "manifest" /\ worker'[w].key = r.key
        /\ worker'[w].target = r.target
        /\ worker'[w].manifest = r.image /\ worker'[w].index = 0
    BY <1>2 DEF IndInv, TypeOK, ResolveAnnotation
  <2>3. TypeOK'
    <3>1. worker' \in [Workers -> Handlers]
      BY <1>2, SelectTyped DEF IndInv, ResolveAnnotation, Annotated
    <3> QED
      BY <1>2, <3>1, LocalsTyped DEF IndInv, ResolveAnnotation
  <2>4. HandlerOK(w)'
    BY <1>1, <2>1, <2>2 DEF HandlerOK, RemoveSteps, Holding, Selected, ClientSteps
  <2>5. Quiet(w)
    BY <1>2, <2>2 DEF IndInv, TypeOK, ResolveAnnotation, Quiet, Holding,
                      ClientSteps, base
  <2> QED
    BY <2>3, <2>4, <2>5, QuietStep
<1>3. CASE ResolveParent(w)
  <2>1. p \in Chains /\ IsProxy(p)
    BY <1>3 DEF ResolveParent, IsProxy, Published, IndInv, TypeOK
  <2>2. /\ Describes(committed[p].manifest, committed[p].index, p)
        /\ committed[p].manifest \in Native /\ committed[p].index \in Nat
    BY <2>1 DEF IndInv, LabelsOK, TypeOK, Describes
  <2>3. Describes(committed[p].manifest, committed[p].index + 1, r.target)
    BY <1>1, <2>1, <2>2, ParentShape DEF Describes
  <2>4. /\ worker'[w].pc = "manifest" /\ worker'[w].key = r.key
        /\ worker'[w].target = r.target
        /\ worker'[w].manifest = committed[p].manifest
        /\ worker'[w].index = committed[p].index + 1
    BY <1>3 DEF IndInv, TypeOK, ResolveParent
  <2>5. TypeOK'
    <3>1. worker' \in [Workers -> Handlers]
      <4>1. committed[p].index + 1 \in Nat /\ TypeOK
        BY <2>2 DEF IndInv
      <4> QED
        BY <1>3, <2>2, <4>1, SelectTyped DEF ResolveParent
    <3> QED
      BY <1>3, <3>1, LocalsTyped DEF IndInv, ResolveParent
  <2>6. HandlerOK(w)'
    BY <1>1, <2>3, <2>4 DEF HandlerOK, RemoveSteps, Holding, Selected, ClientSteps
  <2>7. Quiet(w)
    BY <1>3, <2>4 DEF IndInv, TypeOK, ResolveParent, Quiet, Holding, ClientSteps,
                      base
  <2> QED
    BY <2>5, <2>6, <2>7, QuietStep
<1>4. CASE ResolveNone(w)
  <2>1. /\ worker'[w].pc = "delegate" /\ worker'[w].key = r.key
        /\ worker'[w].target = r.target
    BY <1>4 DEF IndInv, TypeOK, ResolveNone, Goto
  <2>2. TypeOK'
    <3>1. worker' \in [Workers -> Handlers]
      BY <1>4, StepNames, GotoTyped DEF IndInv, ResolveNone
    <3> QED
      BY <1>4, <3>1, LocalsTyped DEF IndInv, ResolveNone
  <2>3. HandlerOK(w)'
    BY <1>1, <2>1 DEF HandlerOK, RemoveSteps, Holding, Selected, ClientSteps
  <2>4. Quiet(w)
    BY <1>4, <2>1 DEF IndInv, TypeOK, ResolveNone, Goto, Quiet, Holding,
                      ClientSteps, base
  <2> QED
    BY <2>2, <2>3, <2>4, QuietStep
<1> QED
  BY <1>2, <1>3, <1>4

(* A handler that returns, with nothing changed but lazyd's state. *)
LEMMA ReturnTyped ==
    ASSUME TypeOK, NEW w \in Workers, Return(w)
    PROVE  worker' \in [Workers -> Handlers] /\ worker'[w] = Idle
  BY IdleTyped DEF TypeOK, Return

(* A handler that returns and leaves snapshots and files alone keeps the    *)
(* invariant.                                                               *)
LEMMA ReturnStep ==
    ASSUME IndInv, NEW w \in Workers, Return(w), UNCHANGED <<base, file>>, TypeOK'
    PROVE  IndInv'
<1>1. worker'[w] = Idle
  BY ReturnTyped DEF IndInv
<1>2. HandlerOK(w)'
  BY <1>1 DEF HandlerOK, Idle, RemoveSteps, PrepareSteps, Holding, Selected,
              ClientSteps
<1>3. Quiet(w)
  BY <1>1 DEF Quiet, Return, Idle, Holding, ClientSteps, IndInv, TypeOK
<1> QED
  BY <1>2, <1>3, QuietStep

(* In particular one that returns and changes nothing else. *)
LEMMA QuietReturn ==
    ASSUME IndInv, NEW w \in Workers, Return(w),
           UNCHANGED <<base, file, local, lazyd, crashes>>
    PROVE  IndInv'
<1>1. worker' \in [Workers -> Handlers]
  BY ReturnTyped DEF IndInv
<1>2. TypeOK'
  BY <1>1, LocalsTyped DEF IndInv
<1> QED
  BY <1>2, ReturnStep

(* A handler that fails after it prepared a key goes to its cleanup, with  *)
(* the key and the snapshot id it has.                                     *)
LEMMA CleanupStep ==
    ASSUME IndInv, NEW w \in Workers, UNCHANGED <<base, file>>, TypeOK',
           worker[w].pc \in Holding \cap PrepareSteps,
           Goto(w, "unbind") \/ Goto(w, "undo")
    PROVE  IndInv'
<1>1. /\ worker'[w].pc \in {"unbind", "undo"}
      /\ worker'[w].key = worker[w].key /\ worker'[w].target = worker[w].target
      /\ worker'[w].id = worker[w].id
      /\ \A v \in Workers \ {w} : worker'[v] = worker[v]
  BY DEF Goto, IndInv, TypeOK, Handlers
<1>2. HandlerOK(w)'
  BY <1>1 DEF IndInv, HandlerOK, RemoveSteps, PrepareSteps, Holding, Selected,
              ClientSteps, base
<1>3. Quiet(w)
  BY <1>1 DEF Quiet, Holding
<1> QED
  BY <1>2, <1>3, QuietStep

(* Prepare entering its deferred cleanup keeps the invariant. *)
LEMMA FailStep ==
    ASSUME IndInv, NEW w \in Workers, UNCHANGED <<base, file>>, Fail(w),
           worker[w].pc \in Holding \cap PrepareSteps,
           instance' \in [Chains -> [id : SnapIds, layer : Layers \cup {NoLayer}]],
           leaked' \subseteq Chains, forgotten' \subseteq Ids,
           UNCHANGED <<local, listener, contested, crashes>>
    PROVE  IndInv'
<1>1. TypeOK'
  <2>1. worker' \in [Workers -> Handlers]
    BY StepNames, GotoTyped DEF IndInv, Fail
  <2> QED
    BY <2>1 DEF IndInv, TypeOK, base
<1>2. Goto(w, "unbind") \/ Goto(w, "undo")
  BY DEF Fail
<1> QED
  BY <1>1, <1>2, CleanupStep

(* validateAndSelectLayer keeps the invariant, and leaves an index inside   *)
(* the manifest.                                                            *)
LEMMA SelectStep ==
    ASSUME IndInv, NEW w \in Workers, SelectLayer(w) \/ SelectFails(w)
    PROVE  IndInv'
<1> DEFINE r == worker[w]
<1>1. CASE SelectLayer(w)
  <2>1. /\ r.pc = "manifest" /\ r.key \in Keys /\ r.target \in Chains
        /\ Describes(r.manifest, r.index, r.target)
        /\ r.index < Len(LegacyLayers[r.manifest])
    <3>1. /\ r.pc = "manifest" /\ r.key \in Keys /\ r.target \in Chains
          /\ Describes(r.manifest, r.index, r.target)
      BY <1>1 DEF SelectLayer, At, IndInv, HandlerOK, PrepareSteps
    <3>2. ErofsManifest[r.manifest] = LegacyLayers[r.manifest]
      BY <3>1, NativeLayers DEF Describes
    <3> QED
      BY <1>1, <3>1, <3>2 DEF SelectLayer
  <2>2. /\ worker'[w].pc = "base" /\ worker'[w].key = r.key
        /\ worker'[w].target = r.target
        /\ worker'[w].manifest = r.manifest /\ worker'[w].index = r.index
        /\ \A v \in Workers \ {w} : worker'[v] = worker[v]
    BY <1>1 DEF SelectLayer, Goto, IndInv, TypeOK, Handlers
  <2>3. TypeOK'
    BY <1>1, StepNames, GotoTyped, LocalsTyped DEF SelectLayer, IndInv
  <2>4. HandlerOK(w)'
    BY <2>1, <2>2 DEF HandlerOK, RemoveSteps, Holding, Selected, ClientSteps
  <2>5. Quiet(w)
    BY <1>1, <2>2 DEF SelectLayer, Quiet, Holding, ClientSteps
  <2> QED
    BY <2>3, <2>4, <2>5, QuietStep
<1>2. CASE SelectFails(w)
  BY <1>2, QuietReturn DEF SelectFails
<1> QED
  BY <1>1, <1>2

-----------------------------------------------------------------------------
(* Steps that give out a snapshot id. *)

(* What a handler that holds a prepared key knows of its key, chain and     *)
(* id.                                                                      *)
LEMMA Held ==
    ASSUME IndInv, NEW w \in Workers, worker[w].pc \in Holding
    PROVE  /\ worker[w].key \in Keys /\ worker[w].target \in Chains
           /\ worker[w].id \in Ids /\ active[worker[w].key].id = worker[w].id
           /\ worker[w].id # 0
           /\ worker[w].pc \notin RemoveSteps
<1>1. /\ worker[w].pc \in PrepareSteps \cup ClientSteps
      /\ worker[w].pc \notin RemoveSteps
  BY DEF Holding, PrepareSteps, ClientSteps, RemoveSteps
<1>2. HandlerOK(w)
  BY DEF IndInv
<1>3. 0 \notin Ids
  BY BoundAssumption DEF Ids
<1> QED
  BY <1>1, <1>2, <1>3 DEF HandlerOK

(* base.Prepare gives out a fresh id, with no file, to a key nobody holds. *)
LEMMA BasePrepareStep ==
    ASSUME IndInv, NEW w \in Workers, BasePrepare(w)
    PROVE  IndInv'
<1> DEFINE r == worker[w]
           p == Parent(r.target)
           k == r.key
<1>1. /\ r.pc \in {"base", "delegate"} /\ k \in Keys /\ r.target \in Chains
      /\ nextId \in Ids /\ nextId' = nextId + 1
      /\ active[k].id = 0
      /\ p \in Chains \cup {<<>>}
  <2>1. /\ r.pc \in {"base", "delegate"} /\ nextId \in Ids /\ nextId' = nextId + 1
        /\ active[k].id = 0 /\ (p = <<>> \/ Published(p))
    BY DEF BasePrepare, CanBasePrepare
  <2> QED
    BY <2>1 DEF IndInv, HandlerOK, PrepareSteps, TypeOK, Published
<1>2. /\ active' \in [Keys -> [id : SnapIds, parent : Chains \cup {<<>>}]]
      /\ active'[k].id = nextId
      /\ \A j \in Keys \ {k} : active'[j] = active[j]
  <2>1. [id |-> nextId, parent |-> p] \in [id : SnapIds, parent : Chains \cup {<<>>}]
    BY <1>1, BoundAssumption DEF Ids, SnapIds
  <2> QED
    BY <1>1, <2>1 DEF BasePrepare, IndInv, TypeOK
<1>3. /\ worker' \in [Workers -> Handlers]
      /\ r.pc = "base" => worker'[w].pc = "materialize"
      /\ r.pc = "delegate" => worker'[w].pc = "apply"
      /\ worker'[w].id = nextId
      /\ worker'[w].key = k /\ worker'[w].target = r.target
      /\ worker'[w].manifest = r.manifest /\ worker'[w].index = r.index
      /\ \A v \in Workers \ {w} : worker'[v] = worker[v]
  <2> DEFINE pc == IF At(w, "base") THEN "materialize" ELSE "apply"
             new == [r EXCEPT !.pc = pc, !.id = nextId]
  <2>1. pc \in Steps /\ nextId \in SnapIds
    BY <1>1, StepNames, BoundAssumption DEF Ids, SnapIds
  <2>2. new \in Handlers
    <3>1. r \in Handlers
      BY DEF IndInv, TypeOK
    <3> HIDE DEF pc
    <3> QED
      BY <2>1, <3>1 DEF Handlers
  <2>3. worker' = [worker EXCEPT ![w] = new]
    BY DEF BasePrepare, IndInv, TypeOK
  <2> QED
    BY <1>1, <2>2, <2>3 DEF At, IndInv, TypeOK, Handlers
<1>4. UNCHANGED <<committed, file, local, lazyd, crashes>>
  BY DEF BasePrepare
<1>5. TypeOK'
  BY <1>1, <1>2, <1>3, <1>4, BoundAssumption DEF IndInv, TypeOK, lazyd, Ids
<1>6. IdsApart'
  <2>1. \A j \in Keys : active[j].id \in Nat /\ active[j].id < nextId
    BY BoundAssumption DEF IndInv, IdsApart, TypeOK, SnapIds
  <2>2. \A c \in Chains : committed[c].id \in Nat /\ committed[c].id < nextId
    BY BoundAssumption DEF IndInv, IdsApart, TypeOK, SnapIds
  <2>3. nextId \in Nat
    BY <1>1, BoundAssumption DEF Ids
  <2> QED
    BY <1>1, <1>2, <1>4, <2>1, <2>2, <2>3, BoundAssumption
       DEF IndInv, IdsApart, Published, HasFile, Ids
<1>7. LabelsOK' /\ ChainContent'
  BY <1>4 DEF IndInv, LabelsOK, ChainContent, IsProxy, Published
<1>8. \A v \in Workers \ {w} : worker[v].pc \in Holding => worker[v].key # k
  BY <1>1, Held
<1>9. KeysHeldApart'
  BY <1>1, <1>3, <1>8 DEF IndInv, KeysHeldApart
<1>10. \A v \in Workers : HandlerOK(v)'
  <2>1. HandlerOK(w)'
    <3>1. worker'[w].pc \in {"materialize", "apply"}
      BY <1>1, <1>3
    <3>2. r.pc = "base" => /\ Describes(r.manifest, r.index, r.target)
                           /\ r.index < Len(LegacyLayers[r.manifest])
      BY DEF IndInv, HandlerOK, Selected
    <3>3. file[nextId].state = "none"
      BY <1>1, BoundAssumption DEF IndInv, IdsApart, Ids, HasFile
    <3>4. file'[worker'[w].id].state = "none"
      BY <1>3, <1>4, <3>3
    <3> QED
      BY <1>1, <1>2, <1>3, <3>1, <3>2, <3>4
         DEF HandlerOK, RemoveSteps, ClientSteps, Selected, Describes, HasFile
  <2>2. ASSUME NEW v \in Workers, v # w PROVE HandlerOK(v)'
    BY <1>2, <1>3, <1>4, <1>8, <2>2
       DEF IndInv, HandlerOK, Ready, HasFile, Holding, PrepareSteps, ClientSteps
  <2> QED
    BY <2>1, <2>2
<1> QED
  BY <1>5, <1>6, <1>7, <1>9, <1>10 DEF IndInv

(* So does the Prepare of a container's own snapshot, which no handler      *)
(* holds.                                                                   *)
LEMMA ContainerStep ==
    ASSUME IndInv, NEW k \in Keys, NEW c \in Chains, PrepareContainer(k, c)
    PROVE  IndInv'
<1>1. /\ active[k].id = 0 /\ nextId \in Ids /\ nextId' = nextId + 1
      /\ active' = [active EXCEPT ![k] = [id |-> nextId, parent |-> c]]
      /\ UNCHANGED <<committed, file, local, lazyd, crashes, worker>>
  BY DEF PrepareContainer
<1>2. /\ active' \in [Keys -> [id : SnapIds, parent : Chains \cup {<<>>}]]
      /\ active'[k].id = nextId
      /\ \A j \in Keys \ {k} : active'[j] = active[j]
  <2>1. [id |-> nextId, parent |-> c] \in [id : SnapIds, parent : Chains \cup {<<>>}]
    BY <1>1, BoundAssumption DEF Ids, SnapIds
  <2> QED
    BY <1>1, <2>1 DEF IndInv, TypeOK
<1>3. TypeOK'
  BY <1>1, <1>2, BoundAssumption DEF IndInv, TypeOK, lazyd, Ids
<1>4. IdsApart'
  <2>1. \A j \in Keys : active[j].id \in Nat /\ active[j].id < nextId
    BY BoundAssumption DEF IndInv, IdsApart, TypeOK, SnapIds
  <2>2. \A d \in Chains : committed[d].id \in Nat /\ committed[d].id < nextId
    BY BoundAssumption DEF IndInv, IdsApart, TypeOK, SnapIds
  <2>3. nextId \in Nat
    BY <1>1, BoundAssumption DEF Ids
  <2> QED
    BY <1>1, <1>2, <2>1, <2>2, <2>3, BoundAssumption
       DEF IndInv, IdsApart, Published, HasFile, Ids
<1>5. LabelsOK' /\ ChainContent' /\ KeysHeldApart'
  BY <1>1 DEF IndInv, LabelsOK, ChainContent, KeysHeldApart, IsProxy, Published
<1>6. ASSUME NEW v \in Workers PROVE HandlerOK(v)'
  <2>1. worker[v].pc \in Holding => worker[v].key # k
    BY <1>1, Held
  <2> QED
    BY <1>1, <1>2, <2>1
       DEF IndInv, HandlerOK, Ready, HasFile, Holding, PrepareSteps, ClientSteps
<1> QED
  BY <1>3, <1>4, <1>5, <1>6 DEF IndInv

-----------------------------------------------------------------------------
(* Steps of a handler that write the file of the snapshot it holds, or     *)
(* leave it.                                                               *)

Fills(w) ==
    /\ worker[w].pc \in Holding /\ worker'[w].pc \in Holding
    /\ worker'[w].key = worker[w].key
    /\ \A v \in Workers \ {w} : worker'[v] = worker[v]
    /\ \E f \in Files : file' = [file EXCEPT ![worker[w].id] = f]
    /\ UNCHANGED base

(* A handler that changes the file of its own snapshot keeps the            *)
(* invariant.                                                               *)
LEMMA FillStep ==
    ASSUME IndInv, NEW w \in Workers, Fills(w), TypeOK', HandlerOK(w)'
    PROVE  IndInv'
<1> DEFINE i == worker[w].id
<1>1. i \in Ids /\ active[worker[w].key].id = i /\ i # 0 /\ worker[w].key \in Keys
  BY Held DEF Fills
<1>2. \A j \in Ids \ {i} : file'[j] = file[j]
  BY DEF Fills, IndInv, TypeOK
<1>3. i < nextId /\ i \in Nat
  BY <1>1, BoundAssumption DEF IndInv, IdsApart, Ids
<1>4. \A c \in Chains : Published(c) => committed[c].id \in Ids \ {i}
  <2> SUFFICES ASSUME NEW c \in Chains, Published(c)
               PROVE  committed[c].id \in Ids \ {i}
    OBVIOUS
  <2>1. committed[c].id \in Ids
    BY BoundAssumption DEF IndInv, TypeOK, Published, SnapIds, Ids
  <2>2. committed[c].id # i
    BY <1>1 DEF IndInv, IdsApart
  <2> QED
    BY <2>1, <2>2
<1>5. ChainContent'
  BY <1>2, <1>4 DEF IndInv, ChainContent, Fills, base, Published
<1>6. LabelsOK' /\ KeysHeldApart'
  BY DEF IndInv, LabelsOK, KeysHeldApart, Fills, base, Published, IsProxy
<1>7. IdsApart'
  <2>1. nextId \in Nat
    BY BoundAssumption DEF IndInv, TypeOK
  <2> QED
    BY <1>2, <1>3, <2>1, BoundAssumption
       DEF IndInv, IdsApart, Fills, base, Published, HasFile, Ids
<1>8. ASSUME NEW v \in Workers, v # w PROVE HandlerOK(v)'
  <2>1. worker'[v] = worker[v]
    BY <1>8 DEF Fills
  <2>2. worker[v].pc \in Holding => file'[worker[v].id] = file[worker[v].id]
    <3> SUFFICES ASSUME worker[v].pc \in Holding
                 PROVE  file'[worker[v].id] = file[worker[v].id]
      OBVIOUS
    <3>1. worker[v].key # worker[w].key
      BY <1>8 DEF IndInv, KeysHeldApart, Fills
    <3>2. worker[v].id # i
      BY <1>1, <3>1, Held DEF IndInv, IdsApart
    <3> QED
      BY <1>2, <3>2, Held
  <2> QED
    BY <2>1, <2>2 DEF IndInv, HandlerOK, Fills, base, Ready, HasFile, Holding,
                      PrepareSteps, ClientSteps
<1> QED
  BY <1>5, <1>6, <1>7, <1>8 DEF IndInv

(* What a handler that selected a layer wants is its target's top layer. *)
LEMMA WantedIsTop ==
    ASSUME SharedBasesAgree, IndInv, NEW w \in Workers,
           worker[w].pc \in {"materialize", "bind", "put"}
    PROVE  /\ Wanted(w) = Top(worker[w].target)
           /\ Wanted(w) \in Layers
<1> DEFINE r == worker[w]
<1>1. /\ r.target \in Chains /\ Describes(r.manifest, r.index, r.target)
      /\ r.index < Len(LegacyLayers[r.manifest])
  BY DEF IndInv, HandlerOK, PrepareSteps, Selected
<1>2. r.index \in Nat /\ r.manifest \in Native
  BY <1>1 DEF IndInv, TypeOK, Handlers, Describes
<1>3. ErofsManifest[r.manifest] \in Seq(Layers)
  BY <1>2, NativeLayers
<1>4. r.index + 1 \in 1..Len(ErofsManifest[r.manifest])
  BY <1>1, <1>2, NativeLayers
<1> QED
  BY <1>1, <1>2, <1>3, <1>4, SelectedLayer DEF Wanted

(* The top of a chain is a layer. *)
LEMMA TopTyped ==
    ASSUME NEW c \in Chains
    PROVE  Top(c) \in Layers
<1>1. c \in Seq(Layers) /\ Len(c) \in 1..Len(c)
  BY ChainShape
<1> QED
  BY <1>1 DEF Top

(* From here a handler that fills its file goes on to step pc.  What it    *)
(* needs for HandlerOK afterwards:                                         *)
Onward(w, pc) ==
    /\ worker' \in [Workers -> Handlers]
    /\ worker'[w].pc = pc
    /\ \A v \in Workers \ {w} : worker'[v] = worker[v]
    /\ worker'[w].key = worker[w].key /\ worker'[w].target = worker[w].target
    /\ worker'[w].id = worker[w].id
    /\ worker'[w].manifest = worker[w].manifest /\ worker'[w].index = worker[w].index

FitFor(pc, f, c) ==
    /\ pc \in {"commit", "extracted"} =>
          f.state \in {"full", "sparse"} /\ f.layer = Top(c)
    /\ pc = "put" => f = [state |-> "sparse", layer |-> Top(c)]

(* Moving on, with or without noting the binding, is going onward. *)
LEMMA GotoOnward ==
    ASSUME TypeOK, NEW w \in Workers, NEW pc \in Steps,
           \/ Goto(w, pc)
           \/ worker' = [worker EXCEPT ![w].pc = pc, ![w].unbind = TRUE]
    PROVE  Onward(w, pc)
<1> DEFINE stay == [worker[w] EXCEPT !.pc = pc]
           bound == [worker[w] EXCEPT !.pc = pc, !.unbind = TRUE]
<1>1. worker[w] \in Handlers
  BY DEF TypeOK
<1>2. stay \in Handlers /\ bound \in Handlers
  BY <1>1 DEF Handlers
<1>3. PICK r \in {stay, bound} : worker' = [worker EXCEPT ![w] = r]
  BY DEF Goto, TypeOK
<1>4. /\ r.pc = pc /\ r.key = worker[w].key /\ r.target = worker[w].target
      /\ r.id = worker[w].id
      /\ r.manifest = worker[w].manifest /\ r.index = worker[w].index
  BY <1>1, <1>3 DEF Handlers
<1>5. worker' \in [Workers -> Handlers] /\ worker'[w] = r
  BY <1>2, <1>3 DEF TypeOK
<1>6. \A v \in Workers \ {w} : worker'[v] = worker[v]
  BY <1>3 DEF TypeOK
<1> QED
  BY <1>4, <1>5, <1>6 DEF Onward

(* A handler that fills its file with what its next step needs keeps the    *)
(* invariant.                                                               *)
LEMMA FillOnward ==
    ASSUME IndInv, NEW w \in Workers, NEW pc, Onward(w, pc),
           worker[w].pc \in Holding, pc \in Holding, NEW f \in Files,
           file' = [file EXCEPT ![worker[w].id] = f],
           UNCHANGED <<base, local, lazyd, crashes>>,
           pc # "materialize",
           FitFor(pc, f, worker[w].target),
           pc \in Selected => worker[w].pc \in Selected
    PROVE  IndInv'
<1> DEFINE r == worker[w]
<1>1. /\ r.key \in Keys /\ r.target \in Chains /\ r.id \in Ids
      /\ active[r.key].id = r.id
  BY Held
<1>2. file' \in [Ids -> Files] /\ file'[r.id] = f
  BY <1>1 DEF IndInv, TypeOK
<1>3. TypeOK'
  BY <1>2 DEF IndInv, TypeOK, Onward, base, lazyd
<1>4. HandlerOK(w)'
  <2>1. worker[w].pc \in Selected => /\ Describes(r.manifest, r.index, r.target)
                                     /\ r.index < Len(LegacyLayers[r.manifest])
    BY DEF IndInv, HandlerOK
  <2>2. pc \notin RemoveSteps /\ pc # "resolve" /\ pc # "manifest"
    BY DEF Holding, RemoveSteps, ClientSteps
  <2> QED
    BY <1>1, <1>2, <2>1, <2>2 DEF HandlerOK, Onward, base, Ready, FitFor
<1>5. Fills(w)
  BY DEF Fills, Onward
<1> QED
  BY <1>3, <1>4, <1>5, FillStep

(* BlobProvider.Materialize keeps the invariant: copied, torn or remote. *)
LEMMA MaterializeStep ==
    ASSUME SharedBasesAgree, IndInv, NEW w \in Workers,
           MaterializeLocal(w) \/ MaterializeFails(w) \/ MaterializeRemote(w)
    PROVE  IndInv'
<1> DEFINE r == worker[w]
<1>1. r.pc = "materialize" /\ ~HasFile(r.id)
  BY DEF MaterializeLocal, MaterializeFails, MaterializeRemote, At, IndInv, HandlerOK
<1>2. Wanted(w) = Top(r.target) /\ Wanted(w) \in Layers
  BY <1>1, WantedIsTop
<1>3. r.pc \in Holding \cap PrepareSteps /\ r.pc \in Selected
  BY <1>1 DEF Holding, PrepareSteps, Selected
<1>4. r.id \in Ids
  BY <1>3, Held
<1>5. TypeOK
  BY DEF IndInv
<1>6. CASE MaterializeLocal(w)
  <2> DEFINE f == [state |-> "full", layer |-> Wanted(w)]
  <2>1. f \in Files
    BY <1>2 DEF Files
  <2>2. /\ file' = [file EXCEPT ![r.id] = f] /\ Goto(w, "commit")
        /\ UNCHANGED <<base, local, lazyd, crashes>>
    BY <1>1, <1>6 DEF MaterializeLocal
  <2>3. Onward(w, "commit")
    BY <1>5, <2>2, StepNames, GotoOnward
  <2>4. "commit" \in Holding /\ FitFor("commit", f, r.target)
    BY <1>2 DEF Holding, FitFor
  <2> QED
    BY <1>3, <2>1, <2>2, <2>3, <2>4, FillOnward
<1>7. CASE MaterializeFails(w)
  <2>1. PICK f \in Files : file' = [file EXCEPT ![r.id] = f]
    <3>1. [state |-> "partial", layer |-> Wanted(w)] \in Files
      BY <1>2 DEF Files
    <3>2. file[r.id] \in Files /\ file = [file EXCEPT ![r.id] = file[r.id]]
      BY <1>4, <1>5 DEF TypeOK
    <3> QED
      BY <1>7, <3>1, <3>2 DEF MaterializeFails
  <2>2. PICK pc \in {"unbind", "undo"} : Goto(w, pc)
    BY <1>7 DEF MaterializeFails, Fail
  <2>3. Onward(w, pc)
    BY <1>5, <2>2, StepNames, GotoOnward
  <2>4. pc \in Holding /\ pc \notin Selected /\ FitFor(pc, f, r.target)
    BY <2>2 DEF Holding, Selected, FitFor
  <2>5. UNCHANGED <<base, local, lazyd, crashes>>
    BY <1>7 DEF MaterializeFails
  <2> QED
    BY <1>3, <2>1, <2>2, <2>3, <2>4, <2>5, FillOnward
<1>8. CASE MaterializeRemote(w)
  <2>1. file[r.id] \in Files /\ file' = [file EXCEPT ![r.id] = file[r.id]]
    BY <1>4, <1>5, <1>8 DEF TypeOK, MaterializeRemote
  <2>2. Onward(w, "bind")
    BY <1>5, <1>8, StepNames, GotoOnward DEF MaterializeRemote
  <2>3. "bind" \in Holding /\ FitFor("bind", file[r.id], r.target)
    BY DEF Holding, FitFor
  <2>4. UNCHANGED <<base, local, lazyd, crashes>>
    BY <1>8 DEF MaterializeRemote
  <2> QED
    BY <1>3, <2>1, <2>2, <2>3, <2>4, FillOnward
<1> QED
  BY <1>6, <1>7, <1>8

(* BindLayer of the eager daemon, the sparse target of LazyDaemon, and the  *)
(* differ of the legacy path keep the invariant.                            *)
LEMMA BindStep ==
    ASSUME SharedBasesAgree, IndInv, NEW w \in Workers,
           EagerBind(w) \/ CreateSparseTarget(w) \/ Apply(w)
    PROVE  IndInv'
<1> DEFINE r == worker[w]
<1>1. TypeOK
  BY DEF IndInv
<1>2. CASE EagerBind(w)
  <2> DEFINE f == [state |-> "full", layer |-> Wanted(w)]
  <2>1. r.pc \in Holding \cap Selected /\ Wanted(w) = Top(r.target) /\ f \in Files
    BY <1>2, WantedIsTop DEF EagerBind, At, Holding, Selected, Files
  <2>2. Onward(w, "commit")
    BY <1>1, <1>2, StepNames, GotoOnward DEF EagerBind
  <2>3. "commit" \in Holding /\ FitFor("commit", f, r.target)
    BY <2>1 DEF Holding, FitFor
  <2>4. file' = [file EXCEPT ![r.id] = f] /\ UNCHANGED <<base, local, lazyd, crashes>>
    BY <1>2 DEF EagerBind
  <2> QED
    BY <2>1, <2>2, <2>3, <2>4, FillOnward
<1>3. CASE CreateSparseTarget(w)
  <2> DEFINE f == [state |-> "sparse", layer |-> Wanted(w)]
  <2>1. r.pc \in Holding \cap Selected /\ Wanted(w) = Top(r.target) /\ f \in Files
    BY <1>3, WantedIsTop DEF CreateSparseTarget, At, Holding, Selected, Files
  <2>2. Onward(w, "put")
    BY <1>1, <1>3, StepNames, GotoOnward DEF CreateSparseTarget
  <2>3. "put" \in Holding /\ FitFor("put", f, r.target)
    BY <2>1 DEF Holding, FitFor
  <2>4. file' = [file EXCEPT ![r.id] = f] /\ UNCHANGED <<base, local, lazyd, crashes>>
    BY <1>3 DEF CreateSparseTarget
  <2> QED
    BY <2>1, <2>2, <2>3, <2>4, FillOnward
<1>4. CASE Apply(w)
  <2> DEFINE f == [state |-> "full", layer |-> Top(r.target)]
  <2>1. r.pc \in Holding
    BY <1>4 DEF Apply, At, Holding, ClientSteps
  <2>2. f \in Files
    BY <2>1, Held, TopTyped DEF Files
  <2>3. Onward(w, "extracted")
    BY <1>1, <1>4, StepNames, GotoOnward DEF Apply
  <2>4. /\ "extracted" \in Holding /\ "extracted" \notin Selected
        /\ FitFor("extracted", f, r.target)
    BY DEF Holding, Selected, ClientSteps, FitFor
  <2>5. file' = [file EXCEPT ![r.id] = f] /\ UNCHANGED <<base, local, lazyd, crashes>>
    BY <1>4 DEF Apply
  <2> QED
    BY <2>1, <2>2, <2>3, <2>4, <2>5, FillOnward
<1> QED
  BY <1>2, <1>3, <1>4

-----------------------------------------------------------------------------
(* Calls to lazyd. *)

Instances == [Chains -> [id : SnapIds, layer : Layers \cup {NoLayer}]]

(* What a PUT registers is typed. *)
LEMMA RegisterTyped ==
    ASSUME SharedBasesAgree, IndInv, NEW w \in Workers, worker[w].pc = "put"
    PROVE  [instance EXCEPT ![worker[w].target] = Mine(w)] \in Instances
<1>1. worker[w].id \in SnapIds /\ Wanted(w) \in Layers
  BY WantedIsTop DEF IndInv, TypeOK, Handlers
<1>2. Mine(w) \in [id : SnapIds, layer : Layers \cup {NoLayer}]
  BY <1>1 DEF Mine
<1> QED
  BY <1>2 DEF IndInv, TypeOK, Instances

(* The PUT of an instance keeps the invariant, answered or not. *)
LEMMA PutStep ==
    ASSUME SharedBasesAgree, IndInv, NEW w \in Workers,
           PutInstance(w) \/ PutUnanswered(w)
    PROVE  IndInv'
<1> DEFINE r == worker[w]
<1>1. r.pc = "put" /\ r.pc \in Holding \cap PrepareSteps /\ TypeOK
  BY DEF PutInstance, PutUnanswered, At, Holding, PrepareSteps, IndInv
<1>2. r.target \in Chains /\ r.key \in Keys
  BY <1>1, Held
<1>3. /\ instance' \in Instances
      /\ UNCHANGED <<base, file, local, listener, contested, crashes>>
  BY <1>1, RegisterTyped DEF PutInstance, PutUnanswered
<1>4. leaked' \subseteq Chains /\ forgotten' \subseteq Ids
  BY <1>1, <1>2 DEF PutInstance, PutUnanswered, TypeOK
<1>5. CASE PutInstance(w)
  <2>1. Onward(w, "commit")
    BY <1>1, <1>5, StepNames, GotoOnward DEF PutInstance
  <2>2. TypeOK'
    BY <1>1, <1>3, <1>4, <2>1 DEF TypeOK, base, Onward, Instances
  <2>3. HandlerOK(w)'
    <3>1. /\ file[r.id] = [state |-> "sparse", layer |-> Top(r.target)]
          /\ r.id \in Ids /\ active[r.key].id = r.id
          /\ Describes(r.manifest, r.index, r.target)
          /\ r.index < Len(LegacyLayers[r.manifest])
      BY <1>1 DEF IndInv, HandlerOK, Selected
    <3> QED
      BY <1>2, <1>3, <2>1, <3>1 DEF HandlerOK, Onward, base, Ready, RemoveSteps
  <2>4. Quiet(w)
    BY <1>1, <1>3, <2>1 DEF Quiet, Onward
  <2> QED
    BY <2>2, <2>3, <2>4, QuietStep
<1>6. CASE PutUnanswered(w)
  BY <1>1, <1>3, <1>4, <1>6, FailStep DEF PutUnanswered, Instances
<1> QED
  BY <1>5, <1>6

(* So do the failures of BindLayer, of the PUT and of the commit. *)
LEMMA GiveUpStep ==
    ASSUME IndInv, NEW w \in Workers,
           BindFails(w) \/ PutFails(w) \/ CommitFails(w)
    PROVE  IndInv'
<1>1. /\ worker[w].pc \in Holding \cap PrepareSteps /\ Fail(w)
      /\ UNCHANGED <<base, file, local, lazyd, crashes>>
  BY DEF BindFails, PutFails, CommitFails, At, Holding, PrepareSteps
<1> QED
  BY <1>1, FailStep DEF IndInv, TypeOK, lazyd

(* UnbindLayer leaves the registry typed. *)
LEMMA UnbindTyped ==
    ASSUME TypeOK, NEW c \in Chains, UnbindLayer(c)
    PROVE  /\ instance' \in Instances /\ leaked' \subseteq Chains
           /\ UNCHANGED <<listener, forgotten, contested>>
<1>1. NoInstance \in [id : SnapIds, layer : Layers \cup {NoLayer}]
  BY BoundAssumption DEF NoInstance, SnapIds
<1> QED
  BY <1>1 DEF TypeOK, UnbindLayer, Instances

(* UnbindLayer keeps the invariant, from the cleanup of Prepare and from    *)
(* Remove.                                                                  *)
LEMMA UnbindStep ==
    ASSUME IndInv, NEW w \in Workers, CleanupUnbind(w) \/ RemoveUnbind(w)
    PROVE  IndInv'
<1> DEFINE c == worker[w].target
<1>1. TypeOK
  BY DEF IndInv
<1>2. c \in Chains /\ UnbindLayer(c) /\ UNCHANGED <<base, file, local, crashes>>
  BY DEF CleanupUnbind, RemoveUnbind, At, IndInv, HandlerOK, PrepareSteps, RemoveSteps
<1>3. /\ instance' \in Instances /\ leaked' \subseteq Chains
      /\ UNCHANGED <<listener, forgotten, contested>>
  BY <1>1, <1>2, UnbindTyped
<1>4. CASE CleanupUnbind(w)
  <2>1. worker[w].pc \in Holding \cap PrepareSteps /\ Goto(w, "undo")
    BY <1>4 DEF CleanupUnbind, At, Holding, PrepareSteps
  <2>2. worker' \in [Workers -> Handlers]
    BY <1>1, <2>1, StepNames, GotoTyped
  <2>3. TypeOK'
    BY <1>1, <1>2, <1>3, <2>2 DEF TypeOK, base, Instances
  <2> QED
    BY <1>2, <2>1, <2>3, CleanupStep
<1>5. CASE RemoveUnbind(w)
  <2>1. Return(w) /\ worker' \in [Workers -> Handlers]
    BY <1>1, <1>5, ReturnTyped DEF RemoveUnbind
  <2>2. TypeOK'
    BY <1>1, <1>2, <1>3, <2>1 DEF TypeOK, base, Instances
  <2> QED
    BY <1>2, <2>1, <2>2, ReturnStep
<1> QED
  BY <1>4, <1>5

-----------------------------------------------------------------------------
(* Commits. *)

(* base.Commit, by Prepare or by the client, publishes a ready file under   *)
(* its own chain.                                                           *)
LEMMA PublishStep ==
    ASSUME IndInv, NEW w \in Workers, Commit(w) \/ ClientCommit(w)
    PROVE  IndInv'
<1> DEFINE r == worker[w]
           c == r.target
           k == r.key
           i == r.id
           label == IF r.pc = "commit" THEN [manifest |-> r.manifest, index |-> r.index]
                    ELSE [manifest |-> NoImage, index |-> 0]
           new == [id |-> i, manifest |-> label.manifest, index |-> label.index]
<1>1. /\ r.pc \in {"commit", "extracted"} /\ r.pc \in Holding /\ TypeOK
      /\ ~Published(c) /\ Return(w) /\ active' = [active EXCEPT ![k] = NoActive]
      /\ UNCHANGED <<nextId, file, local, lazyd, crashes>>
  BY DEF Commit, ClientCommit, At, Holding, ClientSteps, IndInv
<1>2. k \in Keys /\ c \in Chains /\ i \in Ids /\ active[k].id = i /\ i # 0
  BY <1>1, Held
<1>3. committed' = [committed EXCEPT ![c] = new]
  BY <1>2 DEF Commit, ClientCommit, At
<1>4. new \in [id : SnapIds, manifest : Native \cup {NoImage}, index : Nat]
  <2>1. r \in Handlers
    BY <1>1 DEF TypeOK
  <2>2. i \in SnapIds
    BY <1>2, BoundAssumption DEF SnapIds, Ids
  <2>3. label.manifest \in Native \cup {NoImage} /\ label.index \in Nat
    BY <2>1 DEF Handlers
  <2> QED
    BY <2>2, <2>3
<1>5. /\ committed'[c] = new
      /\ \A d \in Chains \ {c} : committed'[d] = committed[d]
      /\ DOMAIN committed' = DOMAIN committed /\ DOMAIN committed = Chains
      /\ committed' \in [Chains -> [id : SnapIds, manifest : Native \cup {NoImage},
                                    index : Nat]]
  BY <1>1, <1>2, <1>3, <1>4 DEF TypeOK
<1>6. /\ active'[k].id = 0
      /\ \A j \in Keys \ {k} : active'[j] = active[j]
      /\ active' \in [Keys -> [id : SnapIds, parent : Chains \cup {<<>>}]]
  <2>1. NoActive \in [id : SnapIds, parent : Chains \cup {<<>>}]
    <3>1. 0 \in SnapIds /\ <<>> \in Chains \cup {<<>>}
      BY BoundAssumption DEF SnapIds
    <3> QED
      BY <3>1 DEF NoActive
  <2> QED
    BY <1>1, <1>2, <2>1 DEF TypeOK, NoActive
<1>7. /\ worker' \in [Workers -> Handlers] /\ worker'[w] = Idle
      /\ \A v \in Workers \ {w} : worker'[v] = worker[v]
  BY <1>1, ReturnTyped DEF Return, TypeOK
<1>8. TypeOK'
  BY <1>1, <1>5, <1>6, <1>7 DEF TypeOK, lazyd
<1>9. Ready(i, c)
  BY <1>1 DEF IndInv, HandlerOK
<1>10. \A d \in Chains : Published(d)' <=> (d = c \/ Published(d))
  BY <1>2, <1>5 DEF Published
<1>11. ChainContent'
  BY <1>1, <1>5, <1>9, <1>10 DEF IndInv, ChainContent, Ready
<1>12. LabelsOK'
  <2>1. label.manifest # NoImage => Describes(label.manifest, label.index, c)
    BY <1>1 DEF IndInv, HandlerOK, Selected
  <2>2. ASSUME NEW d \in Chains, IsProxy(d)'
        PROVE  Describes(committed'[d].manifest, committed'[d].index, d)
    <3>1. CASE d = c
      BY <1>5, <2>1, <2>2, <3>1 DEF IsProxy
    <3>2. CASE d # c
      BY <1>5, <1>10, <2>2, <3>2 DEF IsProxy, IndInv, LabelsOK
    <3> QED
      BY <3>1, <3>2
  <2> QED
    BY <2>2 DEF LabelsOK, Describes
<1>13. KeysHeldApart'
  BY <1>7 DEF IndInv, KeysHeldApart, Idle, Holding, ClientSteps
<1>14. IdsApart'
  <2>1. \A j \in Keys \ {k} : active[j].id # i
    BY <1>2 DEF IndInv, IdsApart
  <2>2. \A d \in Chains : Published(d) => committed[d].id # i
    BY <1>2 DEF IndInv, IdsApart
  <2>3. i < nextId /\ 0 < nextId
    BY <1>2, BoundAssumption DEF IndInv, IdsApart, TypeOK
  <2>4. /\ \A j \in Keys : active'[j].id < nextId'
        /\ \A d \in Chains : committed'[d].id < nextId'
    BY <1>1, <1>5, <1>6, <2>3 DEF IndInv, IdsApart
  <2>5. \A j, l \in Keys : j # l /\ active'[j].id # 0 => active'[j].id # active'[l].id
    BY <1>6 DEF IndInv, IdsApart
  <2>6. \A d, e \in Chains : d # e /\ Published(d)' =>
           committed'[d].id # committed'[e].id
    <3> SUFFICES ASSUME NEW d \in Chains, NEW e \in Chains, d # e, Published(d)'
                 PROVE  committed'[d].id # committed'[e].id
      OBVIOUS
    <3>1. CASE d = c
      <4>1. committed'[e] = committed[e] /\ committed'[d].id = i
        BY <1>5, <3>1
      <4>2. committed[e].id # i
        BY <1>2, <1>5, <2>2 DEF Published
      <4> QED
        BY <4>1, <4>2
    <3>2. CASE e = c
      BY <1>5, <1>10, <2>2, <3>2
    <3>3. CASE d # c /\ e # c
      BY <1>5, <1>10, <3>3 DEF IndInv, IdsApart
    <3> QED
      BY <3>1, <3>2, <3>3
  <2>7. \A j \in Keys, d \in Chains : Published(d)' => active'[j].id # committed'[d].id
    <3> SUFFICES ASSUME NEW j \in Keys, NEW d \in Chains, Published(d)'
                 PROVE  active'[j].id # committed'[d].id
      OBVIOUS
    <3>1. CASE j = k
      BY <1>6, <3>1 DEF Published
    <3>2. CASE j # k /\ d = c
      BY <1>5, <1>6, <2>1, <3>2
    <3>3. CASE j # k /\ d # c
      BY <1>5, <1>6, <1>10, <3>3 DEF IndInv, IdsApart
    <3> QED
      BY <3>1, <3>2, <3>3
  <2>8. (\A n \in Ids : n >= nextId => ~HasFile(n))'
    BY <1>1 DEF IndInv, IdsApart, HasFile
  <2> QED
    BY <2>4, <2>5, <2>6, <2>7, <2>8 DEF IdsApart
<1>15. ASSUME NEW v \in Workers PROVE HandlerOK(v)'
  <2>1. CASE v = w
    BY <1>7, <2>1 DEF HandlerOK, Idle, PrepareSteps, ClientSteps, RemoveSteps,
                      Holding, Selected
  <2>2. CASE v # w
    <3>1. worker[v].pc \in Holding => worker[v].key # k
      BY <1>1, <2>2 DEF IndInv, KeysHeldApart
    <3> QED
      BY <1>1, <1>6, <1>7, <2>2, <3>1, Held DEF IndInv, HandlerOK, Ready, HasFile
  <2> QED
    BY <2>1, <2>2
<1> QED
  BY <1>8, <1>11, <1>12, <1>13, <1>14, <1>15 DEF IndInv

-----------------------------------------------------------------------------
(* Removals. *)

(* A handler at rest needs nothing. *)
LEMMA IdleOK ==
    ASSUME NEW v \in Workers, worker'[v] = Idle
    PROVE  HandlerOK(v)' /\ worker'[v].pc \notin Holding
  BY DEF HandlerOK, Idle, PrepareSteps, ClientSteps, RemoveSteps, Holding, Selected

(* The absence of a file is typed. *)
LEMMA NoFileTyped == NoFile \in Files /\ NoFile.state = "none"
  BY DEF NoFile, Files

(* An active snapshot goes, with its file; no other handler holds it. *)
LEMMA DropActive ==
    ASSUME IndInv, NEW k \in Keys, RemoveActive(k), worker' \in [Workers -> Handlers],
           \A v \in Workers :
              \/ worker'[v] = Idle
              \/ worker'[v] = worker[v] /\ (worker[v].pc \in Holding => worker[v].key # k)
    PROVE  IndInv'
<1> DEFINE i == active[k].id
<1>1. /\ TypeOK /\ active' = [active EXCEPT ![k] = NoActive]
      /\ file' = [file EXCEPT ![i] = NoFile]
      /\ UNCHANGED <<committed, nextId, local, lazyd, crashes>>
  BY DEF RemoveActive, IndInv
<1>2. /\ active'[k].id = 0
      /\ \A j \in Keys \ {k} : active'[j] = active[j]
      /\ active' \in [Keys -> [id : SnapIds, parent : Chains \cup {<<>>}]]
  <2>1. NoActive \in [id : SnapIds, parent : Chains \cup {<<>>}]
    <3>1. 0 \in SnapIds /\ <<>> \in Chains \cup {<<>>}
      BY BoundAssumption DEF SnapIds
    <3> QED
      BY <3>1 DEF NoActive
  <2> QED
    BY <1>1, <2>1 DEF TypeOK, NoActive
<1>3. /\ file' \in [Ids -> Files]
      /\ \A n \in Ids \ {i} : file'[n] = file[n]
      /\ \A n \in Ids : file'[n] = file[n] \/ file'[n].state = "none"
  BY <1>1, NoFileTyped DEF TypeOK
<1>4. TypeOK'
  BY <1>1, <1>2, <1>3 DEF TypeOK, lazyd
<1>5. \A c \in Chains : Published(c) => committed[c].id \in Ids \ {i}
  BY <1>1, BoundAssumption DEF IndInv, IdsApart, TypeOK, Published, SnapIds, Ids
<1>6. ChainContent' /\ LabelsOK'
  BY <1>1, <1>3, <1>5 DEF IndInv, ChainContent, LabelsOK, Published, IsProxy
<1>7. KeysHeldApart'
  <2>1. \A v \in Workers : worker'[v].pc \in Holding => worker'[v] = worker[v]
    BY IdleOK
  <2> QED
    BY <2>1 DEF IndInv, KeysHeldApart
<1>8. IdsApart'
  <2>1. 0 < nextId
    BY <1>1, BoundAssumption DEF TypeOK
  <2> QED
    BY <1>1, <1>2, <1>3, <2>1 DEF IndInv, IdsApart, Published, HasFile
<1>9. ASSUME NEW v \in Workers PROVE HandlerOK(v)'
  <2>1. CASE worker'[v] = Idle
    BY <2>1, IdleOK
  <2>2. CASE worker'[v] = worker[v] /\ (worker[v].pc \in Holding => worker[v].key # k)
    <3>1. worker[v].pc \in Holding =>
             /\ active'[worker[v].key] = active[worker[v].key]
             /\ file'[worker[v].id] = file[worker[v].id]
      <4> SUFFICES ASSUME worker[v].pc \in Holding
                   PROVE  /\ active'[worker[v].key] = active[worker[v].key]
                          /\ file'[worker[v].id] = file[worker[v].id]
        OBVIOUS
      <4>1. worker[v].key \in Keys \ {k} /\ worker[v].id \in Ids
        BY <2>2, Held
      <4>2. worker[v].id # i
        BY <4>1, Held DEF IndInv, IdsApart
      <4> QED
        BY <1>2, <1>3, <4>1, <4>2
    <3> QED
      BY <2>2, <3>1 DEF IndInv, HandlerOK, Ready, HasFile, Holding, PrepareSteps,
                        ClientSteps
  <2> QED
    BY <2>1, <2>2
<1> QED
  BY <1>4, <1>6, <1>7, <1>8, <1>9 DEF IndInv

(* The removals of an active snapshot keep the invariant: cleanup, client,  *)
(* garbage collector.                                                       *)
LEMMA RemoveActiveStep ==
    ASSUME IndInv,
           \/ \E w \in Workers : CleanupRemove(w) \/ ClientAbort(w)
           \/ \E k \in Keys : RemoveStale(k)
    PROVE  IndInv'
<1>1. ASSUME NEW w \in Workers, CleanupRemove(w) \/ ClientAbort(w)
      PROVE  IndInv'
  <2>1. /\ worker[w].pc \in Holding /\ Return(w) /\ RemoveActive(worker[w].key)
    BY <1>1 DEF CleanupRemove, ClientAbort, At, Holding
  <2>2. worker[w].key \in Keys
    BY <2>1, Held
  <2>3. worker' \in [Workers -> Handlers] /\ worker'[w] = Idle
    BY <2>1, ReturnTyped DEF IndInv
  <2>4. \A v \in Workers \ {w} : /\ worker'[v] = worker[v]
                                 /\ worker[v].pc \in Holding =>
                                       worker[v].key # worker[w].key
    BY <2>1 DEF Return, IndInv, TypeOK, KeysHeldApart
  <2> QED
    BY <2>1, <2>2, <2>3, <2>4, DropActive
<1>2. ASSUME NEW k \in Keys, RemoveStale(k)
      PROVE  IndInv'
  BY <1>2, DropActive DEF RemoveStale, IndInv, TypeOK
<1> QED
  BY <1>1, <1>2

(* Remove reading the labels keeps the invariant. *)
LEMMA RemoveStatStep ==
    ASSUME IndInv, NEW w \in Workers, NEW c \in Chains, RemoveStat(w, c)
    PROVE  IndInv'
<1> DEFINE new == [Idle EXCEPT !.pc = "baseRemove", !.target = c, !.unbind = IsProxy(c)]
<1>1. IsProxy(c) \in BOOLEAN
  BY DEF IsProxy
<1>2. new \in Handlers
  BY <1>1, IdleTyped, StepNames DEF Handlers
<1>3. worker' = [worker EXCEPT ![w] = new] /\ UNCHANGED <<base, file, local, lazyd, crashes>>
  BY DEF RemoveStat
<1>4. worker' \in [Workers -> Handlers] /\ worker'[w] = new
  BY <1>2, <1>3 DEF IndInv, TypeOK
<1>5. new.pc = "baseRemove" /\ new.target = c
  BY DEF Idle
<1>6. HandlerOK(w)'
  BY <1>4, <1>5 DEF HandlerOK, PrepareSteps, ClientSteps, Holding, Selected
<1>7. Quiet(w)
  BY <1>3, <1>4, <1>5 DEF Quiet, Holding, ClientSteps, IndInv, TypeOK
<1>8. TypeOK'
  BY <1>3, <1>4, LocalsTyped DEF IndInv
<1> QED
  BY <1>6, <1>7, <1>8, QuietStep

(* base.Remove of a committed snapshot takes its file, which belongs to no  *)
(* other chain or key.                                                      *)
LEMMA BaseRemoveStep ==
    ASSUME IndInv, NEW w \in Workers, BaseRemove(w)
    PROVE  IndInv'
<1> DEFINE c == worker[w].target
           i == committed[c].id
<1>1. /\ TypeOK /\ worker[w].pc = "baseRemove" /\ Published(c)
      /\ committed' = [committed EXCEPT ![c] = NoCommitted]
      /\ file' = [file EXCEPT ![i] = NoFile]
      /\ UNCHANGED <<active, nextId, local, lazyd, crashes>>
      /\ Goto(w, "revoke") \/ Return(w)
  BY DEF BaseRemove, At, IndInv
<1>2. c \in Chains
  BY <1>1 DEF IndInv, HandlerOK, RemoveSteps
<1>3. /\ committed'[c].id = 0 /\ committed'[c].manifest = NoImage
      /\ \A d \in Chains \ {c} : committed'[d] = committed[d]
      /\ DOMAIN committed' = Chains
      /\ committed' \in [Chains -> [id : SnapIds, manifest : Native \cup {NoImage},
                                    index : Nat]]
  <2>1. NoCommitted \in [id : SnapIds, manifest : Native \cup {NoImage}, index : Nat]
    BY BoundAssumption DEF NoCommitted, SnapIds
  <2> QED
    BY <1>1, <1>2, <2>1 DEF TypeOK, NoCommitted
<1>4. /\ file' \in [Ids -> Files]
      /\ \A n \in Ids \ {i} : file'[n] = file[n]
      /\ \A n \in Ids : file'[n] = file[n] \/ file'[n].state = "none"
  BY <1>1, NoFileTyped DEF TypeOK
<1>5. /\ worker' \in [Workers -> Handlers]
      /\ worker'[w].pc \notin Holding /\ HandlerOK(w)'
      /\ \A v \in Workers \ {w} : worker'[v] = worker[v]
  <2>1. CASE Return(w)
    BY <1>1, <2>1, ReturnTyped, IdleOK DEF Return, TypeOK
  <2>2. CASE Goto(w, "revoke")
    <3>1. Onward(w, "revoke")
      BY <1>1, <2>2, StepNames, GotoOnward
    <3> QED
      BY <1>2, <3>1 DEF Onward, HandlerOK, PrepareSteps, ClientSteps, Holding, Selected
  <2> QED
    BY <1>1, <2>1, <2>2
<1>6. TypeOK'
  BY <1>1, <1>3, <1>4, <1>5 DEF TypeOK, lazyd
<1>7. \A d \in Chains : Published(d)' => d # c /\ Published(d)
  BY <1>1, <1>3 DEF Published, TypeOK
<1>8. ChainContent'
  <2>1. \A d \in Chains : Published(d)' => committed[d].id \in Ids \ {i}
    BY <1>1, <1>2, <1>7, BoundAssumption
       DEF IndInv, IdsApart, TypeOK, Published, SnapIds, Ids
  <2> QED
    BY <1>3, <1>4, <1>7, <2>1 DEF IndInv, ChainContent
<1>9. LabelsOK'
  BY <1>3, <1>7 DEF IndInv, LabelsOK, IsProxy, Describes
<1>10. KeysHeldApart'
  BY <1>5 DEF IndInv, KeysHeldApart
<1>11. IdsApart'
  <2>1. 0 < nextId
    BY <1>1, BoundAssumption DEF TypeOK
  <2>2. \A d \in Chains : committed'[d].id < nextId'
    BY <1>1, <1>3, <2>1 DEF IndInv, IdsApart
  <2>3. \A d, e \in Chains : d # e /\ Published(d)' => committed'[d].id # committed'[e].id
    BY <1>3, <1>7 DEF IndInv, IdsApart, Published
  <2>4. \A j \in Keys, d \in Chains : Published(d)' => active'[j].id # committed'[d].id
    BY <1>1, <1>3, <1>7 DEF IndInv, IdsApart
  <2>5. (\A n \in Ids : n >= nextId => ~HasFile(n))'
    BY <1>1, <1>4 DEF IndInv, IdsApart, HasFile
  <2> QED
    BY <1>1, <2>2, <2>3, <2>4, <2>5 DEF IndInv, IdsApart
<1>12. ASSUME NEW v \in Workers, v # w PROVE HandlerOK(v)'
  <2>1. worker[v].pc \in Holding => file'[worker[v].id] = file[worker[v].id]
    <3> SUFFICES ASSUME worker[v].pc \in Holding
                 PROVE  file'[worker[v].id] = file[worker[v].id]
      OBVIOUS
    <3>1. worker[v].id \in Ids /\ worker[v].id # i
      BY <1>1, <1>2, Held DEF IndInv, IdsApart
    <3> QED
      BY <1>4, <3>1
  <2>2. worker'[v] = worker[v]
    BY <1>5, <1>12
  <2> QED
    BY <1>1, <2>1, <2>2 DEF IndInv, HandlerOK, Ready, HasFile, Holding, PrepareSteps,
                            ClientSteps
<1> QED
  BY <1>5, <1>6, <1>8, <1>9, <1>10, <1>11, <1>12 DEF IndInv

-----------------------------------------------------------------------------
(* The environment. *)

(* A lost registry is typed. *)
LEMMA LoseRegistryTyped ==
    ASSUME TypeOK, LoseRegistry
    PROVE  instance' \in Instances /\ leaked' \subseteq Chains /\ forgotten' \subseteq Ids
<1>1. NoInstance \in [id : SnapIds, layer : Layers \cup {NoLayer}]
  BY BoundAssumption DEF NoInstance, SnapIds
<1> QED
  <2>1. instance' \in Instances /\ leaked' \subseteq Chains
    BY <1>1 DEF LoseRegistry, Instances
  <2>2. \A c \in Chains : instance[c].id \in SnapIds
    BY DEF TypeOK
  <2>3. SnapIds \ {0} \subseteq Ids
    BY BoundAssumption DEF SnapIds, Ids
  <2> QED
    BY <2>1, <2>2, <2>3 DEF LoseRegistry, TypeOK

(* The content store, the death of lazyd, the restart of the server and the *)
(* end of an orphan keep the invariant.                                     *)
LEMMA EnvironmentStep ==
    ASSUME IndInv, (\E l \in Layers : StoreChanges(l)) \/ LazydDies
               \/ ServerRestarts \/ OrphanDisplaced
    PROVE  IndInv'
<1>1. TypeOK
  BY DEF IndInv
<1>2. /\ UNCHANGED <<base, file>>
      /\ worker' \in [Workers -> Handlers]
      /\ \A v \in Workers : worker'[v] = worker[v] \/ worker'[v] = Idle
  BY <1>1, IdleTyped DEF StoreChanges, LazydDies, ServerRestarts, OrphanDisplaced, TypeOK
<1>3. TypeOK'
  <2>1. CASE \E l \in Layers : StoreChanges(l)
    BY <1>1, <2>1 DEF StoreChanges, TypeOK, base, lazyd
  <2>2. CASE LazydDies
    <3>1. crashes' \in 0..MaxCrashes
      BY <1>1, <2>2, BoundAssumption DEF LazydDies, TypeOK
    <3> QED
      BY <1>1, <1>2, <2>2, <3>1, LoseRegistryTyped DEF LazydDies, TypeOK, base, Instances
  <2>3. CASE ServerRestarts
    <3>1. crashes' \in 0..MaxCrashes
      BY <1>1, <2>3, BoundAssumption DEF ServerRestarts, TypeOK
    <3>2. /\ instance' \in Instances /\ leaked' \subseteq Chains /\ forgotten' \subseteq Ids
          /\ listener' \in {"none", "child", "orphan"}
      <4>1. CASE LoseRegistry /\ listener' = IF Daemon = "lazyd" THEN "child" ELSE "none"
        BY <1>1, <4>1, LoseRegistryTyped
      <4>2. CASE /\ listener' = "orphan" /\ leaked' = leaked \cup Abandoned
                 /\ UNCHANGED <<instance, forgotten>>
        BY <1>1, <4>2 DEF TypeOK, Abandoned, Instances
      <4> QED
        BY <2>3, <4>1, <4>2 DEF ServerRestarts
    <3> QED
      BY <1>1, <1>2, <2>3, <3>1, <3>2 DEF ServerRestarts, TypeOK, base, Instances
  <2>4. CASE OrphanDisplaced
    <3>1. \A v \in Workers : worker[v].target \in Chains \cup {<<>>}
      BY <1>1 DEF TypeOK, Handlers
    <3>2. contested' \subseteq Chains \cup {<<>>}
      BY <1>1, <2>4, <3>1 DEF OrphanDisplaced, TypeOK
    <3> QED
      BY <1>1, <1>2, <2>4, <3>2, LoseRegistryTyped
         DEF OrphanDisplaced, TypeOK, base, Instances
  <2> QED
    BY <2>1, <2>2, <2>3, <2>4
<1>4. \A v \in Workers : worker'[v].pc \in Holding => worker'[v] = worker[v]
  BY <1>2, IdleOK
<1>5. KeysHeldApart'
  BY <1>4 DEF IndInv, KeysHeldApart
<1>6. IdsApart' /\ LabelsOK' /\ ChainContent'
  BY <1>2 DEF IndInv, IdsApart, LabelsOK, ChainContent, base, Published, IsProxy, HasFile
<1>7. ASSUME NEW v \in Workers PROVE HandlerOK(v)'
  <2>1. CASE worker'[v] = Idle
    BY <2>1, IdleOK
  <2>2. CASE worker'[v] = worker[v]
    BY <1>2, <2>2 DEF IndInv, HandlerOK, base, Ready, HasFile
  <2> QED
    BY <1>2, <2>1, <2>2
<1> QED
  BY <1>3, <1>5, <1>6, <1>7 DEF IndInv

-----------------------------------------------------------------------------
(* The invariant. *)

(* The invariant holds at the start. *)
LEMMA InitIndInv == Init => IndInv
<1> SUFFICES ASSUME Init PROVE IndInv
  OBVIOUS
<1>1. 0 \in SnapIds /\ 1 \in 1..(MaxId + 1) /\ 0 \in 0..MaxCrashes
  BY BoundAssumption DEF SnapIds
<1>2. /\ NoActive \in [id : SnapIds, parent : Chains \cup {<<>>}]
      /\ NoCommitted \in [id : SnapIds, manifest : Native \cup {NoImage}, index : Nat]
      /\ NoInstance \in [id : SnapIds, layer : Layers \cup {NoLayer}]
  <2>1. <<>> \in Chains \cup {<<>>}
    OBVIOUS
  <2> QED
    BY <1>1, <2>1 DEF NoActive, NoCommitted, NoInstance
<1>3. TypeOK
  BY <1>1, <1>2, IdleTyped, NoFileTyped, ConfigAssumption DEF Init, TypeOK
<1>4. \A w \in Workers : HandlerOK(w) /\ worker[w].pc \notin Holding
  BY DEF Init, HandlerOK, Idle, PrepareSteps, ClientSteps, RemoveSteps, Holding, Selected
<1>5. \A c \in Chains : ~Published(c)
  BY DEF Init, Published, NoCommitted
<1>6. IdsApart
  BY <1>5 DEF Init, IdsApart, NoActive, NoCommitted, NoFile, HasFile
<1> QED
  BY <1>3, <1>4, <1>5, <1>6 DEF IndInv, KeysHeldApart, LabelsOK, ChainContent, IsProxy

(* Every step keeps the invariant. *)
LEMMA NextIndInv ==
    ASSUME SharedBasesAgree, IndInv, [Next]_vars
    PROVE  IndInv'
<1>1. ASSUME NEW w \in Workers, PrepareStep(w) PROVE IndInv'
  <2>1. CASE \E k \in Keys, im \in Images :
                \E n \in 1..Len(LegacyLayers[im]) : PrepareStat(w, k, im, n)
    BY <2>1, RequestStep
  <2>2. CASE ResolveAnnotation(w) \/ ResolveParent(w) \/ ResolveNone(w)
    BY <2>2, ResolveStep
  <2>3. CASE SelectLayer(w) \/ SelectFails(w)
    BY <2>3, SelectStep
  <2>4. CASE BasePrepare(w)
    BY <2>4, BasePrepareStep
  <2>5. CASE BasePrepareFails(w)
    BY <2>5, QuietReturn DEF BasePrepareFails
  <2>6. CASE MaterializeLocal(w) \/ MaterializeFails(w) \/ MaterializeRemote(w)
    BY <2>6, MaterializeStep
  <2>7. CASE EagerBind(w) \/ CreateSparseTarget(w)
    BY <2>7, BindStep
  <2>8. CASE PutInstance(w) \/ PutUnanswered(w)
    BY <2>8, PutStep
  <2>9. CASE BindFails(w) \/ PutFails(w) \/ CommitFails(w)
    BY <2>9, GiveUpStep
  <2>10. CASE Commit(w)
    BY <2>10, PublishStep
  <2>11. CASE CleanupUnbind(w)
    BY <2>11, UnbindStep
  <2>12. CASE CleanupRemove(w)
    BY <2>12, RemoveActiveStep
  <2>13. CASE CleanupRemoveFails(w)
    BY <2>13, QuietReturn DEF CleanupRemoveFails
  <2> QED
    BY <1>1, <2>1, <2>2, <2>3, <2>4, <2>5, <2>6, <2>7, <2>8, <2>9, <2>10, <2>11,
       <2>12, <2>13 DEF PrepareStep
<1>2. ASSUME NEW w \in Workers, ClientStep(w) PROVE IndInv'
  BY <1>2, BindStep, PublishStep, RemoveActiveStep DEF ClientStep
<1>3. ASSUME NEW w \in Workers, RemoveStep(w) PROVE IndInv'
  <2>1. CASE \E c \in Chains : RemoveStat(w, c)
    BY <2>1, RemoveStatStep
  <2>2. CASE BaseRemove(w)
    BY <2>2, BaseRemoveStep
  <2>3. CASE BaseRemoveFails(w)
    BY <2>3, QuietReturn DEF BaseRemoveFails
  <2>4. CASE RemoveUnbind(w)
    BY <2>4, UnbindStep
  <2> QED
    BY <1>3, <2>1, <2>2, <2>3, <2>4 DEF RemoveStep
<1>4. ASSUME NEW k \in Keys, RemoveStale(k) \/ \E c \in Chains : PrepareContainer(k, c)
      PROVE  IndInv'
  BY <1>4, RemoveActiveStep, ContainerStep
<1>5. CASE (\E l \in Layers : StoreChanges(l)) \/ LazydDies
               \/ ServerRestarts \/ OrphanDisplaced
  BY <1>5, EnvironmentStep
<1>6. CASE UNCHANGED vars
  <2>1. UNCHANGED <<active, committed, nextId, file, local, instance, listener, leaked,
                    forgotten, contested, crashes, worker>>
    BY <1>6 DEF vars, base, lazyd
  <2>2. TypeOK'
    BY <2>1 DEF IndInv, TypeOK
  <2>3. \A v \in Workers : HandlerOK(v)'
    BY <2>1 DEF IndInv, HandlerOK, Ready, HasFile
  <2> QED
    BY <2>1, <2>2, <2>3
       DEF IndInv, KeysHeldApart, IdsApart, LabelsOK, ChainContent, IsProxy, Published,
           HasFile
<1> QED
  BY <1>1, <1>2, <1>3, <1>4, <1>5, <1>6 DEF Next

(* The inductive invariant of the snapshotter holds of every reachable      *)
(* state, whatever the images, handlers, crashes and lost calls.            *)
THEOREM Invariance ==
    ASSUME SharedBasesAgree
    PROVE  Spec => []IndInv
<1>1. Init => IndInv
  BY InitIndInv
<1>2. IndInv /\ [Next]_vars => IndInv'
  BY NextIndInv
<1> QED
  BY <1>1, <1>2, PTL DEF Spec

(* Every value the handlers, the base snapshotter's tables, the files and  *)
(* lazyd's registry ever take is of its type (snapshotter.go, instance.rs).*)
THEOREM TypeCorrect ==
    ASSUME SharedBasesAgree
    PROVE  Spec => []TypeOK
<1>1. IndInv => TypeOK
  BY DEF IndInv
<1> QED
  BY <1>1, Invariance, PTL

(* If images that share a first layer with a native image go on like it,   *)
(* then whatever handlers run beside each other, fail half-way or are      *)
(* killed, the file of a committed snapshot is complete or designated to   *)
(* lazyd, and holds the layer its chain ID names.                          *)
THEOREM ContentCorrect ==
    ASSUME SharedBasesAgree
    PROVE  Spec => []ChainContent
<1>1. IndInv => ChainContent
  BY DEF IndInv
<1> QED
  BY <1>1, Invariance, PTL

-----------------------------------------------------------------------------
(* lazyd as a service. *)

Registered == {c \in Chains : instance[c] # NoInstance}

ServiceStep == [Service!Next]_<<LazydUp, Registered>>

(* A path nobody answers at has no registry. *)
NoneWhenDown == ~LazydUp => Registered = {}

(* A registry that is lost is empty, whoever answers next. *)
LEMMA LossSeen ==
    ASSUME NoneWhenDown, LoseRegistry
    PROVE  NoneWhenDown' /\ ServiceStep
<1>1. Registered' = {}
  BY DEF LoseRegistry, Registered
<1>2. CASE LazydUp'
  BY <1>1, <1>2 DEF NoneWhenDown, ServiceStep, Registered, Service!Next, Service!Appear
<1>3. CASE LazydUp /\ ~LazydUp'
  BY <1>1, <1>3 DEF NoneWhenDown, ServiceStep, Registered, Service!Next, Service!Vanish
<1>4. CASE ~LazydUp /\ ~LazydUp'
  BY <1>1, <1>4 DEF NoneWhenDown, ServiceStep, LazydUp
<1> QED
  BY <1>2, <1>3, <1>4

(* A step that leaves the registry alone stops no lazyd. *)
LEMMA NoneSeen ==
    ASSUME NoneWhenDown, UNCHANGED instance, UNCHANGED LazydUp
    PROVE  NoneWhenDown' /\ ServiceStep
  BY DEF NoneWhenDown, ServiceStep, Registered

(* A PUT that takes effect registers its chain ID. *)
LEMMA PutSeen ==
    ASSUME NoneWhenDown, IndInv, NEW w \in Workers, PutInstance(w) \/ PutUnanswered(w)
    PROVE  NoneWhenDown' /\ ServiceStep
<1> DEFINE c == worker[w].target
<1>1. LazydUp /\ LazydUp' /\ instance' = [instance EXCEPT ![c] = Mine(w)]
  BY DEF PutInstance, PutUnanswered, CanRegister, LazydUp
<1>2. c \in Chains /\ worker[w].id \in Ids
  BY DEF PutInstance, PutUnanswered, At, IndInv, HandlerOK, PrepareSteps, Holding
<1>3. Mine(w) # NoInstance
  BY <1>2, BoundAssumption DEF Mine, NoInstance, Ids
<1>4. Registered' = Registered \cup {c}
  BY <1>1, <1>2, <1>3 DEF Registered, IndInv, TypeOK
<1> QED
  BY <1>1, <1>2, <1>4
     DEF NoneWhenDown, ServiceStep, Registered, Service!Next, Service!Register

(* A DELETE that takes effect removes its chain ID. *)
LEMMA UnbindSeen ==
    ASSUME NoneWhenDown, IndInv, NEW c \in Chains, UnbindLayer(c)
    PROVE  NoneWhenDown' /\ ServiceStep
<1>1. LazydUp' = LazydUp
  BY DEF UnbindLayer, LazydUp
<1>2. CASE UNCHANGED instance
  BY <1>1, <1>2, NoneSeen
<1>3. CASE LazydUp /\ instance' = [instance EXCEPT ![c] = NoInstance]
  <2>1. Registered' = Registered \ {c}
    BY <1>3 DEF Registered, IndInv, TypeOK
  <2> QED
    BY <1>1, <1>3, <2>1
       DEF NoneWhenDown, ServiceStep, Registered, Service!Next, Service!Unregister
<1> QED
  BY <1>2, <1>3 DEF UnbindLayer

(* Every step is one of the service's, or none of its business. *)
LEMMA NextUsesService ==
    ASSUME NoneWhenDown, IndInv, [Next]_vars
    PROVE  NoneWhenDown' /\ ServiceStep
<1>1. CASE UNCHANGED lazyd
  BY <1>1, NoneSeen DEF lazyd, LazydUp
<1>2. ASSUME NEW w \in Workers, PrepareStep(w) PROVE NoneWhenDown' /\ ServiceStep
  <2>1. CASE PutInstance(w) \/ PutUnanswered(w)
    BY <2>1, PutSeen
  <2>2. CASE CleanupUnbind(w)
    BY <2>2, UnbindSeen DEF CleanupUnbind, At, IndInv, HandlerOK, PrepareSteps
  <2>3. CASE \E k \in Keys, im \in Images :
                \E n \in 1..Len(LegacyLayers[im]) : PrepareStat(w, k, im, n)
    BY <1>1, <2>3 DEF PrepareStat
  <2>4. CASE \/ ResolveAnnotation(w) \/ ResolveParent(w) \/ ResolveNone(w)
             \/ SelectLayer(w) \/ SelectFails(w)
             \/ BasePrepare(w) \/ BasePrepareFails(w)
    BY <1>1, <2>4 DEF ResolveAnnotation, ResolveParent, ResolveNone, SelectLayer,
                      SelectFails, BasePrepare, BasePrepareFails
  <2>5. CASE \/ MaterializeLocal(w) \/ MaterializeFails(w) \/ MaterializeRemote(w)
             \/ EagerBind(w) \/ CreateSparseTarget(w) \/ BindFails(w)
    BY <1>1, <2>5 DEF MaterializeLocal, MaterializeFails, MaterializeRemote, EagerBind,
                      CreateSparseTarget, BindFails
  <2>6. CASE \/ PutFails(w) \/ Commit(w) \/ CommitFails(w)
             \/ CleanupRemove(w) \/ CleanupRemoveFails(w)
    BY <1>1, <2>6 DEF PutFails, Commit, CommitFails, CleanupRemove, CleanupRemoveFails,
                      RemoveActive
  <2> QED
    BY <1>2, <2>1, <2>2, <2>3, <2>4, <2>5, <2>6 DEF PrepareStep
<1>3. ASSUME NEW w \in Workers, ClientStep(w) PROVE NoneWhenDown' /\ ServiceStep
  BY <1>1, <1>3 DEF ClientStep, Apply, ClientCommit, ClientAbort, RemoveActive
<1>4. ASSUME NEW w \in Workers, RemoveStep(w) PROVE NoneWhenDown' /\ ServiceStep
  <2>1. CASE RemoveUnbind(w)
    BY <2>1, UnbindSeen DEF RemoveUnbind, At, IndInv, HandlerOK, RemoveSteps
  <2>2. CASE \E c \in Chains : RemoveStat(w, c)
    BY <1>1, <2>2 DEF RemoveStat
  <2>3. CASE BaseRemove(w) \/ BaseRemoveFails(w)
    BY <1>1, <2>3 DEF BaseRemove, BaseRemoveFails
  <2> QED
    BY <1>4, <2>1, <2>2, <2>3 DEF RemoveStep
<1>5. ASSUME NEW k \in Keys, RemoveStale(k) \/ \E c \in Chains : PrepareContainer(k, c)
      PROVE  NoneWhenDown' /\ ServiceStep
  BY <1>1, <1>5 DEF RemoveStale, RemoveActive, PrepareContainer
<1>6. CASE \E l \in Layers : StoreChanges(l)
  BY <1>1, <1>6 DEF StoreChanges
<1>7. CASE LazydDies \/ OrphanDisplaced
  BY <1>7, LossSeen DEF LazydDies, OrphanDisplaced
<1>8. CASE ServerRestarts
  <2>1. CASE LazydUp /\ listener' = "orphan" /\ UNCHANGED instance
    BY <2>1, NoneSeen DEF LazydUp
  <2> QED
    BY <1>8, <2>1, LossSeen DEF ServerRestarts
<1>9. CASE UNCHANGED vars
  BY <1>1, <1>9 DEF vars
<1> QED
  BY <1>2, <1>3, <1>4, <1>5, <1>6, <1>7, <1>8, <1>9 DEF Next

(* What the snapshotter, its crashes and lost calls, and a restarted server*)
(* make of lazyd's registry never goes beyond the service that the lazyd   *)
(* processes are shown to implement (daemon/lazyd.go, control.rs).         *)
THEOREM ServiceIsEnough ==
    ASSUME SharedBasesAgree
    PROVE  Spec => UsesService
<1>1. Init => NoneWhenDown /\ Service!Init
  BY DEF Init, NoneWhenDown, Registered, Service!Init, LazydUp
<1>2. NoneWhenDown /\ IndInv /\ [Next]_vars => NoneWhenDown' /\ ServiceStep
  BY NextUsesService
<1> QED
  BY <1>1, <1>2, Invariance, PTL
     DEF Spec, UsesService, Service!Spec, ServiceStep, Registered

-----------------------------------------------------------------------------
(* The snapshots as a store of layers. *)

Contents == [c \in {d \in Chains : Published(d)} |->
                IF file[committed[c].id].state = "partial" THEN NoLayer
                ELSE file[committed[c].id].layer]

StoreStep == [Store!Next]_Contents

(* Snapshots rest on published ones: base.Prepare checks it, and           *)
(* base.Remove keeps it.  A handler's own snapshot rests on its target's   *)
(* parent.                                                                 *)
RestsOn(p) == p = <<>> \/ Published(p)

Rooted ==
    /\ \A c \in Chains : Published(c) => RestsOn(Parent(c))
    /\ \A k \in Keys : active[k].id # 0 => RestsOn(active[k].parent)
    /\ \A w \in Workers : worker[w].pc \in Holding =>
          active[worker[w].key].parent = Parent(worker[w].target)

(* What is published is its own content. *)
LEMMA ContentsTop ==
    ASSUME IndInv, IndInv'
    PROVE  /\ Contents = [c \in {d \in Chains : Published(d)} |-> Top(c)]
           /\ Contents' = [c \in {d \in Chains : Published(d)'} |-> Top(c)]
<1>1. \A c \in Chains : Published(c) =>
         (IF file[committed[c].id].state = "partial" THEN NoLayer
          ELSE file[committed[c].id].layer) = Top(c)
  BY DEF IndInv, ChainContent
<1>2. \A c \in Chains : Published(c)' =>
         (IF file'[committed'[c].id].state = "partial" THEN NoLayer
          ELSE file'[committed'[c].id].layer) = Top(c)
  BY DEF IndInv, ChainContent
<1> QED
  BY <1>1, <1>2 DEF Contents

(* A chain without a parent is one layer. *)
LEMMA NoParentIsFirst ==
    ASSUME NEW c \in Chains, Parent(c) = <<>>
    PROVE  Len(c) = 1
<1>1. c \in Seq(Layers) /\ Len(c) \in Nat \ {0}
  BY ChainShape
<1>2. Len(Parent(c)) = Len(c) - 1
  BY <1>1 DEF Parent
<1>3. Len(Parent(c)) = 0
  OBVIOUS
<1> QED
  BY <1>1, <1>2, <1>3

(* As long as the same chain IDs are published, the store is the same. *)
LEMMA StoreStutters ==
    ASSUME IndInv, IndInv', \A c \in Chains : Published(c)' = Published(c)
    PROVE  StoreStep
<1>1. {d \in Chains : Published(d)'} = {d \in Chains : Published(d)}
  OBVIOUS
<1>2. Contents' = Contents
  BY <1>1, ContentsTop
<1> QED
  BY <1>2 DEF StoreStep

(* A chain ID that is published joins the store, on top of its parent. *)
LEMMA StorePublishes ==
    ASSUME IndInv, IndInv', NEW c \in Chains, ~Published(c), RestsOn(Parent(c)),
           \A d \in Chains : Published(d)' = (Published(d) \/ d = c)
    PROVE  StoreStep
<1> DEFINE D == {d \in Chains : Published(d)}
<1>1. {d \in Chains : Published(d)'} = D \cup {c} /\ c \notin D
  OBVIOUS
<1>2. Contents = [d \in D |-> Top(d)] /\ Contents' = [d \in D \cup {c} |-> Top(d)]
  BY <1>1, ContentsTop
<1>3. Len(c) = 1 \/ Parent(c) \in D
  <2>1. Parent(c) = <<>> => Len(c) = 1
    BY NoParentIsFirst
  <2>2. Published(Parent(c)) => Parent(c) \in Chains
    BY DEF IndInv, TypeOK, Published
  <2> QED
    BY <2>1, <2>2 DEF RestsOn
<1>4. DOMAIN Contents = D
  BY <1>2
<1>5. Contents' = [d \in DOMAIN Contents \cup {c} |-> IF d = c THEN Top(c) ELSE Contents[d]]
  <2> HIDE DEF D
  <2> QED
    BY <1>1, <1>2, <1>4
<1>6. Store!Publish(c)
  <2> HIDE DEF D
  <2> QED
    BY <1>1, <1>3, <1>4, <1>5 DEF Store!Publish, Store!Top, Store!Parent, Top, Parent, Contents
<1> QED
  BY <1>6 DEF StoreStep, Store!Next

(* A chain ID that nothing published rests on leaves it. *)
LEMMA StoreDrops ==
    ASSUME IndInv, IndInv', NEW c \in Chains, Published(c),
           \A d \in Chains : Published(d) => Parent(d) # c,
           \A d \in Chains : Published(d)' = (Published(d) /\ d # c)
    PROVE  StoreStep
<1> DEFINE D == {d \in Chains : Published(d)}
<1>1. {d \in Chains : Published(d)'} = D \ {c} /\ c \in D
  OBVIOUS
<1>2. Contents = [d \in D |-> Top(d)] /\ Contents' = [d \in D \ {c} |-> Top(d)]
  BY <1>1, ContentsTop
<1>3. \A d \in D : Parent(d) # c
  OBVIOUS
<1>4. DOMAIN Contents = D
  BY <1>2
<1>5. Contents' = [d \in DOMAIN Contents \ {c} |-> Contents[d]]
  <2> HIDE DEF D
  <2> QED
    BY <1>1, <1>2, <1>4
<1>6. Store!Drop(c)
  <2> HIDE DEF D
  <2> QED
    BY <1>1, <1>3, <1>4, <1>5 DEF Store!Drop, Store!Parent, Parent, Contents
<1> QED
  BY <1>6 DEF StoreStep, Store!Next

-----------------------------------------------------------------------------
(* The kinds of steps. *)

(* Most change no snapshot, and a handler keeps the one it holds. *)
Steady(w) ==
    /\ UNCHANGED <<active, committed>>
    /\ \A v \in Workers \ {w} : worker'[v] = worker[v]
    /\ worker'[w].pc \in Holding =>
          /\ worker[w].pc \in Holding
          /\ worker'[w].key = worker[w].key /\ worker'[w].target = worker[w].target

(* A steady step is a stutter of LayerStore. *)
LEMMA SteadyStep ==
    ASSUME IndInv, IndInv', Rooted, NEW w \in Workers, Steady(w)
    PROVE  Rooted' /\ StoreStep
<1>1. \A c : Published(c)' = Published(c)
  BY DEF Steady, Published
<1>2. Rooted'
  BY <1>1 DEF Rooted, RestsOn, Steady
<1> QED
  BY <1>1, <1>2, StoreStutters

(* A handler that returns holds nothing any more. *)
LEMMA IdleSteady ==
    ASSUME IndInv, NEW w \in Workers, Return(w), UNCHANGED <<active, committed>>
    PROVE  Steady(w)
<1>1. worker'[w].pc = "idle" /\ \A v \in Workers \ {w} : worker'[v] = worker[v]
  BY DEF IndInv, TypeOK, Return, Idle
<1> QED
  BY <1>1 DEF Steady, Holding, ClientSteps

(* A handler that goes on, or gives up, holds what it held. *)
LEMMA OnwardSteady ==
    ASSUME IndInv, NEW w \in Workers, NEW pc \in Steps,
           \/ Goto(w, pc)
           \/ worker' = [worker EXCEPT ![w].pc = pc, ![w].unbind = TRUE],
           pc \in Holding => worker[w].pc \in Holding,
           UNCHANGED <<active, committed>>
    PROVE  Steady(w)
  BY GotoOnward DEF IndInv, Onward, Steady

(* A handler that fails goes to its cleanup, and still holds its snapshot. *)
LEMMA FailSteady ==
    ASSUME IndInv, NEW w \in Workers, Fail(w), worker[w].pc \in Holding,
           UNCHANGED <<active, committed>>
    PROVE  Steady(w)
<1>1. PICK pc \in {"unbind", "undo"} : Goto(w, pc)
  BY DEF Fail
<1> QED
  BY <1>1, OnwardSteady, StepNames

(* The steps before the layer's snapshot is created change no snapshot. *)
LEMMA ResolveSteady ==
    ASSUME IndInv, NEW w \in Workers,
           \/ \E k \in Keys, im \in Images :
                 \E n \in 1..Len(LegacyLayers[im]) : PrepareStat(w, k, im, n)
           \/ ResolveAnnotation(w) \/ ResolveParent(w) \/ ResolveNone(w)
           \/ \E c \in Chains : RemoveStat(w, c)
    PROVE  Steady(w)
<1>1. worker'[w].pc \in {"resolve", "manifest", "delegate", "baseRemove"}
  <2>1. worker \in [Workers -> Handlers] /\ worker[w] \in Handlers
    BY DEF IndInv, TypeOK
  <2>2. ASSUME NEW k \in Keys, NEW im \in Images, NEW n \in 1..Len(LegacyLayers[im]),
               PrepareStat(w, k, im, n)
        PROVE  worker'[w].pc = "resolve"
    BY <2>1, <2>2 DEF PrepareStat, Idle
  <2>3. ASSUME NEW c \in Chains, RemoveStat(w, c) PROVE worker'[w].pc = "baseRemove"
    BY <2>1, <2>3 DEF RemoveStat, Idle
  <2>4. CASE ResolveAnnotation(w) \/ ResolveParent(w)
    BY <2>1, <2>4 DEF ResolveAnnotation, ResolveParent, Handlers
  <2>5. CASE ResolveNone(w)
    BY <2>1, <2>5 DEF ResolveNone, Goto, Handlers
  <2> QED
    BY <2>2, <2>3, <2>4, <2>5
<1>2. UNCHANGED <<active, committed>> /\ \A v \in Workers \ {w} : worker'[v] = worker[v]
  BY DEF PrepareStat, ResolveAnnotation, ResolveParent, ResolveNone, RemoveStat, Goto,
         IndInv, TypeOK, base
<1> QED
  BY <1>1, <1>2 DEF Steady, Holding, ClientSteps

(* A snapshot that is prepared rests on one that is published. *)
LEMMA BasePrepareRooted ==
    ASSUME IndInv, IndInv', Rooted, NEW w \in Workers, BasePrepare(w)
    PROVE  Rooted' /\ StoreStep
<1> DEFINE r == worker[w]
           k == r.key
<1>1. /\ r.pc \in {"base", "delegate"} /\ k \in Keys
      /\ active[k].id = 0 /\ RestsOn(Parent(r.target))
      /\ UNCHANGED committed
  BY DEF BasePrepare, CanBasePrepare, RestsOn, IndInv, HandlerOK, PrepareSteps
<1>2. /\ active'[k].parent = Parent(r.target)
      /\ \A j \in Keys \ {k} : active'[j] = active[j]
  BY <1>1 DEF BasePrepare, IndInv, TypeOK
<1>3. /\ worker'[w].key = k /\ worker'[w].target = r.target
      /\ \A v \in Workers \ {w} : worker'[v] = worker[v]
  <2>1. r \in Handlers
    BY DEF IndInv, TypeOK
  <2> QED
    BY <2>1 DEF BasePrepare, IndInv, TypeOK, Handlers
<1>4. \A v \in Workers \ {w} : worker[v].pc \in Holding => worker[v].key \in Keys \ {k}
  BY <1>1, Held
<1>5. \A c : Published(c)' = Published(c)
  BY <1>1 DEF Published
<1>6. Rooted'
  BY <1>1, <1>2, <1>3, <1>4, <1>5 DEF Rooted, RestsOn
<1> QED
  BY <1>5, <1>6, StoreStutters

(* A container's snapshot is on a layer that is there. *)
LEMMA ContainerRooted ==
    ASSUME IndInv, IndInv', Rooted, NEW k \in Keys, NEW c \in Chains, PrepareContainer(k, c)
    PROVE  Rooted' /\ StoreStep
<1>1. /\ active[k].id = 0 /\ RestsOn(c) /\ UNCHANGED <<committed, worker>>
      /\ active'[k].parent = c
      /\ \A j \in Keys \ {k} : active'[j] = active[j]
  BY DEF PrepareContainer, RestsOn, IndInv, TypeOK
<1>2. \A v \in Workers : worker[v].pc \in Holding => worker[v].key \in Keys \ {k}
  BY <1>1, Held
<1>3. \A d : Published(d)' = Published(d)
  BY <1>1 DEF Published
<1>4. Rooted'
  BY <1>1, <1>2, <1>3 DEF Rooted, RestsOn
<1> QED
  BY <1>3, <1>4, StoreStutters

(* Nobody else holds an active snapshot that is removed. *)
LEMMA RemoveActiveRooted ==
    ASSUME IndInv, IndInv', Rooted, NEW k \in Keys, RemoveActive(k),
           \A v \in Workers :
              \/ worker'[v] = Idle
              \/ worker'[v] = worker[v] /\ (worker[v].pc \in Holding => worker[v].key # k)
    PROVE  Rooted' /\ StoreStep
<1>1. /\ active'[k].id = 0 /\ UNCHANGED committed
      /\ \A j \in Keys \ {k} : active'[j] = active[j]
  BY DEF RemoveActive, NoActive, IndInv, TypeOK
<1>2. \A c : Published(c)' = Published(c)
  BY <1>1 DEF Published
<1>3. ASSUME NEW v \in Workers, worker'[v].pc \in Holding
      PROVE  active'[worker'[v].key].parent = Parent(worker'[v].target)
  <2>1. worker'[v] = worker[v] /\ worker[v].key \in Keys \ {k}
    BY <1>3, Held DEF Idle, Holding, ClientSteps
  <2> QED
    BY <1>1, <1>3, <2>1 DEF Rooted
<1>4. Rooted'
  BY <1>1, <1>2, <1>3 DEF Rooted, RestsOn
<1> QED
  BY <1>2, <1>4, StoreStutters

(* The cleanup, the client and the sweep of stale keys remove active       *)
(* snapshots.                                                              *)
LEMMA RemovalsRooted ==
    ASSUME IndInv, IndInv', Rooted,
           \/ \E w \in Workers : CleanupRemove(w) \/ ClientAbort(w)
           \/ \E k \in Keys : RemoveStale(k)
    PROVE  Rooted' /\ StoreStep
<1>1. ASSUME NEW w \in Workers, CleanupRemove(w) \/ ClientAbort(w)
      PROVE  Rooted' /\ StoreStep
  <2>1. worker[w].pc \in Holding /\ RemoveActive(worker[w].key) /\ Return(w)
    BY <1>1 DEF CleanupRemove, ClientAbort, At, Holding
  <2>2. worker'[w] = Idle /\ \A v \in Workers \ {w} : worker'[v] = worker[v]
    BY <2>1 DEF Return, IndInv, TypeOK
  <2>3. \A v \in Workers \ {w} : worker[v].pc \in Holding => worker[v].key # worker[w].key
    BY <2>1 DEF IndInv, KeysHeldApart
  <2>4. worker[w].key \in Keys
    BY <2>1, Held
  <2> QED
    BY <2>1, <2>2, <2>3, <2>4, RemoveActiveRooted
<1>2. ASSUME NEW k \in Keys, RemoveStale(k)
      PROVE  Rooted' /\ StoreStep
  BY <1>2, RemoveActiveRooted DEF RemoveStale
<1> QED
  BY <1>1, <1>2

(* What is committed rests where it was prepared. *)
LEMMA CommitRooted ==
    ASSUME IndInv, IndInv', Rooted, NEW w \in Workers, Commit(w) \/ ClientCommit(w)
    PROVE  Rooted' /\ StoreStep
<1> DEFINE c == worker[w].target
           k == worker[w].key
<1>1. /\ worker[w].pc \in Holding /\ ~Published(c) /\ Return(w)
      /\ active' = [active EXCEPT ![k] = NoActive]
  BY DEF Commit, ClientCommit, At, Holding, ClientSteps
<1>2. /\ k \in Keys /\ c \in Chains /\ active[k].id \in Ids /\ active[k].id # 0
      /\ active[k].parent = Parent(c)
  BY <1>1, Held DEF Rooted
<1>3. /\ committed'[c].id = active[k].id
      /\ \A d \in Chains \ {c} : committed'[d] = committed[d]
      /\ DOMAIN committed = Chains /\ DOMAIN committed' = Chains
  BY <1>2 DEF Commit, ClientCommit, IndInv, TypeOK
<1>4. \A d \in Chains : Published(d)' = (Published(d) \/ d = c)
  BY <1>2, <1>3 DEF Published
<1>5. /\ active'[k].id = 0
      /\ \A j \in Keys \ {k} : active'[j] = active[j]
  BY <1>1, <1>2 DEF NoActive, IndInv, TypeOK
<1>6. \A p : RestsOn(p) => RestsOn(p)'
  BY <1>3, <1>4 DEF RestsOn, Published
<1>7. RestsOn(Parent(c))
  BY <1>2 DEF Rooted
<1>8. ASSUME NEW v \in Workers, worker'[v].pc \in Holding
      PROVE  active'[worker'[v].key].parent = Parent(worker'[v].target)
  <2>1. v # w /\ worker'[v] = worker[v]
    BY <1>1, <1>8 DEF Return, Idle, Holding, ClientSteps, IndInv, TypeOK
  <2>2. worker[v].key \in Keys \ {k}
    BY <1>1, <1>8, <2>1, Held DEF IndInv, KeysHeldApart
  <2> QED
    BY <1>5, <1>8, <2>1, <2>2 DEF Rooted
<1>9. Rooted'
  BY <1>4, <1>5, <1>6, <1>7, <1>8 DEF Rooted
<1> QED
  BY <1>1, <1>2, <1>4, <1>7, <1>9, StorePublishes

(* What base.Remove removes bears nothing. *)
LEMMA BaseRemoveRooted ==
    ASSUME IndInv, IndInv', Rooted, NEW w \in Workers, BaseRemove(w)
    PROVE  Rooted' /\ StoreStep
<1> DEFINE c == worker[w].target
<1>1. /\ worker[w].pc = "baseRemove" /\ Published(c) /\ ~HasChildren(c)
      /\ committed' = [committed EXCEPT ![c] = NoCommitted]
      /\ UNCHANGED active
      /\ c \in Chains /\ DOMAIN committed = Chains
  BY DEF BaseRemove, At, Published, IndInv, TypeOK
<1>2. \A d : Published(d)' = (Published(d) /\ d # c)
  BY <1>1 DEF Published, NoCommitted
<1>3. /\ \A d \in Chains : Published(d) => Parent(d) # c
      /\ \A k \in Keys : active[k].id # 0 => active[k].parent # c
  BY <1>1 DEF HasChildren
<1>4. worker'[w].pc \notin Holding /\ \A v \in Workers \ {w} : worker'[v] = worker[v]
  BY DEF BaseRemove, Goto, Return, Idle, Holding, ClientSteps, IndInv, TypeOK, Handlers
<1>5. Rooted'
  BY <1>1, <1>2, <1>3, <1>4 DEF Rooted, RestsOn
<1> QED
  BY <1>1, <1>2, <1>3, <1>5, StoreDrops

(* Crashes and the daemon leave the snapshots alone. *)
LEMMA EnvironmentRooted ==
    ASSUME IndInv, IndInv', Rooted,
           \/ \E l \in Layers : StoreChanges(l)
           \/ LazydDies \/ ServerRestarts \/ OrphanDisplaced
           \/ UNCHANGED vars
    PROVE  Rooted' /\ StoreStep
<1>1. UNCHANGED <<active, committed>>
  BY DEF StoreChanges, LazydDies, ServerRestarts, OrphanDisplaced, vars, base
<1>2. \A v \in Workers : worker'[v].pc \in Holding => worker'[v] = worker[v]
  BY DEF StoreChanges, LazydDies, ServerRestarts, OrphanDisplaced, vars, Idle, Holding,
         ClientSteps
<1>3. \A c : Published(c)' = Published(c)
  BY <1>1 DEF Published
<1>4. Rooted'
  BY <1>1, <1>2, <1>3 DEF Rooted, RestsOn
<1> QED
  BY <1>3, <1>4, StoreStutters

(* Every step is one of the store's, or none of its business. *)
LEMMA NextStores ==
    ASSUME IndInv, IndInv', Rooted, [Next]_vars
    PROVE  Rooted' /\ StoreStep
<1>1. ASSUME NEW w \in Workers, PrepareStep(w) PROVE Rooted' /\ StoreStep
  <2>1. CASE \/ \E k \in Keys, im \in Images :
                   \E n \in 1..Len(LegacyLayers[im]) : PrepareStat(w, k, im, n)
             \/ ResolveAnnotation(w) \/ ResolveParent(w) \/ ResolveNone(w)
    BY <2>1, ResolveSteady, SteadyStep
  <2>2. CASE SelectFails(w) \/ BasePrepareFails(w) \/ CleanupRemoveFails(w)
    BY <2>2, IdleSteady, SteadyStep DEF SelectFails, BasePrepareFails, CleanupRemoveFails, base
  <2>3. CASE SelectLayer(w)
    BY <2>3, OnwardSteady, SteadyStep, StepNames DEF SelectLayer, Holding, ClientSteps, base
  <2>4. CASE BasePrepare(w)
    BY <2>4, BasePrepareRooted
  <2>5. CASE MaterializeLocal(w) \/ MaterializeRemote(w) \/ CreateSparseTarget(w)
    <3>1. worker[w].pc \in Holding /\ UNCHANGED <<active, committed>>
      BY <2>5 DEF MaterializeLocal, MaterializeRemote, CreateSparseTarget, At, Holding, base
    <3>2. PICK pc \in {"commit", "bind", "put"} : Goto(w, pc)
      BY <2>5 DEF MaterializeLocal, MaterializeRemote, CreateSparseTarget
    <3> QED
      BY <3>1, <3>2, OnwardSteady, SteadyStep, StepNames
  <2>6. CASE EagerBind(w) \/ PutInstance(w)
    <3>1. /\ worker[w].pc \in Holding /\ UNCHANGED <<active, committed>>
          /\ worker' = [worker EXCEPT ![w].pc = "commit", ![w].unbind = TRUE]
      BY <2>6 DEF EagerBind, PutInstance, At, Holding, base
    <3> QED
      BY <3>1, OnwardSteady, SteadyStep, StepNames
  <2>7. CASE \/ MaterializeFails(w) \/ BindFails(w) \/ PutFails(w) \/ PutUnanswered(w)
             \/ CommitFails(w)
    <3>1. worker[w].pc \in Holding /\ UNCHANGED <<active, committed>> /\ Fail(w)
      BY <2>7 DEF MaterializeFails, BindFails, PutFails, PutUnanswered, CommitFails, At,
                  Holding, base
    <3> QED
      BY <3>1, FailSteady, SteadyStep
  <2>8. CASE Commit(w)
    BY <2>8, CommitRooted
  <2>9. CASE CleanupUnbind(w)
    <3>1. worker[w].pc \in Holding /\ UNCHANGED <<active, committed>> /\ Goto(w, "undo")
      BY <2>9 DEF CleanupUnbind, At, Holding, base
    <3> QED
      BY <3>1, OnwardSteady, SteadyStep, StepNames
  <2>10. CASE CleanupRemove(w)
    BY <2>10, RemovalsRooted
  <2> QED
    BY <1>1, <2>1, <2>2, <2>3, <2>4, <2>5, <2>6, <2>7, <2>8, <2>9, <2>10 DEF PrepareStep
<1>2. ASSUME NEW w \in Workers, ClientStep(w) PROVE Rooted' /\ StoreStep
  <2>1. CASE Apply(w)
    <3>1. worker[w].pc \in Holding /\ UNCHANGED <<active, committed>> /\ Goto(w, "extracted")
      BY <2>1 DEF Apply, At, Holding, ClientSteps, base
    <3> QED
      BY <3>1, OnwardSteady, SteadyStep, StepNames
  <2> QED
    BY <1>2, <2>1, CommitRooted, RemovalsRooted DEF ClientStep
<1>3. ASSUME NEW w \in Workers, RemoveStep(w) PROVE Rooted' /\ StoreStep
  <2>1. CASE \E c \in Chains : RemoveStat(w, c)
    BY <2>1, ResolveSteady, SteadyStep
  <2>2. CASE BaseRemove(w)
    BY <2>2, BaseRemoveRooted
  <2>3. CASE BaseRemoveFails(w) \/ RemoveUnbind(w)
    BY <2>3, IdleSteady, SteadyStep DEF BaseRemoveFails, RemoveUnbind, base
  <2> QED
    BY <1>3, <2>1, <2>2, <2>3 DEF RemoveStep
<1>4. ASSUME NEW k \in Keys, RemoveStale(k) \/ \E c \in Chains : PrepareContainer(k, c)
      PROVE  Rooted' /\ StoreStep
  BY <1>4, RemovalsRooted, ContainerRooted
<1>5. CASE \/ \E l \in Layers : StoreChanges(l)
           \/ LazydDies \/ ServerRestarts \/ OrphanDisplaced
           \/ UNCHANGED vars
  BY <1>5, EnvironmentRooted
<1> QED
  BY <1>1, <1>2, <1>3, <1>4, <1>5 DEF Next

(* At the start nothing is published, and nothing prepared. *)
LEMMA InitStores == Init => Rooted /\ Store!Init
<1> SUFFICES ASSUME Init PROVE Rooted /\ Store!Init
  OBVIOUS
<1>1. \A c : ~Published(c)
  BY DEF Init, Published, NoCommitted
<1>2. Rooted
  BY <1>1 DEF Init, Rooted, NoActive, Idle, Holding, ClientSteps
<1> QED
  BY <1>1, <1>2 DEF Store!Init

(* The snapshots are a store of layers as containerd relies on: however    *)
(* handlers, failures and crashes interleave, a layer appears under its    *)
(* chain ID whole, with its own content and on a parent that is there,     *)
(* stays as it is, and goes only when nothing rests on it                  *)
(* (snapshotter.go Prepare, Commit, Remove).                               *)
THEOREM StoreImplemented ==
    ASSUME SharedBasesAgree
    PROVE  Spec => ImplementsStore
<1>1. Rooted /\ IndInv /\ IndInv' /\ [Next]_vars => Rooted' /\ StoreStep
  BY NextStores
<1> QED
  BY <1>1, InitStores, Invariance, PTL
     DEF Spec, ImplementsStore, Store!Spec, StoreStep, Contents

-----------------------------------------------------------------------------
(* What lazyd's registry and the proxy labels say of the snapshots, when   *)
(* the caller never runs a Remove beside a Prepare, as containerd's        *)
(* metadata store does not.                                                *)

(* A Remove runs alone but for clients that unpack. *)
RemoverAlone ==
    \A v, w \in Workers :
        v # w /\ worker[v].pc \in RemoveSteps =>
            worker[w].pc \notin PrepareSteps \cup RemoveSteps

(* The steps of Prepare before it has bound a layer, and those at which it *)
(* answers for the one it bound.                                           *)
Early == {"resolve", "delegate", "manifest", "base", "materialize", "bind", "put"}
Owing == {"commit", "unbind"}

(* The instance is the handler's own, unless the lazyd it was bound to is  *)
(* gone.                                                                   *)
Bound(w) ==
    LET r == worker[w]
    IN  /\ Daemon = "lazyd"
        /\ r.pc \in Owing /\ r.unbind
        /\ r.target \notin contested
        /\ LazydUp \/ r.id \notin forgotten
        => instance[r.target] = [id |-> r.id, layer |-> Top(r.target)]

(* What ResolveParent read of the parent is true to the end. *)
FollowsParent(w) ==
    LET r == worker[w]
        p == Parent(r.target)
    IN  r.pc \in Selected \cup {"manifest"} /\ Len(r.target) > 1 =>
            IsProxy(p) /\ committed[p].manifest = r.manifest

ServingOK(w) ==
    LET r == worker[w]
    IN  /\ r.pc \in Early => ~r.unbind
        /\ r.pc = "baseRemove" => r.unbind = IsProxy(r.target)
        /\ r.pc = "revoke" => ~Published(r.target)
        /\ r.pc \in {"revoke", "unbind"} => r.unbind
        /\ r.pc = "extracted" \/ (r.pc = "commit" /\ ~r.unbind) =>
              file[r.id].state # "sparse"
        /\ Bound(w)
        /\ FollowsParent(w)

(* Each instance has a snapshot, or a handler that will see to it. *)
Owns(w, c) ==
    /\ worker[w].target = c
    /\ worker[w].unbind
    /\ \/ worker[w].pc = "revoke"
       \/ worker[w].pc \in Owing /\ worker[w].id = instance[c].id

Owned ==
    \A c \in Chains \ leaked :
        instance[c] # NoInstance =>
            \/ IsProxy(c) /\ committed[c].id = instance[c].id
            \/ \E w \in Workers : Owns(w, c)

Serving ==
    /\ RemoverAlone
    /\ \A w \in Workers : ServingOK(w)
    /\ Owned
    /\ Served
    /\ LabelsFollowParent

-----------------------------------------------------------------------------
(* The steps that leave the tables of snapshots and instances alone. *)

(* Snapshots a handler holds are neither another's nor committed. *)
LEMMA HeldApart ==
    ASSUME IndInv, NEW w \in Workers, worker[w].pc \in Holding
    PROVE  /\ worker[w].id \in Ids /\ worker[w].id # 0
           /\ \A v \in Workers : v # w /\ worker[v].pc \in Holding =>
                  worker[v].id # worker[w].id
           /\ \A c \in Chains : Published(c) => committed[c].id # worker[w].id
<1>1. /\ worker[w].key \in Keys /\ worker[w].id \in Ids /\ worker[w].id # 0
      /\ active[worker[w].key].id = worker[w].id
  BY Held
<1>2. \A v \in Workers : v # w /\ worker[v].pc \in Holding =>
          worker[v].key \in Keys /\ worker[v].key # worker[w].key
          /\ active[worker[v].key].id = worker[v].id
  BY Held DEF IndInv, KeysHeldApart
<1>3. \A v \in Workers : v # w /\ worker[v].pc \in Holding => worker[v].id # worker[w].id
  BY <1>1, <1>2 DEF IndInv, IdsApart
<1>4. \A c \in Chains : Published(c) => committed[c].id # worker[w].id
  BY <1>1 DEF IndInv, IdsApart
<1> QED
  BY <1>1, <1>3, <1>4

(* A step of one handler on its own locals and its own file. *)
Calm(w) ==
    /\ UNCHANGED <<committed, instance, listener, leaked, forgotten, contested>>
    /\ \A v \in Workers \ {w} : worker'[v] = worker[v]
    /\ \A i \in Ids : file'[i] # file[i] => worker[w].pc \in Holding /\ i = worker[w].id
    /\ worker[w].pc # "revoke"
    /\ worker[w].pc \in Owing /\ worker[w].unbind =>
          /\ worker'[w].pc \in Owing /\ worker'[w].unbind
          /\ worker'[w].target = worker[w].target /\ worker'[w].id = worker[w].id

(* Such a step is right if it is for its own handler. *)
LEMMA CalmStep ==
    ASSUME IndInv, Serving, NEW w \in Workers, Calm(w), ServingOK(w)', RemoverAlone'
    PROVE  Serving'
<1>1. ASSUME NEW v \in Workers, v # w PROVE ServingOK(v)'
  <2>1. worker'[v] = worker[v] /\ ServingOK(v)
    BY <1>1 DEF Calm, Serving
  <2>2. worker[v].pc \in {"commit", "extracted"} =>
            file'[worker[v].id] = file[worker[v].id]
    <3>1. worker[v].pc \in {"commit", "extracted"} => worker[v].pc \in Holding
      BY DEF Holding, ClientSteps
    <3> QED
      BY <1>1, <3>1, HeldApart DEF Calm
  <2> QED
    BY <2>1, <2>2
       DEF Calm, ServingOK, Bound, FollowsParent, IsProxy, Published, LazydUp
<1>2. Owned'
  <2> SUFFICES ASSUME NEW c \in Chains \ leaked, instance[c] # NoInstance,
                      NEW v \in Workers, Owns(v, c)
               PROVE  Owns(v, c)'
    BY DEF Serving, Owned, Calm, IsProxy, Published
  <2>1. CASE v = w
    BY <2>1 DEF Owns, Calm
  <2>2. CASE v # w
    BY <2>2 DEF Owns, Calm
  <2> QED
    BY <2>1, <2>2
<1>3. Served'
  <2> SUFFICES ASSUME Daemon = "lazyd", NEW c \in Chains \ contested, Published(c),
                      committed[c].id \notin forgotten,
                      file'[committed[c].id].state = "sparse"
               PROVE  instance[c] = [id |-> committed[c].id,
                                     layer |-> file'[committed[c].id].layer]
    BY DEF Served, Calm, Published
  <2>1. committed[c].id \in Ids
    BY BoundAssumption DEF Published, IndInv, TypeOK, Ids, SnapIds
  <2>2. file'[committed[c].id] = file[committed[c].id]
    BY <2>1, HeldApart DEF Calm
  <2> QED
    BY <2>2 DEF Serving, Served
<1>4. LabelsFollowParent'
  BY DEF Serving, LabelsFollowParent, Calm, IsProxy, Published
<1> QED
  BY <1>1, <1>2, <1>3, <1>4 DEF Serving

(* What a handler's locals are after it moves to another step. *)
Moved(w, pc, unbind) ==
    /\ worker'[w].pc = pc /\ worker'[w].unbind = unbind
    /\ worker'[w].target = worker[w].target /\ worker'[w].id = worker[w].id
    /\ worker'[w].manifest = worker[w].manifest
    /\ \A v \in Workers \ {w} : worker'[v] = worker[v]

(* Goto, Fail and Return, by what they leave in the locals. *)
LEMMA Moves ==
    ASSUME TypeOK, NEW w \in Workers, NEW pc
    PROVE  /\ Goto(w, pc) => Moved(w, pc, worker[w].unbind)
           /\ Goto(w, pc) /\ ~worker[w].unbind => Moved(w, pc, FALSE)
           /\ worker' = [worker EXCEPT ![w].pc = pc, ![w].unbind = TRUE] =>
                  Moved(w, pc, TRUE)
           /\ Fail(w) => \/ worker[w].unbind /\ Moved(w, "unbind", TRUE)
                         \/ ~worker[w].unbind /\ Moved(w, "undo", FALSE)
           /\ Return(w) => /\ worker'[w] = Idle
                           /\ \A v \in Workers \ {w} : worker'[v] = worker[v]
<1>1. worker \in [Workers -> Handlers] /\ worker[w] \in Handlers
  BY DEF TypeOK
<1>2. worker[w].unbind \in BOOLEAN
  BY <1>1 DEF Handlers
<1>3. \A p : worker' = [worker EXCEPT ![w].pc = p] => Moved(w, p, worker[w].unbind)
  BY <1>1 DEF Moved, Handlers
<1>4. worker' = [worker EXCEPT ![w].pc = pc, ![w].unbind = TRUE] => Moved(w, pc, TRUE)
  BY <1>1 DEF Moved, Handlers
<1>5. ~worker[w].unbind => worker[w].unbind = FALSE
  BY <1>2
<1>6. worker[w].unbind => worker[w].unbind = TRUE
  BY <1>2
<1> QED
  BY <1>1, <1>3, <1>4, <1>5, <1>6 DEF Goto, Fail, Return

(* An idle handler has nothing to keep. *)
LEMMA IdleServes ==
    ASSUME NEW w \in Workers, worker'[w] = Idle
    PROVE  ServingOK(w)'
  BY DEF ServingOK, Bound, FollowsParent, Idle, Early, Owing, Selected

(* A handler that does not begin a Prepare or a Remove leaves the one that  *)
(* removes alone.                                                           *)
LEMMA StaysAlone ==
    ASSUME RemoverAlone, NEW w \in Workers,
           \A v \in Workers \ {w} : worker'[v] = worker[v],
           worker'[w].pc \in RemoveSteps => worker[w].pc \in RemoveSteps,
           worker'[w].pc \in PrepareSteps => worker[w].pc \in PrepareSteps
    PROVE  RemoverAlone'
  BY DEF RemoverAlone

(* Prepare begins when no Remove runs, and Remove when nothing does. *)
LEMMA BeginServes ==
    ASSUME ExclusiveRemove, IndInv, Serving, NEW w \in Workers,
           \/ \E k \in Keys, im \in Images :
                 \E n \in 1..Len(LegacyLayers[im]) : PrepareStat(w, k, im, n)
           \/ \E c \in Chains : RemoveStat(w, c)
    PROVE  Serving'
<1>1. TypeOK /\ worker[w].pc = "idle"
  BY DEF IndInv, PrepareStat, RemoveStat, At
<1>2. ASSUME NEW k \in Keys, NEW im \in Images, NEW n \in 1..Len(LegacyLayers[im]),
             PrepareStat(w, k, im, n)
      PROVE  Serving'
  <2>1. /\ worker'[w].pc = "resolve" /\ ~worker'[w].unbind
        /\ \A v \in Workers \ {w} : worker'[v] = worker[v]
        /\ UNCHANGED <<base, file, lazyd>>
    <3> DEFINE new == [Idle EXCEPT !.pc = "resolve", !.key = k, !.image = im,
                                   !.target = SubSeq(LegacyLayers[im], 1, n)]
    <3>1. new.pc = "resolve" /\ ~new.unbind
      BY DEF Idle
    <3>2. worker' = [worker EXCEPT ![w] = new] /\ UNCHANGED <<base, file, lazyd>>
      BY <1>2 DEF PrepareStat, Idle
    <3> HIDE DEF new
    <3> QED
      BY <1>1, <3>1, <3>2 DEF TypeOK
  <2>2. RemoverAlone'
    BY <1>2, <2>1 DEF PrepareStat, MayPrepare, RemoverAlone, RemoveSteps
  <2>3. Calm(w)
    BY <1>1, <2>1 DEF Calm, base, lazyd, Owing
  <2>4. ServingOK(w)'
    BY <2>1 DEF ServingOK, Bound, FollowsParent, Owing, Selected
  <2> QED
    BY <2>2, <2>3, <2>4, CalmStep
<1>3. ASSUME NEW c \in Chains, RemoveStat(w, c) PROVE Serving'
  <2>1. /\ worker'[w].pc = "baseRemove" /\ worker'[w].unbind = IsProxy(c)
        /\ worker'[w].target = c
        /\ \A v \in Workers \ {w} : worker'[v] = worker[v]
        /\ UNCHANGED <<base, file, lazyd>>
    <3> DEFINE new == [Idle EXCEPT !.pc = "baseRemove", !.target = c, !.unbind = IsProxy(c)]
    <3>1. new.pc = "baseRemove" /\ new.unbind = IsProxy(c) /\ new.target = c
      BY DEF Idle
    <3>2. worker' = [worker EXCEPT ![w] = new] /\ UNCHANGED <<base, file, lazyd>>
      BY <1>3 DEF RemoveStat
    <3> HIDE DEF new
    <3> QED
      BY <1>1, <3>1, <3>2 DEF TypeOK
  <2>2. RemoverAlone'
    <3>1. \A v \in Workers : worker[v].pc \notin PrepareSteps \cup RemoveSteps
      BY <1>3 DEF RemoveStat, MayRemove
    <3>2. \A u, v \in Workers : u # v => u # w \/ v # w
      OBVIOUS
    <3> QED
      BY <2>1, <3>1, <3>2 DEF RemoverAlone, RemoveSteps
  <2>3. Calm(w)
    BY <1>1, <2>1 DEF Calm, base, lazyd, Owing
  <2>4. ServingOK(w)'
    BY <2>1 DEF ServingOK, Bound, FollowsParent, Owing, Selected, Early, base, IsProxy,
                Published
  <2> QED
    BY <2>2, <2>3, <2>4, CalmStep
<1> QED
  BY <1>2, <1>3

(* A handler that has bound nothing may return, give up or go on. *)
LEMMA ReturnServes ==
    ASSUME IndInv, Serving, NEW w \in Workers, Return(w),
           worker[w].pc \notin Owing \cup {"revoke"},
           \A i \in Ids : file'[i] # file[i] => worker[w].pc \in Holding /\ i = worker[w].id,
           UNCHANGED <<committed, lazyd>>
    PROVE  Serving'
<1>1. /\ worker'[w] = Idle
      /\ \A v \in Workers \ {w} : worker'[v] = worker[v]
  BY Moves DEF IndInv
<1>2. RemoverAlone'
  BY <1>1, StaysAlone DEF Serving, Idle, PrepareSteps, RemoveSteps
<1>3. Calm(w)
  BY <1>1 DEF Calm, lazyd
<1> QED
  BY <1>1, <1>2, <1>3, IdleServes, CalmStep

(* So may one whose Prepare fails: it unbinds what it bound. *)
LEMMA FailServes ==
    ASSUME IndInv, Serving, NEW w \in Workers, Fail(w),
           worker[w].pc \in (Early \cap Holding) \cup {"commit"},
           \A i \in Ids : file'[i] # file[i] => i = worker[w].id,
           UNCHANGED <<committed, lazyd>>
    PROVE  Serving'
<1>1. \/ worker[w].unbind /\ Moved(w, "unbind", TRUE)
      \/ ~worker[w].unbind /\ Moved(w, "undo", FALSE)
  BY Moves DEF IndInv
<1>2. worker[w].pc \in Holding \cap PrepareSteps
  BY DEF Holding, PrepareSteps, Early
<1>3. RemoverAlone'
  BY <1>1, <1>2, StaysAlone DEF Serving, Moved, RemoveSteps
<1>4. Calm(w)
  <2>1. worker[w].pc # "revoke" /\ (worker[w].unbind => worker[w].pc = "commit")
    BY DEF Serving, ServingOK, Early
  <2> QED
    BY <1>1, <1>2, <2>1 DEF Calm, lazyd, Moved, Owing
<1>5. ServingOK(w)'
  <2>1. ServingOK(w) /\ (worker[w].unbind => worker[w].pc \in Owing)
    BY DEF Serving, ServingOK, Owing
  <2> QED
    BY <1>1, <1>2, <2>1
       DEF ServingOK, Bound, FollowsParent, Moved, Owing, Selected, Early, lazyd, LazydUp
<1> QED
  BY <1>3, <1>4, <1>5, CalmStep

(* One that has bound nothing goes on. *)
LEMMA OnServes ==
    ASSUME IndInv, Serving, NEW w \in Workers, NEW pc, Moved(w, pc, FALSE),
           worker[w].pc \in Early,
           pc \in Early \ {"resolve", "manifest"},
           pc \in Selected => worker[w].pc \in Selected \cup {"manifest"},
           \A i \in Ids : file'[i] # file[i] => worker[w].pc \in Holding /\ i = worker[w].id,
           UNCHANGED <<committed, lazyd>>
    PROVE  Serving'
<1>1. worker[w].pc \in PrepareSteps /\ worker[w].pc \notin Owing \cup {"revoke"}
  BY DEF PrepareSteps, Early, Owing
<1>2. RemoverAlone'
  BY <1>1, StaysAlone DEF Serving, Moved, RemoveSteps, Early
<1>3. Calm(w)
  BY <1>1 DEF Calm, lazyd, Moved
<1>4. ServingOK(w)'
  <2>1. ServingOK(w)
    BY DEF Serving
  <2>2. FollowsParent(w)'
    BY <2>1 DEF ServingOK, FollowsParent, Moved, Early, Selected, IsProxy,
                Published
  <2> QED
    BY <2>2 DEF ServingOK, Bound, Moved, Owing, Early
<1> QED
  BY <1>2, <1>3, <1>4, CalmStep

(* Resolving the target: a layer above the first is a proxy's only when     *)
(* its parent is.                                                           *)
LEMMA ResolveServes ==
    ASSUME IndInv, Serving, NEW w \in Workers,
           ResolveAnnotation(w) \/ ResolveParent(w) \/ ResolveNone(w)
    PROVE  Serving'
<1> DEFINE r == worker[w]
<1>1. TypeOK /\ r \in Handlers /\ r.pc = "resolve" /\ r.pc \in Early
  BY DEF IndInv, TypeOK, ResolveAnnotation, ResolveParent, ResolveNone, At, Early
<1>2. UNCHANGED <<committed, file, lazyd>>
  BY DEF ResolveAnnotation, ResolveParent, ResolveNone, base
<1>3. CASE ResolveNone(w)
  <2>1. Moved(w, "delegate", FALSE)
    BY <1>1, <1>3, Moves DEF ResolveNone, Serving, ServingOK
  <2> QED
    BY <1>1, <1>2, <2>1, OnServes DEF Early, Selected
<1>4. CASE ResolveAnnotation(w) \/ ResolveParent(w)
  <2>1. /\ worker'[w].pc = "manifest" /\ worker'[w].target = r.target
        /\ worker'[w].unbind = r.unbind
        /\ \A v \in Workers \ {w} : worker'[v] = worker[v]
        /\ Annotated(w) \/ /\ IsProxy(Parent(r.target))
                           /\ worker'[w].manifest = committed[Parent(r.target)].manifest
    BY <1>1, <1>4 DEF ResolveAnnotation, ResolveParent, Handlers, TypeOK
  <2>2. RemoverAlone'
    BY <1>1, <2>1, StaysAlone DEF Serving, Early, PrepareSteps, RemoveSteps
  <2>3. Calm(w)
    BY <1>1, <1>2, <2>1 DEF Calm, lazyd, Owing
  <2>4. Len(r.target) > 1 => ~Annotated(w)
    <3>1. Annotated(w) => Len(r.target) = 1
      BY DEF Annotated
    <3>2. ~(1 > 1)
      OBVIOUS
    <3> QED
      BY <3>1, <3>2
  <2>5. ServingOK(w)'
    BY <1>1, <1>2, <2>1, <2>4
       DEF Serving, ServingOK, Bound, FollowsParent, Owing, Early, IsProxy, Published
  <2> QED
    BY <2>2, <2>3, <2>5, CalmStep
<1> QED
  BY <1>3, <1>4

(* Choosing the layer and preparing the base snapshot. *)
LEMMA PrepareServes ==
    ASSUME IndInv, Serving, NEW w \in Workers,
           SelectLayer(w) \/ SelectFails(w) \/ BasePrepare(w) \/ BasePrepareFails(w)
    PROVE  Serving'
<1> DEFINE r == worker[w]
<1>1. TypeOK /\ r \in Handlers
  BY DEF IndInv, TypeOK
<1>2. r.pc \in {"manifest", "base", "delegate"} /\ UNCHANGED <<committed, file, lazyd>>
  BY DEF SelectLayer, SelectFails, BasePrepare, BasePrepareFails, At, base
<1>3. ~r.unbind
  BY <1>2 DEF Serving, ServingOK, Early
<1>4. CASE SelectLayer(w)
  <2>1. Moved(w, "base", FALSE) /\ r.pc = "manifest"
    <3>1. Goto(w, "base") /\ worker[w].pc = "manifest"
      BY <1>4 DEF SelectLayer, At
    <3> QED
      BY <1>1, <1>3, <3>1, Moves
  <2> QED
    BY <1>2, <2>1, OnServes DEF Early, Selected
<1>5. CASE SelectFails(w) \/ BasePrepareFails(w)
  BY <1>2, <1>5, ReturnServes DEF SelectFails, BasePrepareFails, Owing
<1>6. CASE BasePrepare(w)
  <2> DEFINE pc == IF r.pc = "base" THEN "materialize" ELSE "apply"
  <2>1. Calm(w) /\ worker'[w].pc = pc /\ worker'[w].unbind = r.unbind
        /\ worker'[w].target = r.target /\ worker'[w].manifest = r.manifest
    BY <1>1, <1>2, <1>6 DEF BasePrepare, At, Handlers, TypeOK, Calm, lazyd, Owing
  <2>2. RemoverAlone'
    BY <1>2, <2>1, StaysAlone DEF Serving, Calm, PrepareSteps, RemoveSteps
  <2>3. ServingOK(w) /\ (pc = "materialize" => r.pc \in Selected)
    BY <1>2 DEF Serving, Selected
  <2>4. ServingOK(w)'
    BY <1>2, <1>3, <2>1, <2>3
       DEF ServingOK, Bound, FollowsParent, Owing, Selected, lazyd, IsProxy, Published
  <2> QED
    BY <2>1, <2>2, <2>4, CalmStep
<1> QED
  BY <1>4, <1>5, <1>6

(* Filling the snapshot's file. *)
LEMMA FillServes ==
    ASSUME IndInv, Serving, NEW w \in Workers,
           \/ MaterializeLocal(w) \/ MaterializeFails(w) \/ MaterializeRemote(w)
           \/ EagerBind(w) \/ CreateSparseTarget(w) \/ Apply(w)
    PROVE  Serving'
<1> DEFINE r == worker[w]
<1>1. TypeOK /\ r.pc \in {"materialize", "bind", "apply"} /\ r.pc \in Holding
  BY DEF IndInv, MaterializeLocal, MaterializeFails, MaterializeRemote, EagerBind,
         CreateSparseTarget, Apply, At, Holding, ClientSteps
<1>2. r.id \in Ids /\ file \in [Ids -> Files]
  BY <1>1, Held DEF TypeOK
<1>3. /\ UNCHANGED <<committed, lazyd>>
      /\ \A i \in Ids : file'[i] # file[i] => r.pc \in Holding /\ i = r.id
  BY <1>1, <1>2 DEF MaterializeLocal, MaterializeFails, MaterializeRemote, EagerBind,
         CreateSparseTarget, Apply, base
<1>4. ServingOK(w) /\ (r.pc # "apply" => r.pc \in Early /\ r.pc \in Selected /\ ~r.unbind)
  BY <1>1 DEF Serving, ServingOK, Early, Selected
<1>5. CASE MaterializeRemote(w)
  <2>1. Moved(w, "bind", FALSE) /\ r.pc # "apply"
    <3>1. Goto(w, "bind") /\ worker[w].pc = "materialize"
      BY <1>5 DEF MaterializeRemote, At
    <3>2. ~worker[w].unbind
      BY <1>4, <3>1
    <3> QED
      BY <1>1, <3>1, <3>2, Moves
  <2> QED
    BY <1>3, <1>4, <2>1, OnServes DEF Early, Selected
<1>6. CASE CreateSparseTarget(w)
  <2>1. Moved(w, "put", FALSE) /\ r.pc # "apply"
    <3>1. Goto(w, "put") /\ worker[w].pc = "bind"
      BY <1>6 DEF CreateSparseTarget, At
    <3>2. ~worker[w].unbind
      BY <1>4, <3>1
    <3> QED
      BY <1>1, <3>1, <3>2, Moves
  <2> QED
    BY <1>3, <1>4, <2>1, OnServes DEF Early, Selected
<1>7. CASE MaterializeFails(w)
  BY <1>1, <1>3, <1>4, <1>7, FailServes DEF MaterializeFails, At
<1>8. CASE MaterializeLocal(w) \/ EagerBind(w)
  <2>1. \E u \in BOOLEAN : Moved(w, "commit", u) /\ (u => Daemon = "eager")
    BY <1>1, <1>4, <1>8, Moves DEF MaterializeLocal, EagerBind, At
  <2>2. file'[r.id].state = "full"
    <3>1. r.pc = "materialize" => ~HasFile(r.id)
      BY DEF IndInv, HandlerOK
    <3> QED
      BY <1>2, <1>8, <3>1 DEF MaterializeLocal, EagerBind, At
  <2>3. RemoverAlone'
    <3>1. r.pc \in PrepareSteps
      BY <1>8 DEF MaterializeLocal, EagerBind, At, PrepareSteps
    <3>2. worker'[w].pc \notin RemoveSteps
      BY <2>1 DEF Moved, RemoveSteps
    <3> QED
      BY <2>1, <3>1, <3>2, StaysAlone DEF Serving, Moved
  <2>4. Calm(w)
    BY <1>1, <1>3, <2>1 DEF Calm, lazyd, Moved, Owing
  <2>5. ServingOK(w)'
    BY <1>1, <1>3, <1>4, <1>8, <2>1, <2>2
       DEF ServingOK, Bound, FollowsParent, Moved, Early, Selected, IsProxy, Published,
           MaterializeLocal, EagerBind, At
  <2> QED
    BY <2>3, <2>4, <2>5, CalmStep
<1>9. CASE Apply(w)
  <2>1. Moved(w, "extracted", r.unbind)
    BY <1>1, <1>9, Moves DEF Apply
  <2>2. RemoverAlone'
    BY <2>1, StaysAlone DEF Serving, Moved, PrepareSteps, RemoveSteps
  <2>3. Calm(w)
    BY <1>1, <1>3, <1>9, <2>1 DEF Calm, lazyd, Moved, Owing, Apply, At
  <2>4. file'[r.id].state = "full"
    BY <1>2, <1>9 DEF Apply
  <2>5. ServingOK(w)'
    BY <2>1, <2>4 DEF ServingOK, Bound, FollowsParent, Moved, Early, Owing, Selected
  <2> QED
    BY <2>2, <2>3, <2>5, CalmStep
<1> QED
  BY <1>5, <1>6, <1>7, <1>8, <1>9

(* Giving up. *)
LEMMA GiveUpServes ==
    ASSUME IndInv, Serving, NEW w \in Workers,
           \/ BindFails(w) \/ PutFails(w) \/ CommitFails(w)
           \/ CleanupRemove(w) \/ CleanupRemoveFails(w)
           \/ ClientAbort(w) \/ BaseRemoveFails(w)
    PROVE  Serving'
<1>1. CASE BindFails(w) \/ PutFails(w) \/ CommitFails(w)
  BY <1>1, FailServes DEF BindFails, PutFails, CommitFails, At, base, Early, Holding
<1>2. CASE CleanupRemove(w) \/ ClientAbort(w)
  <2>1. /\ worker[w].pc \in {"undo"} \cup ClientSteps /\ RemoveActive(worker[w].key)
        /\ Return(w)
    BY <1>2 DEF CleanupRemove, ClientAbort, At
  <2>2. worker[w].pc \in Holding /\ worker[w].pc \notin Owing \cup {"revoke"}
    BY <2>1 DEF Holding, ClientSteps, Owing
  <2>3. /\ \A i \in Ids : file'[i] # file[i] => i = worker[w].id
        /\ UNCHANGED <<committed, lazyd>>
    BY <2>1, <2>2, Held DEF RemoveActive, IndInv, TypeOK
  <2> QED
    BY <2>1, <2>2, <2>3, ReturnServes
<1>3. CASE CleanupRemoveFails(w) \/ BaseRemoveFails(w)
  BY <1>3, ReturnServes DEF CleanupRemoveFails, BaseRemoveFails, At, base, Owing
<1> QED
  BY <1>1, <1>2, <1>3

-----------------------------------------------------------------------------
(* Commits and removals. *)

(* A commit, by Prepare or by the client, publishes a snapshot on the disk  *)
(* or one that lazyd has, above the parent its labels were read from.       *)
LEMMA CommitServes ==
    ASSUME ExclusiveRemove, IndInv, IndInv', Serving,
           NEW w \in Workers, Commit(w) \/ ClientCommit(w)
    PROVE  Serving'
<1> DEFINE r == worker[w]
<1>0. r.pc \in {"commit", "extracted"} /\ r.pc \in Holding
  BY DEF Commit, ClientCommit, At, Holding, ClientSteps
<1>00. PICK c \in Chains : c = r.target
  BY <1>0, Held
<1>1. /\ TypeOK /\ ServingOK(w) /\ HandlerOK(w)
      /\ r.pc \in {"commit", "extracted"} /\ r.pc \in Holding /\ ~Published(c)
  BY <1>0, <1>00 DEF IndInv, Serving, Commit, ClientCommit
<1>2. /\ c \in Chains /\ c = r.target /\ active[r.key].id = r.id /\ r.id # 0
  BY <1>1, <1>00, Held
<1>3. /\ worker'[w] = Idle /\ \A v \in Workers \ {w} : worker'[v] = worker[v]
      /\ UNCHANGED <<file, lazyd>>
  BY <1>1, Moves DEF Commit, ClientCommit
<1>4. /\ \A d \in Chains : d # c => committed'[d] = committed[d]
      /\ committed'[c].id = r.id
      /\ r.pc = "commit" => committed'[c].manifest = r.manifest
      /\ r.pc = "extracted" => committed'[c].manifest = NoImage
  BY <1>1, <1>2 DEF Commit, ClientCommit, At, TypeOK
<1>5. \A d \in Chains : IsProxy(d) => IsProxy(d)' /\ committed'[d] = committed[d]
  BY <1>1, <1>4 DEF IsProxy, Published, IndInv, TypeOK
<1>6. \A d \in Chains : d # c => IsProxy(d)' = IsProxy(d) /\ Published(d)' = Published(d)
  BY <1>4 DEF IsProxy, Published, IndInv, TypeOK
<1>7. \A v \in Workers : worker[v].pc \notin RemoveSteps
  <2>1. CASE Commit(w)
    <3>1. r.pc \in PrepareSteps /\ r.pc \notin RemoveSteps
      BY <2>1 DEF Commit, At, PrepareSteps, RemoveSteps
    <3> QED
      BY <3>1 DEF Serving, RemoverAlone
  <2>2. CASE ClientCommit(w)
    BY <2>2 DEF ClientCommit, MayPrepare
  <2> QED
    BY <2>1, <2>2
<1>8. RemoverAlone'
  BY <1>3, StaysAlone DEF Serving, Idle, PrepareSteps, RemoveSteps
<1>9. ASSUME NEW v \in Workers PROVE ServingOK(v)'
  <2>1. CASE v = w
    BY <1>3, <2>1, IdleServes
  <2>2. CASE v # w
    <3>1. ServingOK(v) /\ worker'[v] = worker[v] /\ worker[v].pc \notin {"baseRemove", "revoke"}
      BY <1>3, <1>7, <2>2 DEF Serving, RemoveSteps
    <3>2. Bound(v)'
      BY <1>3, <3>1 DEF ServingOK, Bound, lazyd, LazydUp
    <3>3. FollowsParent(v)'
      <4>1. \A d : IsProxy(d) => d \in Chains
        BY <1>1 DEF IsProxy, Published, TypeOK
      <4> QED
        BY <1>5, <3>1, <4>1 DEF ServingOK, FollowsParent
    <3> QED
      BY <1>3, <3>1, <3>2, <3>3 DEF ServingOK
  <2> QED
    BY <2>1, <2>2
<1>10. Owned'
  <2> SUFFICES ASSUME NEW d \in Chains \ leaked, instance[d] # NoInstance
               PROVE  \/ IsProxy(d)' /\ committed'[d].id = instance[d].id
                      \/ \E v \in Workers : Owns(v, d)'
    BY <1>3 DEF Owned, lazyd
  <2>1. CASE IsProxy(d) /\ committed[d].id = instance[d].id
    BY <1>5, <2>1
  <2>2. ASSUME NEW v \in Workers, Owns(v, d), v # w
        PROVE  Owns(v, d)'
    BY <1>3, <2>2 DEF Owns, lazyd
  <2>3. CASE Owns(w, d)
    <3>1. d = c /\ r.pc = "commit" /\ r.id = instance[d].id
      BY <1>1, <1>2, <2>3 DEF Owns, Owing
    <3>2. committed'[c].manifest # NoImage
      <4>1. r.manifest \in Native /\ Native \subseteq Images /\ NoImage \notin Images
        BY <1>1, <3>1, ImageAssumption DEF HandlerOK, Selected, Describes
      <4> QED
        BY <1>4, <3>1, <4>1
    <3>3. IsProxy(c)'
      BY <1>2, <1>4, <3>2 DEF IsProxy, Published, IndInv, TypeOK
    <3> QED
      BY <1>4, <3>1, <3>3
  <2> QED
    BY <2>1, <2>2, <2>3 DEF Serving, Owned
<1>11. Served'
  <2> SUFFICES ASSUME Daemon = "lazyd", NEW d \in Chains \ contested, Published(d)',
                      committed'[d].id \notin forgotten,
                      file[committed'[d].id].state = "sparse"
               PROVE  instance[d] = [id |-> committed'[d].id,
                                     layer |-> file[committed'[d].id].layer]
    BY <1>3 DEF Served, lazyd
  <2>1. CASE d = c
    <3>1. file[r.id].state = "sparse"
      BY <1>4, <2>1
    <3>2. r.pc = "commit" /\ r.unbind
      <4>1. r.pc # "extracted"
        BY <1>1, <3>1 DEF ServingOK
      <4>2. r.unbind
        BY <1>1, <3>1, <4>1 DEF ServingOK
      <4> QED
        BY <1>1, <4>1, <4>2
    <3>3. file[r.id].layer = Top(c)
      BY <1>1, <1>2 DEF HandlerOK, Ready
    <3>4. Bound(w)
      BY <1>1 DEF ServingOK
    <3> QED
      BY <1>2, <1>4, <2>1, <3>2, <3>3, <3>4 DEF Bound, Owing
  <2>2. CASE d # c
    BY <1>4, <1>6, <2>2 DEF Serving, Served
  <2> QED
    BY <2>1, <2>2
<1>12. LabelsFollowParent'
  <2> SUFFICES ASSUME NEW d \in Chains, IsProxy(d)'
               PROVE  /\ committed'[d].index + 1 = Len(d)
                      /\ Len(d) > 1 =>
                            /\ IsProxy(Parent(d))'
                            /\ committed'[Parent(d)].manifest = committed'[d].manifest
    BY DEF LabelsFollowParent
  <2>1. committed'[d].index + 1 = Len(d)
    BY DEF IndInv, LabelsOK, Describes
  <2>2. Len(d) > 1 => /\ IsProxy(Parent(d))
                      /\ committed[Parent(d)].manifest = committed'[d].manifest
    <3>1. CASE d = c
      <4>1. r.pc = "commit"
        BY <1>1, <1>4, <3>1 DEF IsProxy
      <4>2. FollowsParent(w)
        BY <1>1 DEF ServingOK
      <4> QED
        BY <1>2, <1>4, <3>1, <4>1, <4>2 DEF FollowsParent, Selected
    <3>2. CASE d # c
      BY <1>4, <1>6, <3>2 DEF Serving, LabelsFollowParent
    <3> QED
      BY <3>1, <3>2
  <2>3. IsProxy(Parent(d)) => Parent(d) \in Chains
    BY <1>1 DEF IsProxy, Published, TypeOK
  <2> QED
    BY <1>5, <2>1, <2>2, <2>3
<1> QED
  BY <1>8, <1>9, <1>10, <1>11, <1>12 DEF Serving

(* base.Remove of a committed snapshot leaves the instance to the handler,  *)
(* which read the labels when no one else could change them.                *)
LEMMA BaseRemoveServes ==
    ASSUME IndInv, IndInv', Serving, NEW w \in Workers, BaseRemove(w)
    PROVE  Serving'
<1> DEFINE r == worker[w]
<1>0. PICK c \in Chains : c = r.target
  BY DEF BaseRemove, At, IndInv, HandlerOK, RemoveSteps
<1>1. /\ TypeOK /\ ServingOK(w) /\ HandlerOK(w)
      /\ r.pc = "baseRemove" /\ Published(c) /\ ~HasChildren(c)
      /\ c \in Chains /\ c = r.target
  BY <1>0 DEF IndInv, Serving, BaseRemove, At
<1>2. PICK i \in Ids : i = committed[c].id
  BY <1>1, BoundAssumption DEF Published, TypeOK, Ids, SnapIds
<1>3. /\ \A d \in Chains : d # c => committed'[d] = committed[d]
      /\ ~Published(c)'
      /\ \A j \in Ids : j # i => file'[j] = file[j]
      /\ UNCHANGED lazyd
  BY <1>1, <1>2 DEF BaseRemove, TypeOK, NoCommitted, Published
<1>4. /\ \A v \in Workers \ {w} : worker'[v] = worker[v]
      /\ r.unbind => Moved(w, "revoke", TRUE)
      /\ ~r.unbind => worker'[w] = Idle
  <2>1. CASE r.unbind
    <3>1. Goto(w, "revoke")
      BY <2>1 DEF BaseRemove
    <3>2. Moved(w, "revoke", r.unbind)
      BY <1>1, <3>1, Moves
    <3>3. r.unbind = TRUE
      BY <1>1, <2>1 DEF TypeOK, Handlers
    <3> QED
      BY <2>1, <3>2, <3>3 DEF Moved
  <2>2. CASE ~r.unbind
    BY <1>1, <2>2, Moves DEF BaseRemove
  <2> QED
    BY <2>1, <2>2
<1>5. \A d \in Chains : d # c => IsProxy(d)' = IsProxy(d) /\ Published(d)' = Published(d)
  BY <1>3 DEF IsProxy, Published, IndInv, TypeOK
<1>6. \A v \in Workers : v # w => worker[v].pc \notin PrepareSteps \cup RemoveSteps
  BY <1>1 DEF Serving, RemoverAlone, RemoveSteps
<1>7. RemoverAlone'
  BY <1>1, <1>4, StaysAlone DEF Serving, Idle, Moved, PrepareSteps, RemoveSteps
<1>8. ASSUME NEW v \in Workers PROVE ServingOK(v)'
  <2>1. CASE v = w /\ ~r.unbind
    BY <1>4, <2>1, IdleServes
  <2>2. CASE v = w /\ r.unbind
    BY <1>1, <1>3, <1>4, <2>2
       DEF ServingOK, Bound, FollowsParent, Moved, Early, Owing, Selected
  <2>3. CASE v # w
    <3>1. ServingOK(v) /\ worker'[v] = worker[v]
          /\ worker[v].pc \notin PrepareSteps \cup RemoveSteps
      BY <1>4, <1>6, <2>3 DEF Serving
    <3>2. worker[v].pc = "extracted" => file'[worker[v].id] = file[worker[v].id]
      BY <1>1, <1>2, <1>3, HeldApart DEF Holding, ClientSteps
    <3> QED
      BY <3>1, <3>2 DEF ServingOK, Bound, FollowsParent, Early, Owing, Selected,
                        PrepareSteps, RemoveSteps
  <2> QED
    BY <2>1, <2>2, <2>3
<1>9. Owned'
  <2> SUFFICES ASSUME NEW d \in Chains \ leaked, instance[d] # NoInstance
               PROVE  \/ IsProxy(d)' /\ committed'[d].id = instance[d].id
                      \/ \E v \in Workers : Owns(v, d)'
    BY <1>3 DEF Owned, lazyd
  <2>1. CASE IsProxy(d) /\ committed[d].id = instance[d].id
    <3>1. CASE d # c
      BY <1>3, <1>5, <2>1, <3>1
    <3>2. CASE d = c
      <4>1. r.unbind
        BY <1>1, <2>1, <3>2 DEF ServingOK
      <4> QED
        BY <1>1, <1>4, <3>2, <4>1 DEF Owns, Moved
    <3> QED
      BY <3>1, <3>2
  <2>2. ASSUME NEW v \in Workers, Owns(v, d)
        PROVE  Owns(v, d)'
    <3>1. v # w
      BY <1>1, <2>2 DEF Owns, Owing
    <3> QED
      BY <1>3, <1>4, <2>2, <3>1 DEF Owns, lazyd
  <2> QED
    BY <2>1, <2>2 DEF Serving, Owned
<1>10. Served'
  <2> SUFFICES ASSUME Daemon = "lazyd", NEW d \in Chains \ contested, Published(d)',
                      committed'[d].id \notin forgotten,
                      file'[committed'[d].id].state = "sparse"
               PROVE  instance[d] = [id |-> committed'[d].id,
                                     layer |-> file'[committed'[d].id].layer]
    BY <1>3 DEF Served, lazyd
  <2>1. d # c /\ committed'[d] = committed[d] /\ Published(d)
    BY <1>3, <1>5
  <2>2. committed[d].id \in Ids /\ committed[d].id # i
    <3>1. committed[d].id \in Ids
      <4>1. committed[d].id \in SnapIds
        BY <1>1 DEF TypeOK
      <4>2. committed[d].id # 0
        BY <2>1 DEF Published
      <4> QED
        BY <4>1, <4>2, BoundAssumption DEF Ids, SnapIds
    <3>2. committed[d].id # i
      <4>1. Published(c) /\ d # c /\ Published(d) /\ i = committed[c].id
        BY <1>1, <1>2, <2>1
      <4> QED
        BY <4>1 DEF IndInv, IdsApart
    <3> QED
      BY <3>1, <3>2
  <2> QED
    BY <1>3, <2>1, <2>2 DEF Serving, Served
<1>11. LabelsFollowParent'
  <2>1. \A d \in Chains : Published(d) => Parent(d) # c
    BY <1>1 DEF HasChildren
  <2>2. \A d \in Chains : IsProxy(Parent(d)) => Parent(d) \in Chains
    BY <1>1 DEF IsProxy, Published, TypeOK
  <2>3. \A d \in Chains : IsProxy(d)' => d # c
    BY <1>3 DEF IsProxy
  <2> QED
    BY <1>3, <1>5, <2>1, <2>2, <2>3 DEF Serving, LabelsFollowParent, IsProxy
<1> QED
  BY <1>7, <1>8, <1>9, <1>10, <1>11 DEF Serving

-----------------------------------------------------------------------------
(* Calls to lazyd. *)

(* A PUT that takes effect is for a chain ID nobody is served under. *)
LEMMA PutServes ==
    ASSUME SharedBasesAgree, IndInv, Serving,
           NEW w \in Workers, PutInstance(w) \/ PutUnanswered(w)
    PROVE  Serving'
<1> DEFINE r == worker[w]
           mine == [id |-> r.id, layer |-> Top(r.target)]
<1>0. r.pc = "put" /\ r.pc \in Holding /\ r.pc \in PrepareSteps /\ CanRegister(w)
  BY DEF PutInstance, PutUnanswered, At, Holding, PrepareSteps
<1>1. PICK c \in Chains : c = r.target
  BY <1>0, Held
<1>2. TypeOK /\ ServingOK(w) /\ ~r.unbind /\ r.id # 0
  BY <1>0, HeldApart DEF IndInv, Serving, ServingOK, Early
<1>3. Mine(w) = mine /\ LazydUp /\ instance[c] \in {NoInstance, mine}
  BY <1>0, <1>1, WantedIsTop DEF Mine, CanRegister
<1>4. /\ instance' = [instance EXCEPT ![c] = mine] /\ instance'[c] = mine
      /\ \A d \in Chains : d # c => instance'[d] = instance[d]
  BY <1>1, <1>2, <1>3 DEF PutInstance, PutUnanswered, TypeOK
<1>5. UNCHANGED <<committed, file, listener, forgotten, contested>>
  BY DEF PutInstance, PutUnanswered, base
<1>6. \/ Moved(w, "commit", TRUE) /\ leaked' = leaked
      \/ Moved(w, "undo", FALSE) /\ leaked' = leaked \cup {c}
  <2>1. CASE PutInstance(w)
    BY <1>2, <2>1, Moves DEF PutInstance
  <2>2. CASE PutUnanswered(w)
    BY <1>1, <1>2, <2>2, Moves DEF PutUnanswered
  <2> QED
    BY <2>1, <2>2
<1>7. \A v \in Workers \ {w} : worker'[v] = worker[v]
  BY <1>6 DEF Moved
<1>8. RemoverAlone'
  BY <1>0, <1>6, <1>7, StaysAlone DEF Serving, Moved, RemoveSteps
<1>9. ASSUME NEW v \in Workers, v # w PROVE ServingOK(v)'
  <2>1. ServingOK(v) /\ worker'[v] = worker[v]
    BY <1>7, <1>9 DEF Serving
  <2>2. Bound(v)'
    <3> SUFFICES ASSUME Daemon = "lazyd", worker[v].pc \in Owing, worker[v].unbind,
                        worker[v].target \notin contested
                 PROVE  instance'[worker[v].target] =
                            [id |-> worker[v].id, layer |-> Top(worker[v].target)]
      BY <1>5, <2>1 DEF Bound
    <3>1. worker[v].pc \in Holding
      BY DEF Owing, Holding
    <3>2. instance[worker[v].target] = [id |-> worker[v].id, layer |-> Top(worker[v].target)]
      BY <1>3, <2>1 DEF ServingOK, Bound
    <3>3. worker[v].id # r.id /\ worker[v].id # 0 /\ worker[v].target \in Chains
      BY <1>0, <1>9, <3>1, Held, HeldApart
    <3>4. worker[v].target # c
      BY <1>3, <3>2, <3>3 DEF NoInstance
    <3> QED
      BY <1>4, <3>2, <3>3, <3>4
  <2>3. FollowsParent(v)'
    BY <1>5, <2>1 DEF ServingOK, FollowsParent, IsProxy, Published
  <2> QED
    BY <1>5, <2>1, <2>2, <2>3 DEF ServingOK, IsProxy, Published
<1>10. ServingOK(w)'
  <2>1. Bound(w)'
    BY <1>1, <1>4, <1>6 DEF Bound, Moved, Owing
  <2>2. FollowsParent(w)'
    BY <1>0, <1>2, <1>5, <1>6
       DEF ServingOK, FollowsParent, Moved, Selected, IsProxy, Published
  <2> QED
    BY <1>6, <2>1, <2>2 DEF ServingOK, Moved, Early
<1>11. Owned'
  <2> SUFFICES ASSUME NEW d \in Chains \ leaked', instance'[d] # NoInstance
               PROVE  \/ IsProxy(d)' /\ committed'[d].id = instance'[d].id
                      \/ \E v \in Workers : Owns(v, d)'
    BY DEF Owned
  <2>1. CASE d = c
    <3>1. Moved(w, "commit", TRUE)
      BY <1>6, <2>1
    <3> QED
      BY <1>1, <1>4, <2>1, <3>1 DEF Owns, Moved, Owing
  <2>2. CASE d # c
    <3>1. instance'[d] = instance[d] /\ d \notin leaked
      BY <1>4, <1>6, <2>2
    <3>2. ASSUME NEW v \in Workers, Owns(v, d) PROVE Owns(v, d)'
      <4>1. v # w
        BY <1>1, <2>2, <3>2 DEF Owns
      <4> QED
        BY <1>7, <3>1, <3>2, <4>1 DEF Owns
    <3> QED
      BY <1>5, <3>1, <3>2 DEF Serving, Owned, IsProxy, Published
  <2> QED
    BY <2>1, <2>2
<1>12. Served'
  <2> SUFFICES ASSUME Daemon = "lazyd", NEW d \in Chains \ contested, Published(d),
                      committed[d].id \notin forgotten,
                      file[committed[d].id].state = "sparse"
               PROVE  instance'[d] = [id |-> committed[d].id,
                                      layer |-> file[committed[d].id].layer]
    BY <1>5 DEF Served, Published
  <2>1. instance[d] = [id |-> committed[d].id, layer |-> file[committed[d].id].layer]
    BY DEF Serving, Served
  <2>2. committed[d].id # r.id /\ committed[d].id # 0
    BY <1>0, HeldApart DEF Published
  <2>3. d # c
    BY <1>3, <2>1, <2>2 DEF NoInstance
  <2> QED
    BY <1>4, <2>1, <2>3
<1>13. LabelsFollowParent'
  BY <1>5 DEF Serving, LabelsFollowParent, IsProxy, Published
<1> QED
  BY <1>8, <1>9, <1>10, <1>11, <1>12, <1>13 DEF Serving

(* A DELETE that takes effect revokes no instance but the handler's own, or *)
(* that of a snapshot that is gone.                                         *)
LEMMA UnbindServes ==
    ASSUME IndInv, Serving, NEW w \in Workers, CleanupUnbind(w) \/ RemoveUnbind(w)
    PROVE  Serving'
<1> DEFINE r == worker[w]
<1>1. PICK c \in Chains : c = r.target
  BY DEF CleanupUnbind, RemoveUnbind, At, IndInv, HandlerOK, PrepareSteps, RemoveSteps
<1>2. /\ TypeOK /\ ServingOK(w) /\ UnbindLayer(c)
      /\ UNCHANGED <<committed, file, listener, forgotten, contested>>
      /\ r.pc \in {"unbind", "revoke"}
  BY <1>1 DEF IndInv, Serving, CleanupUnbind, RemoveUnbind, UnbindLayer, base, At
<1>3. /\ \A d \in Chains : d # c => instance'[d] = instance[d] /\ (d \notin leaked' => d \notin leaked)
      /\ instance'[c] = NoInstance \/ c \in leaked'
      /\ UNCHANGED instance \/ (LazydUp /\ instance'[c] = NoInstance)
  BY <1>2 DEF UnbindLayer, TypeOK
<1>4. /\ \A v \in Workers \ {w} : worker'[v] = worker[v]
      /\ worker'[w] = Idle \/ (r.pc = "unbind" /\ Moved(w, "undo", r.unbind))
  BY <1>2, Moves DEF CleanupUnbind, RemoveUnbind, At, Moved
<1>5. RemoverAlone'
  BY <1>4, StaysAlone DEF Serving, Idle, Moved, PrepareSteps, RemoveSteps
(* Nobody else's instance is under the chain ID. *)
<1>6. ASSUME NEW v \in Workers, v # w, Bound(v), LazydUp,
             Daemon = "lazyd", worker[v].pc \in Owing, worker[v].unbind,
             worker[v].target \notin contested
      PROVE  worker[v].target # c
  <2>1. worker[v].pc \in Holding /\ worker[v].pc \in PrepareSteps
    BY <1>6 DEF Owing, Holding, PrepareSteps
  <2>2. r.pc = "unbind"
    BY <1>2, <1>6, <2>1 DEF Serving, RemoverAlone, RemoveSteps
  <2>3. worker[v].id # r.id
    BY <1>6, <2>1, <2>2, HeldApart DEF Holding
  <2>4. instance[worker[v].target].id = worker[v].id
    BY <1>6 DEF Bound
  <2>5. c \notin contested => instance[c].id = r.id
    BY <1>1, <1>2, <1>6, <2>2 DEF ServingOK, Bound, Owing
  <2> QED
    BY <1>6, <2>3, <2>4, <2>5
<1>7. ASSUME NEW v \in Workers, v # w PROVE ServingOK(v)'
  <2>1. ServingOK(v) /\ worker'[v] = worker[v]
    BY <1>4, <1>7 DEF Serving
  <2>2. Bound(v)'
    <3>1. worker[v].pc \in Owing => worker[v].target \in Chains
      BY Held DEF Owing, Holding
    <3>2. CASE UNCHANGED instance
      BY <1>2, <2>1, <3>2 DEF ServingOK, Bound, LazydUp
    <3>3. CASE LazydUp
      BY <1>2, <1>3, <1>6, <1>7, <2>1, <3>1, <3>3 DEF ServingOK, Bound, LazydUp
    <3> QED
      BY <1>3, <3>2, <3>3
  <2>3. FollowsParent(v)'
    BY <1>2, <2>1 DEF ServingOK, FollowsParent, IsProxy, Published
  <2> QED
    BY <1>2, <2>1, <2>2, <2>3 DEF ServingOK, IsProxy, Published
<1>8. ServingOK(w)'
  <2>1. CASE worker'[w] = Idle
    BY <2>1, IdleServes
  <2>2. CASE Moved(w, "undo", r.unbind)
    BY <2>2 DEF ServingOK, Bound, FollowsParent, Moved, Early, Owing, Selected
  <2> QED
    BY <1>4, <2>1, <2>2
<1>9. Owned'
  <2> SUFFICES ASSUME NEW d \in Chains \ leaked', instance'[d] # NoInstance
               PROVE  \/ IsProxy(d)' /\ committed'[d].id = instance'[d].id
                      \/ \E v \in Workers : Owns(v, d)'
    BY DEF Owned
  <2>1. d # c /\ instance'[d] = instance[d] /\ d \notin leaked
    BY <1>3
  <2>2. ASSUME NEW v \in Workers, Owns(v, d) PROVE Owns(v, d)'
    <3>1. v # w
      BY <1>1, <2>1, <2>2 DEF Owns
    <3> QED
      BY <1>4, <2>1, <2>2, <3>1 DEF Owns
  <2> QED
    BY <1>2, <2>1, <2>2 DEF Serving, Owned, IsProxy, Published
<1>10. Served'
  <2> SUFFICES ASSUME Daemon = "lazyd", NEW d \in Chains \ contested, Published(d),
                      committed[d].id \notin forgotten,
                      file[committed[d].id].state = "sparse"
               PROVE  instance'[d] = [id |-> committed[d].id,
                                      layer |-> file[committed[d].id].layer]
    BY <1>2 DEF Served, Published
  <2>1. instance[d] = [id |-> committed[d].id, layer |-> file[committed[d].id].layer]
    BY DEF Serving, Served
  <2>2. CASE UNCHANGED instance
    BY <2>1, <2>2
  <2>3. CASE LazydUp
    <3>1. d # c
      <4>1. CASE r.pc = "revoke"
        BY <1>1, <1>2, <4>1 DEF ServingOK
      <4>2. CASE r.pc = "unbind"
        <5>1. d = c => instance[c].id = r.id
          BY <1>1, <1>2, <2>3, <4>2 DEF ServingOK, Bound, Owing
        <5>2. committed[d].id # r.id
          BY <4>2, HeldApart DEF Holding
        <5> QED
          BY <2>1, <5>1, <5>2
      <4> QED
        BY <1>2, <4>1, <4>2
    <3> QED
      BY <1>3, <2>1, <3>1
  <2> QED
    BY <1>3, <2>2, <2>3
<1>11. LabelsFollowParent'
  BY <1>2 DEF Serving, LabelsFollowParent, IsProxy, Published
<1> QED
  BY <1>5, <1>7, <1>8, <1>9, <1>10, <1>11 DEF Serving

-----------------------------------------------------------------------------
(* The environment. *)

(* Containers' snapshots and the content store are nobody's here. *)
LEMMA StillServes ==
    ASSUME IndInv, Serving,
           \/ \E k \in Keys : RemoveStale(k) \/ \E c \in Chains : PrepareContainer(k, c)
           \/ \E l \in Layers : StoreChanges(l)
    PROVE  Serving'
<1>1. UNCHANGED <<committed, lazyd, worker>>
  BY DEF RemoveStale, RemoveActive, PrepareContainer, StoreChanges, base
<1>2. /\ \A w \in Workers : worker[w].pc \in Holding =>
             file'[worker[w].id] = file[worker[w].id]
      /\ \A c \in Chains : Published(c) => file'[committed[c].id] = file[committed[c].id]
  <2>1. CASE UNCHANGED file
    BY <2>1
  <2>2. ASSUME NEW k \in Keys, RemoveStale(k)
        PROVE  /\ \A w \in Workers : worker[w].pc \in Holding =>
                      file'[worker[w].id] = file[worker[w].id]
               /\ \A c \in Chains : Published(c) =>
                      file'[committed[c].id] = file[committed[c].id]
    <3>1. /\ file' = [file EXCEPT ![active[k].id] = NoFile] /\ active[k].id # 0
          /\ \A w \in Workers : worker[w].key # k
      BY <2>2 DEF RemoveStale, RemoveActive
    <3>2. \A w \in Workers : worker[w].pc \in Holding =>
              worker[w].id \in Ids /\ worker[w].id # active[k].id
      <4>1. \A w \in Workers : worker[w].pc \in Holding =>
                /\ worker[w].id \in Ids /\ worker[w].key \in Keys
                /\ active[worker[w].key].id = worker[w].id
        BY Held
      <4> QED
        BY <3>1, <4>1 DEF IndInv, IdsApart
    <3>3. \A c \in Chains : Published(c) =>
              committed[c].id \in Ids /\ committed[c].id # active[k].id
      BY BoundAssumption DEF IndInv, IdsApart, Published, TypeOK, Ids, SnapIds
    <3> QED
      BY <3>1, <3>2, <3>3 DEF IndInv, TypeOK
  <2> QED
    BY <2>1, <2>2 DEF PrepareContainer, StoreChanges
<1>3. \A w \in Workers : worker[w].pc \in {"commit", "extracted"} =>
          file'[worker[w].id] = file[worker[w].id]
  BY <1>2 DEF Holding, ClientSteps
<1>4. \A w \in Workers : ServingOK(w)'
  BY <1>1, <1>3 DEF Serving, ServingOK, Bound, FollowsParent, IsProxy, Published, lazyd,
                    LazydUp
<1>5. Owned' /\ LabelsFollowParent' /\ RemoverAlone'
  BY <1>1 DEF Serving, Owned, Owns, LabelsFollowParent, RemoverAlone, IsProxy, Published,
              lazyd
<1>6. Served'
  BY <1>1, <1>2 DEF Serving, Served, Published, lazyd
<1> QED
  BY <1>4, <1>5, <1>6 DEF Serving

(* lazyd dies or loses its path, or the server is killed: what is lost is   *)
(* known to be.                                                             *)
LEMMA CrashServes ==
    ASSUME IndInv, Serving, LazydDies \/ ServerRestarts \/ OrphanDisplaced
    PROVE  Serving'
<1>1. /\ UNCHANGED <<committed, file>>
      /\ UNCHANGED worker \/ worker' = [w \in Workers |-> Idle]
  BY DEF LazydDies, ServerRestarts, OrphanDisplaced, base
<1>2. RemoverAlone' /\ LabelsFollowParent'
  <2>1. LabelsFollowParent'
    BY <1>1 DEF Serving, LabelsFollowParent, IsProxy, Published
  <2>2. RemoverAlone'
    BY <1>1 DEF Serving, RemoverAlone, Idle, RemoveSteps
  <2> QED
    BY <2>1, <2>2
<1>3. ASSUME LoseRegistry PROVE Owned'
  BY <1>3 DEF LoseRegistry, Owned
<1>4. ASSUME LoseRegistry, contested \subseteq contested' PROVE Served'
  <2> SUFFICES ASSUME Daemon = "lazyd", NEW d \in Chains \ contested, Published(d),
                      committed[d].id \notin forgotten',
                      file[committed[d].id].state = "sparse"
               PROVE  FALSE
    BY <1>1, <1>4 DEF Served, Published
  <2>1. committed[d].id \notin forgotten /\ committed[d].id # 0
    BY <1>4 DEF LoseRegistry, Published
  <2>2. instance[d] = [id |-> committed[d].id, layer |-> file[committed[d].id].layer]
    BY <2>1 DEF Serving, Served
  <2> QED
    BY <1>4, <2>1, <2>2 DEF LoseRegistry
<1>5. CASE ServerRestarts
  <2>1. \A w \in Workers : worker'[w] = Idle
    BY <1>5 DEF ServerRestarts
  <2>2. \A w \in Workers : ServingOK(w)'
    BY <2>1, IdleServes
  <2>3. contested' = contested
    BY <1>5 DEF ServerRestarts
  <2>4. CASE LoseRegistry
    BY <1>2, <1>3, <1>4, <2>2, <2>3, <2>4 DEF Serving
  <2>5. CASE leaked' = leaked \cup Abandoned /\ UNCHANGED <<instance, forgotten>>
    <3>1. Served'
      BY <1>1, <2>3, <2>5 DEF Serving, Served, Published
    <3>2. Owned'
      <4> SUFFICES ASSUME NEW d \in Chains \ leaked', instance[d] # NoInstance
                   PROVE  IsProxy(d)' /\ committed'[d].id = instance[d].id
        BY <2>5 DEF Owned
      <4>1. ~\E w \in Workers : worker[w].target = d
        BY <2>5 DEF Abandoned
      <4> QED
        BY <1>1, <2>5, <4>1 DEF Serving, Owned, Owns, IsProxy, Published
    <3> QED
      BY <1>2, <2>2, <3>1, <3>2 DEF Serving
  <2> QED
    BY <1>5, <2>4, <2>5 DEF ServerRestarts
<1>6. CASE LazydDies
  <2>1. LoseRegistry /\ UNCHANGED <<worker, contested>> /\ LazydUp /\ ~LazydUp'
    BY <1>6 DEF LazydDies, LazydUp
  <2>2. ASSUME NEW w \in Workers PROVE ServingOK(w)'
    <3>1. ServingOK(w)
      BY DEF Serving
    <3>2. Bound(w)'
      <4> SUFFICES ASSUME Daemon = "lazyd", worker[w].pc \in Owing, worker[w].unbind,
                          worker[w].target \notin contested, worker[w].id \notin forgotten'
                   PROVE  FALSE
        BY <2>1 DEF Bound
      <4>1. instance[worker[w].target].id = worker[w].id
        BY <2>1, <3>1 DEF ServingOK, Bound
      <4>2. worker[w].id # 0 /\ worker[w].target \in Chains
        BY Held DEF Owing, Holding
      <4> QED
        BY <2>1, <4>1, <4>2 DEF LoseRegistry
    <3> QED
      BY <1>1, <2>1, <3>1, <3>2 DEF ServingOK, FollowsParent, IsProxy, Published
  <2> QED
    BY <1>2, <1>3, <1>4, <2>1, <2>2 DEF Serving
<1>7. CASE OrphanDisplaced
  <2>1. /\ LoseRegistry /\ worker' = worker
        /\ contested \subseteq contested'
        /\ \A w \in Workers : worker[w].unbind => worker[w].target \in contested'
    BY <1>7 DEF OrphanDisplaced
  <2>2. ASSUME NEW w \in Workers PROVE ServingOK(w)'
    <3>1. ServingOK(w) /\ worker' = worker
      BY <2>1 DEF Serving
    <3>2. Bound(w)'
      BY <2>1 DEF Bound
    <3> QED
      BY <1>1, <3>1, <3>2 DEF ServingOK, FollowsParent, IsProxy, Published
  <2> QED
    BY <1>2, <1>3, <1>4, <2>1, <2>2 DEF Serving
<1> QED
  BY <1>5, <1>6, <1>7

-----------------------------------------------------------------------------
(* At first nothing is published or bound. *)
LEMMA InitServes == Init => Serving
<1> SUFFICES ASSUME Init PROVE Serving
  OBVIOUS
<1>1. /\ \A w \in Workers : worker[w] = Idle
      /\ \A c \in Chains : ~Published(c) /\ instance[c] = NoInstance
  BY DEF Init, Published, NoCommitted
<1>2. ASSUME NEW w \in Workers PROVE ServingOK(w)
  <2>1. worker[w] = Idle
    BY <1>1
  <2> QED
    BY <2>1 DEF ServingOK, Bound, FollowsParent, Idle, Early, Owing, Selected
<1> QED
  BY <1>1, <1>2 DEF Serving, RemoverAlone, Idle, RemoveSteps, Owned, Served,
                    LabelsFollowParent, IsProxy

(* Every step of an exclusive caller keeps what is served. *)
LEMMA NextServes ==
    ASSUME SharedBasesAgree, ExclusiveRemove, IndInv, Serving, [Next]_vars
    PROVE  Serving'
<1>0. IndInv'
  BY NextIndInv
<1>1. ASSUME NEW w \in Workers, PrepareStep(w) PROVE Serving'
  <2>1. CASE \E k \in Keys, im \in Images :
                \E n \in 1..Len(LegacyLayers[im]) : PrepareStat(w, k, im, n)
    BY <2>1, BeginServes
  <2>2. CASE ResolveAnnotation(w) \/ ResolveParent(w) \/ ResolveNone(w)
    BY <2>2, ResolveServes
  <2>3. CASE SelectLayer(w) \/ SelectFails(w) \/ BasePrepare(w) \/ BasePrepareFails(w)
    BY <2>3, PrepareServes
  <2>4. CASE \/ MaterializeLocal(w) \/ MaterializeFails(w) \/ MaterializeRemote(w)
             \/ EagerBind(w) \/ CreateSparseTarget(w)
    BY <2>4, FillServes
  <2>5. CASE \/ BindFails(w) \/ PutFails(w) \/ CommitFails(w)
             \/ CleanupRemove(w) \/ CleanupRemoveFails(w)
    BY <2>5, GiveUpServes
  <2>6. CASE PutInstance(w) \/ PutUnanswered(w)
    BY <2>6, PutServes
  <2>7. CASE Commit(w)
    BY <1>0, <2>7, CommitServes
  <2>8. CASE CleanupUnbind(w)
    BY <2>8, UnbindServes
  <2> QED
    BY <1>1, <2>1, <2>2, <2>3, <2>4, <2>5, <2>6, <2>7, <2>8 DEF PrepareStep
<1>2. ASSUME NEW w \in Workers, ClientStep(w) PROVE Serving'
  BY <1>0, <1>2, FillServes, CommitServes, GiveUpServes DEF ClientStep
<1>3. ASSUME NEW w \in Workers, RemoveStep(w) PROVE Serving'
  BY <1>0, <1>3, BeginServes, BaseRemoveServes, GiveUpServes, UnbindServes DEF RemoveStep
<1>4. CASE \/ \E k \in Keys : RemoveStale(k) \/ \E c \in Chains : PrepareContainer(k, c)
           \/ \E l \in Layers : StoreChanges(l)
  BY <1>4, StillServes
<1>5. CASE LazydDies \/ ServerRestarts \/ OrphanDisplaced
  BY <1>5, CrashServes
<1>6. CASE UNCHANGED vars
  <2>1. UNCHANGED <<committed, file, instance, listener, leaked, forgotten, contested,
                    worker>>
    BY <1>6 DEF vars, base, lazyd
  <2>2. ASSUME NEW w \in Workers PROVE ServingOK(w)'
    <3>1. ServingOK(w)
      BY DEF Serving
    <3>2. Bound(w)' /\ FollowsParent(w)'
      BY <2>1, <3>1 DEF ServingOK, Bound, FollowsParent, IsProxy, Published, LazydUp
    <3> QED
      BY <2>1, <3>1, <3>2 DEF ServingOK, IsProxy, Published
  <2>3. RemoverAlone' /\ Owned'
    BY <2>1 DEF Serving, RemoverAlone, Owned, Owns, IsProxy, Published
  <2>4. Served' /\ LabelsFollowParent'
    BY <2>1 DEF Serving, Served, LabelsFollowParent, IsProxy, Published
  <2> QED
    BY <2>2, <2>3, <2>4 DEF Serving
<1> QED
  BY <1>1, <1>2, <1>3, <1>4, <1>5, <1>6 DEF Next

(* What is served stays served, whatever calls overlap, fail or are lost,  *)
(* and whatever crashes come between them.                                 *)
THEOREM ServingInvariance ==
    ASSUME SharedBasesAgree, ExclusiveRemove
    PROVE  Spec => []Serving
<1>1. Init => Serving
  BY InitServes
<1>2. IndInv /\ Serving /\ [Next]_vars => Serving'
  BY NextServes
<1> QED
  BY <1>1, <1>2, Invariance, PTL DEF Spec

(* A committed layer that is not on the disk has its instance at lazyd: no *)
(* cleanup and no Remove revokes another call's (snapshotter.go).          *)
THEOREM CommittedIsServed ==
    ASSUME SharedBasesAgree, ExclusiveRemove
    PROVE  Spec => []Served
<1>1. Serving => Served
  BY DEF Serving
<1> QED
  BY <1>1, ServingInvariance, PTL

(* No instance is left without a snapshot or a handler that unbinds it,    *)
(* but for those whose call was lost.                                      *)
THEOREM InstancesAreOwned ==
    ASSUME SharedBasesAgree, ExclusiveRemove
    PROVE  Spec => []InstanceOwned
<1>1. Serving => InstanceOwned
  BY DEF Serving, Owned, Owns, InstanceOwned
<1> QED
  BY <1>1, ServingInvariance, PTL

(* The labels of a proxy snapshot count the layers of its chain, each on   *)
(* the proxy snapshot of the same manifest (resolveProxyTarget).           *)
THEOREM LabelsCount ==
    ASSUME SharedBasesAgree, ExclusiveRemove
    PROVE  Spec => []LabelsFollowParent
<1>1. Serving => LabelsFollowParent
  BY DEF Serving
<1> QED
  BY <1>1, ServingInvariance, PTL
=============================================================================
