--------------------------- MODULE ManifestCache ---------------------------
(***************************************************************************)
(* RegistryManifestProvider (pkg/containerd-erofs-grpc/manifest.go): EROFS *)
(* manifests by digest, from a bounded cache, the content store or the     *)
(* registry.  Prepares call Get at the same time; only the look into the   *)
(* cache and the store into it are under the mutex, so several may fetch   *)
(* one digest at once, and store it when it is already there, or again     *)
(* after it was evicted.                                                   *)
(*                                                                         *)
(* A manifest is named by the digest of its bytes.                         *)
(***************************************************************************)
EXTENDS Naturals, Sequences, FiniteSets

CONSTANTS
    Getters,     \* concurrent calls of Get
    Digests,     \* digests asked for
    Nothing,     \* no digest, no manifest
    MaxEntries   \* maxManifestCacheEntries

ASSUME CacheAssumption == MaxEntries \in Nat \ {0} /\ Nothing \notin Digests

VARIABLES
    cache,       \* digest |-> cached manifest, or Nothing
    cacheOrder,  \* digests, the oldest first
    getter       \* the calls: [pc, digest, manifest]

vars == <<cache, cacheOrder, getter>>

Idle == [pc |-> "idle", digest |-> Nothing, manifest |-> Nothing]

Init ==
    /\ cache = [d \in Digests |-> Nothing]
    /\ cacheOrder = <<>>
    /\ getter = [g \in Getters |-> Idle]

At(g, pc) == getter[g].pc = pc
Goto(g, pc) == getter' = [getter EXCEPT ![g].pc = pc]
Found(g, pc, m) == getter' = [getter EXCEPT ![g].pc = pc, ![g].manifest = m]

Call(g, d) ==
    /\ At(g, "idle")
    /\ getter' = [getter EXCEPT ![g] = [Idle EXCEPT !.pc = "cached", !.digest = d]]
    /\ UNCHANGED <<cache, cacheOrder>>

(* Mutant of GetCached: a miss is answered like a hit. *)
MutantAnswersMiss(g) ==
    /\ At(g, "cached")
    /\ Found(g, "ok", cache[getter[g].digest])
    /\ UNCHANGED <<cache, cacheOrder>>

GetCached(g) ==
    LET m == cache[getter[g].digest]
    IN  /\ At(g, "cached")
        /\ IF m = Nothing THEN Goto(g, "local") ELSE Found(g, "ok", m)
        /\ UNCHANGED <<cache, cacheOrder>>

(* decodeManifest: the bytes of a blob are those of the digest asked for.  *)
MutantUnverified(g, blob) == TRUE
Verified(g, blob) == blob = getter[g].digest

(* The content store has the blob, or not; it may hold other bytes, and    *)
(* reading or decoding may fail: an error ends the call.                   *)
GetLocal(g, blob) ==
    /\ At(g, "local")
    /\ IF Verified(g, blob) THEN Found(g, "store", blob) ELSE Goto(g, "err")
    /\ UNCHANGED <<cache, cacheOrder>>

NotLocal(g) ==
    /\ At(g, "local")
    /\ Goto(g, "remote")
    /\ UNCHANGED <<cache, cacheOrder>>

(* The registry sends some bytes. *)
Fetch(g, blob) ==
    /\ At(g, "remote")
    /\ IF Verified(g, blob) THEN Found(g, "store", blob) ELSE Goto(g, "err")
    /\ UNCHANGED <<cache, cacheOrder>>

(* No image reference, or the registry cannot be reached, or the content   *)
(* store fails.                                                            *)
GetFails(g) ==
    /\ getter[g].pc \in {"local", "remote"}
    /\ Goto(g, "err")
    /\ UNCHANGED <<cache, cacheOrder>>

(* Mutant of Ordered: a digest stored again is queued again. *)
MutantQueuesTwice(d) == Append(cacheOrder, d)

Ordered(d) == IF cache[d] = Nothing THEN Append(cacheOrder, d) ELSE cacheOrder

(* Mutants of Excess: an entry too many is kept; one goes when the cache   *)
(* is about to be full.                                                    *)
MutantOneMore(n) == IF n > MaxEntries + 1 THEN n - MaxEntries - 1 ELSE 0
MutantOneLess(n) == IF n >= MaxEntries THEN n - MaxEntries + 1 ELSE 0
Excess(n) == IF n > MaxEntries THEN n - MaxEntries ELSE 0

(* The manifest is stored, and the oldest entries above the bound go.      *)
StoreCached(g) ==
    LET d == getter[g].digest
        order == Ordered(d)
        excess == Excess(Len(order))
        evicted == {order[n] : n \in 1..excess}
    IN  /\ At(g, "store")
        /\ cacheOrder' = SubSeq(order, excess + 1, Len(order))
        /\ cache' = [e \in Digests |-> IF e \in evicted THEN Nothing
                                       ELSE IF e = d THEN getter[g].manifest
                                       ELSE cache[e]]
        /\ Goto(g, "ok")

Return(g) ==
    /\ getter[g].pc \in {"ok", "err"}
    /\ getter' = [getter EXCEPT ![g] = Idle]
    /\ UNCHANGED <<cache, cacheOrder>>

Get(g) ==
    \/ GetCached(g)
    \/ \E blob \in Digests : GetLocal(g, blob) \/ Fetch(g, blob)
    \/ NotLocal(g) \/ GetFails(g) \/ StoreCached(g)

Next == \E g \in Getters : Get(g) \/ Return(g) \/ \E d \in Digests : Call(g, d)

Spec == Init /\ [][Next]_vars

-----------------------------------------------------------------------------
Cached == {d \in Digests : cache[d] # Nothing}
Queued == {cacheOrder[n] : n \in 1..Len(cacheOrder)}

(* The type invariant; no call is answered without a manifest. *)
TypeOK ==
    /\ cache \in [Digests -> Digests \cup {Nothing}]
    /\ cacheOrder \in Seq(Digests)
    /\ getter \in [Getters -> [pc : {"idle", "cached", "local", "remote", "store", "ok", "err"},
                               digest : Digests \cup {Nothing},
                               manifest : Digests \cup {Nothing}]]
    /\ \A g \in Getters : getter[g].pc \in {"store", "ok"} => getter[g].manifest # Nothing

(* The map and the order are one queue: every cached digest is queued once *)
(* and every queued digest is cached, whatever fetches of one digest       *)
(* overlap.  A digest left out of the order would never be evicted, one in *)
(* it twice would evict its own newer entry.                               *)
CacheQueued ==
    /\ Cached = Queued
    /\ Cardinality(Queued) = Len(cacheOrder)

(* The cache is bounded, between any two calls. *)
CacheBounded == Cardinality(Cached) <= MaxEntries

(* What Get answers and what it keeps are the bytes of the digest, though  *)
(* the registry or the content store sent others.                          *)
AnswersVerified ==
    /\ \A g \in Getters : At(g, "ok") => getter[g].manifest = getter[g].digest
    /\ \A d \in Cached : cache[d] = d

(* First in, first out: an entry goes only when the cache is full, only    *)
(* the oldest, and only for one that comes in.                             *)
EvictsOldest ==
    [][\A d \in Digests :
           d \in Cached /\ d \notin Cached' =>
               /\ d = Head(cacheOrder)
               /\ Cardinality(Cached) = MaxEntries
               /\ \E e \in Digests \ Cached : Cached' = (Cached \ {d}) \cup {e}]_vars
=============================================================================
