------------------------ MODULE ManifestCacheProofs ------------------------
(***************************************************************************)
(* Proofs about ManifestCache, for any number of calls and digests and any *)
(* size of the cache.                                                      *)
(***************************************************************************)
EXTENDS ManifestCache, SequenceTheorems, FiniteSetTheorems, TLAPS

(* A call asks for a digest, and what it has found is the digest's. *)
GettersOK ==
    \A g \in Getters :
        /\ getter[g].pc # "idle" => getter[g].digest \in Digests
        /\ getter[g].pc \in {"store", "ok"} => getter[g].manifest = getter[g].digest

(* The order lists each cached digest once, and is bounded. *)
OrderOK ==
    /\ Cached = Queued
    /\ \A m, n \in 1..Len(cacheOrder) : cacheOrder[m] = cacheOrder[n] => m = n
    /\ Len(cacheOrder) <= MaxEntries

EntriesOK == \A d \in Cached : cache[d] = d

IndInv == TypeOK /\ GettersOK /\ OrderOK /\ EntriesOK

-----------------------------------------------------------------------------
(* At first there is nothing. *)
LEMMA InitIndInv == Init => IndInv
<1> SUFFICES ASSUME Init PROVE IndInv
  OBVIOUS
<1> USE CacheAssumption DEF Init, Idle
<1>1. TypeOK
  BY DEF TypeOK
<1>2. GettersOK
  BY DEF GettersOK
<1>3. OrderOK /\ EntriesOK
  BY DEF OrderOK, EntriesOK, Cached, Queued
<1> QED
  BY <1>1, <1>2, <1>3 DEF IndInv

(* A call moves to a step at which it has found nothing. *)
LEMMA GotoTyped ==
    ASSUME TypeOK, GettersOK, NEW g \in Getters, NEW pc \in {"local", "remote", "err"},
           getter[g].pc # "idle", Goto(g, pc), UNCHANGED <<cache, cacheOrder>>
    PROVE  TypeOK' /\ GettersOK'
  BY DEF TypeOK, GettersOK, Goto

(* A call finds the manifest of its digest. *)
LEMMA FoundTyped ==
    ASSUME TypeOK, GettersOK, NEW g \in Getters, NEW pc \in {"store", "ok"},
           getter[g].pc # "idle", Found(g, pc, getter[g].digest),
           UNCHANGED <<cache, cacheOrder>>
    PROVE  TypeOK' /\ GettersOK'
<1>1. getter[g] \in [pc : {"idle", "cached", "local", "remote", "store", "ok", "err"},
                    digest : Digests \cup {Nothing}, manifest : Digests \cup {Nothing}]
  BY DEF TypeOK
<1>2. /\ getter'[g].pc = pc /\ getter'[g].digest = getter[g].digest
      /\ getter'[g].manifest = getter[g].digest
      /\ \A h \in Getters : h # g => getter'[h] = getter[h]
  BY <1>1 DEF TypeOK, Found
<1>3. getter' \in [Getters -> [pc : {"idle", "cached", "local", "remote", "store", "ok", "err"},
                              digest : Digests \cup {Nothing},
                              manifest : Digests \cup {Nothing}]]
  BY <1>1 DEF TypeOK, Found
<1>4. getter[g].digest \in Digests /\ getter[g].digest # Nothing
  BY CacheAssumption DEF GettersOK
<1> QED
  BY <1>2, <1>3, <1>4 DEF TypeOK, GettersOK

(* Only a store changes the cache; a call that has found its manifest has  *)
(* verified it, or found it in the cache.                                  *)
LEMMA QuietStep ==
    ASSUME IndInv, NEW g \in Getters,
           (Get(g) /\ ~StoreCached(g)) \/ Return(g) \/ \E d \in Digests : Call(g, d)
    PROVE  IndInv' /\ UNCHANGED <<cache, cacheOrder>>
<1>1. UNCHANGED <<cache, cacheOrder>>
  BY DEF Get, GetCached, GetLocal, NotLocal, Fetch, GetFails, Return, Call
<1>2. TypeOK' /\ GettersOK'
  <2>1. CASE GetCached(g)
    <3>1. getter[g].digest \in Digests /\ getter[g].pc # "idle"
      BY <2>1 DEF IndInv, GettersOK, GetCached, At
    <3>2. CASE cache[getter[g].digest] = Nothing
      BY <1>1, <2>1, <3>1, <3>2, GotoTyped DEF IndInv, GetCached
    <3>3. CASE cache[getter[g].digest] # Nothing
      <4>1. cache[getter[g].digest] = getter[g].digest
        BY <3>1, <3>3 DEF IndInv, EntriesOK, Cached
      <4> QED
        BY <1>1, <2>1, <3>1, <3>3, <4>1, FoundTyped DEF IndInv, GetCached
    <3> QED
      BY <3>2, <3>3
  <2>2. ASSUME NEW blob \in Digests, GetLocal(g, blob) \/ Fetch(g, blob)
        PROVE  TypeOK' /\ GettersOK'
    <3>1. getter[g].pc # "idle"
      BY <2>2 DEF GetLocal, Fetch, At
    <3>2. CASE blob = getter[g].digest
      BY <1>1, <2>2, <3>1, <3>2, FoundTyped DEF IndInv, GetLocal, Fetch, Verified
    <3>3. CASE blob # getter[g].digest
      BY <1>1, <2>2, <3>1, <3>3, GotoTyped DEF IndInv, GetLocal, Fetch, Verified
    <3> QED
      BY <3>2, <3>3
  <2>3. CASE NotLocal(g) \/ GetFails(g)
    BY <1>1, <2>3, GotoTyped DEF IndInv, NotLocal, GetFails, At
  <2>4. CASE Return(g)
    BY <1>1, <2>4 DEF IndInv, TypeOK, GettersOK, Return, Idle
  <2>5. ASSUME NEW d \in Digests, Call(g, d)
        PROVE  TypeOK' /\ GettersOK'
    BY <1>1, <2>5 DEF IndInv, TypeOK, GettersOK, Call, Idle
  <2> QED
    BY <2>1, <2>2, <2>3, <2>4, <2>5 DEF Get
<1>3. OrderOK' /\ EntriesOK'
  BY <1>1 DEF IndInv, OrderOK, EntriesOK, Cached, Queued
<1> QED
  BY <1>1, <1>2, <1>3 DEF IndInv

-----------------------------------------------------------------------------
(* A store adds an entry, when there is room, or puts it in place of the   *)
(* oldest.                                                                 *)
Grows(d) ==
    /\ d \notin Cached
    /\ cacheOrder' = Append(cacheOrder, d)
    /\ Len(cacheOrder) < MaxEntries
    /\ cache' = [cache EXCEPT ![d] = d]

Turns(d) ==
    /\ d \notin Cached
    /\ Len(cacheOrder) = MaxEntries
    /\ cacheOrder' = SubSeq(Append(cacheOrder, d), 2, MaxEntries + 1)
    /\ cache' = [cache EXCEPT ![d] = d, ![cacheOrder[1]] = Nothing]

(* That is all it does; nothing, when the digest is there already.         *)
LEMMA StoreOutcome ==
    ASSUME IndInv, NEW g \in Getters, StoreCached(g)
    PROVE  \/ UNCHANGED <<cache, cacheOrder>>
           \/ \E d \in Digests : Grows(d) \/ Turns(d)
<1> DEFINE d == getter[g].digest
           order == Ordered(d)
           excess == Excess(Len(order))
           evicted == {order[n] : n \in 1..excess}
<1>1. d \in Digests /\ getter[g].manifest = d
  BY DEF IndInv, GettersOK, StoreCached, At
<1>2. /\ cacheOrder \in Seq(Digests) /\ Len(cacheOrder) \in Nat
      /\ cache \in [Digests -> Digests \cup {Nothing}]
      /\ MaxEntries \in Nat \ {0} /\ Len(cacheOrder) <= MaxEntries
  BY CacheAssumption DEF IndInv, TypeOK, OrderOK
<1>3. /\ cacheOrder' = SubSeq(order, excess + 1, Len(order))
      /\ cache' = [e \in Digests |-> IF e \in evicted THEN Nothing
                                     ELSE IF e = d THEN d ELSE cache[e]]
  BY <1>1 DEF StoreCached
<1>4. CASE d \in Cached
  <2>1. order = cacheOrder /\ cache[d] = d
    BY <1>4 DEF Ordered, Cached, IndInv, EntriesOK
  <2>2. excess = 0
    BY <1>2, <2>1 DEF Excess
  <2>3. cacheOrder' = cacheOrder
    BY <1>2, <1>3, <2>1, <2>2, SubSeqFull
  <2>4. evicted = {}
    BY <2>2
  <2>5. cache' = cache
    BY <1>2, <1>3, <2>1, <2>4
  <2> QED
    BY <2>3, <2>5
<1>5. CASE d \notin Cached
  <2>1. order = Append(cacheOrder, d) /\ order \in Seq(Digests)
        /\ Len(order) = Len(cacheOrder) + 1
    BY <1>1, <1>2, <1>5 DEF Ordered, Cached
  <2>2. CASE Len(cacheOrder) < MaxEntries
    <3>1. excess = 0
      BY <1>2, <2>1, <2>2 DEF Excess
    <3>2. cacheOrder' = order
      BY <1>3, <2>1, <3>1, SubSeqFull
    <3>3. evicted = {}
      BY <3>1
    <3>4. cache' = [cache EXCEPT ![d] = d]
      BY <1>1, <1>2, <1>3, <3>3
    <3> QED
      BY <1>1, <1>5, <2>1, <2>2, <3>2, <3>4 DEF Grows
  <2>3. CASE Len(cacheOrder) = MaxEntries
    <3>1. excess = 1 /\ Len(order) = MaxEntries + 1
      BY <1>2, <2>1, <2>3 DEF Excess
    <3>2. cacheOrder' = SubSeq(order, 2, MaxEntries + 1)
      BY <1>3, <3>1
    <3>3. evicted = {cacheOrder[1]} /\ cacheOrder[1] \in Digests
      BY <1>2, <2>1, <2>3, <3>1
    <3>4. cacheOrder[1] # d
      BY <1>2, <1>5, <2>3 DEF IndInv, OrderOK, Queued
    <3>5. cache' = [cache EXCEPT ![d] = d, ![cacheOrder[1]] = Nothing]
      BY <1>1, <1>2, <1>3, <3>3, <3>4
    <3> QED
      BY <1>1, <1>5, <2>1, <2>3, <3>2, <3>5 DEF Turns
  <2> QED
    BY <1>2, <2>2, <2>3
<1> QED
  BY <1>4, <1>5

(* A store keeps map and order one queue. *)
LEMMA StoreStep ==
    ASSUME IndInv, NEW g \in Getters, StoreCached(g)
    PROVE  IndInv'
<1>1. GettersOK'
  BY DEF IndInv, TypeOK, GettersOK, StoreCached, Goto, At
<1>2. getter' \in [Getters -> [pc : {"idle", "cached", "local", "remote", "store", "ok", "err"},
                              digest : Digests \cup {Nothing},
                              manifest : Digests \cup {Nothing}]]
      /\ \A h \in Getters : getter'[h].pc \in {"store", "ok"} => getter'[h].manifest # Nothing
  BY DEF IndInv, TypeOK, StoreCached, Goto, At
<1>3. CASE UNCHANGED <<cache, cacheOrder>>
  BY <1>1, <1>2, <1>3 DEF IndInv, TypeOK, OrderOK, EntriesOK, Cached, Queued
<1>4. ASSUME NEW d \in Digests, Grows(d)
      PROVE  IndInv'
  <2>1. /\ cacheOrder' \in Seq(Digests) /\ Len(cacheOrder') = Len(cacheOrder) + 1
        /\ \A n \in 1..Len(cacheOrder) : cacheOrder'[n] = cacheOrder[n]
        /\ cacheOrder'[Len(cacheOrder) + 1] = d
        /\ Len(cacheOrder) \in Nat
    BY <1>4 DEF Grows, IndInv, TypeOK
  <2>2. cache' \in [Digests -> Digests \cup {Nothing}]
        /\ \A e \in Digests : cache'[e] = IF e = d THEN d ELSE cache[e]
    BY <1>4 DEF Grows, IndInv, TypeOK
  <2>3. Cached' = Cached \cup {d}
    BY <2>2, CacheAssumption DEF Cached
  <2>4. Queued' = Queued \cup {d}
    BY <2>1 DEF Queued
  <2>5. OrderOK'
    BY <1>4, <2>1, <2>3, <2>4, CacheAssumption DEF Grows, IndInv, OrderOK, Queued
  <2>6. EntriesOK'
    BY <2>2, <2>3 DEF IndInv, EntriesOK, Cached
  <2> QED
    BY <1>1, <1>2, <2>1, <2>2, <2>5, <2>6 DEF IndInv, TypeOK
<1>5. ASSUME NEW d \in Digests, Turns(d)
      PROVE  IndInv'
  <2> DEFINE n == MaxEntries
  <2>1. /\ cacheOrder \in Seq(Digests) /\ Len(cacheOrder) = n /\ n \in Nat \ {0}
    BY <1>5, CacheAssumption DEF Turns, IndInv, TypeOK
  <2>2. /\ cacheOrder' \in Seq(Digests) /\ Len(cacheOrder') = n
        /\ \A i \in 1..n : cacheOrder'[i] = IF i = n THEN d ELSE cacheOrder[i + 1]
    <3>1. /\ Append(cacheOrder, d) \in Seq(Digests) /\ Len(Append(cacheOrder, d)) = n + 1
          /\ \A i \in 1..n : Append(cacheOrder, d)[i] = cacheOrder[i]
          /\ Append(cacheOrder, d)[n + 1] = d
      BY <2>1
    <3>2. /\ SubSeq(Append(cacheOrder, d), 2, n + 1) \in Seq(Digests)
          /\ Len(SubSeq(Append(cacheOrder, d), 2, n + 1)) = n
          /\ \A i \in 1..n : SubSeq(Append(cacheOrder, d), 2, n + 1)[i] =
                                 Append(cacheOrder, d)[i + 1]
      BY <2>1, <3>1, SubSeqProperties
    <3> QED
      BY <1>5, <2>1, <3>1, <3>2 DEF Turns
  <2>3. cacheOrder[1] \in Cached /\ cacheOrder[1] # d
    BY <1>5, <2>1 DEF Turns, IndInv, OrderOK, Queued
  <2>4. cache' \in [Digests -> Digests \cup {Nothing}]
        /\ \A e \in Digests : cache'[e] = IF e = cacheOrder[1] THEN Nothing
                                          ELSE IF e = d THEN d ELSE cache[e]
    BY <1>5, <2>3 DEF Turns, IndInv, TypeOK, Cached
  <2>5. Cached' = (Cached \cup {d}) \ {cacheOrder[1]}
    BY <2>3, <2>4, CacheAssumption DEF Cached
  <2>6. Queued' = (Queued \cup {d}) \ {cacheOrder[1]}
    <3>1. Queued' = {cacheOrder'[i] : i \in 1..n}
      BY <2>2 DEF Queued
    <3>2. \A i \in 1..n : cacheOrder'[i] = d \/ cacheOrder'[i] \in Queued \ {cacheOrder[1]}
      BY <2>1, <2>2 DEF IndInv, OrderOK, Queued
    <3>3. ASSUME NEW e \in Queued, e # cacheOrder[1] PROVE \E i \in 1..n : cacheOrder'[i] = e
      <4>1. PICK i \in 1..n : cacheOrder[i] = e
        BY <2>1 DEF Queued
      <4>2. i - 1 \in 1..n /\ i - 1 # n /\ (i - 1) + 1 = i
        BY <2>1, <3>3, <4>1
      <4> QED
        BY <2>2, <4>1, <4>2
    <3>4. n \in 1..n /\ cacheOrder'[n] = d
      BY <2>1, <2>2
    <3> QED
      BY <2>3, <3>1, <3>2, <3>3, <3>4
  <2>7. \A i, j \in 1..n : cacheOrder'[i] = cacheOrder'[j] => i = j
    <3>1. \A i \in 1..n : cacheOrder[i] # d
      BY <1>5, <2>1 DEF Turns, IndInv, OrderOK, Queued
    <3>2. ASSUME NEW i \in 1..n, NEW j \in 1..n, cacheOrder'[i] = cacheOrder'[j]
          PROVE  i = j
      <4>1. CASE i = n \/ j = n
        <5>1. \A k \in 1..n : k # n => k + 1 \in 1..n
          BY <2>1
        <5> QED
          BY <2>2, <3>1, <3>2, <4>1, <5>1
      <4>2. CASE i # n /\ j # n
        <5>1. i + 1 \in 1..n /\ j + 1 \in 1..n /\ cacheOrder[i + 1] = cacheOrder[j + 1]
          BY <2>1, <2>2, <3>2, <4>2
        <5>2. i + 1 = j + 1
          BY <2>1, <5>1 DEF IndInv, OrderOK
        <5> QED
          BY <5>2
      <4> QED
        BY <4>1, <4>2
    <3> QED
      BY <3>2
  <2>8. OrderOK'
    BY <2>1, <2>2, <2>5, <2>6, <2>7 DEF IndInv, OrderOK
  <2>9. EntriesOK'
    BY <2>4, <2>5 DEF IndInv, EntriesOK, Cached
  <2> QED
    BY <1>1, <1>2, <2>2, <2>4, <2>8, <2>9 DEF IndInv, TypeOK
<1> QED
  BY <1>3, <1>4, <1>5, StoreOutcome

(* Every step keeps the invariant. *)
LEMMA NextIndInv == IndInv /\ [Next]_vars => IndInv'
<1> SUFFICES ASSUME IndInv, [Next]_vars PROVE IndInv'
  OBVIOUS
<1>1. CASE Next
  BY <1>1, QuietStep, StoreStep DEF Next
<1>2. CASE UNCHANGED vars
  BY <1>2 DEF vars, IndInv, TypeOK, GettersOK, OrderOK, EntriesOK, Cached, Queued
<1> QED
  BY <1>1, <1>2

-----------------------------------------------------------------------------
(* The invariant holds of every behaviour. *)
THEOREM Invariance == Spec => []IndInv
  BY InitIndInv, NextIndInv, PTL DEF Spec

(* Type correctness: no call is answered without a manifest. *)
THEOREM TypeCorrect == Spec => []TypeOK
<1>1. IndInv => TypeOK
  BY DEF IndInv
<1> QED
  BY <1>1, Invariance, PTL

(* The order counts the entries. *)
LEMMA OrderCounts ==
    ASSUME IndInv
    PROVE  IsFiniteSet(Cached) /\ Cardinality(Cached) = Len(cacheOrder)
<1> DEFINE I == 1..Len(cacheOrder)
           f == [n \in I |-> cacheOrder[n]]
<1>1. Len(cacheOrder) \in Nat
  BY DEF IndInv, TypeOK
<1>2. IsFiniteSet(I) /\ Cardinality(I) = Len(cacheOrder)
  <2>1. IsFiniteSet(I)
        /\ Cardinality(I) = IF 1 > Len(cacheOrder) THEN 0 ELSE Len(cacheOrder) - 1 + 1
    BY <1>1, FS_Interval
  <2> QED
    BY <1>1, <2>1
<1>3. f \in Bijection(I, Cached)
  <2>1. f \in Injection(I, Cached)
    BY DEF IndInv, OrderOK, Queued, Injection, IsInjective
  <2>2. f \in Surjection(I, Cached)
    BY DEF IndInv, OrderOK, Queued, Surjection
  <2> QED
    BY <2>1, <2>2 DEF Bijection
<1> QED
  BY <1>2, <1>3, FS_Bijection DEF ExistsBijection

(* Every cached digest is queued once and every queued digest is cached,   *)
(* however many fetches of one digest overlap (storeCached).               *)
THEOREM CacheIsQueued == Spec => []CacheQueued
<1>1. IndInv => CacheQueued
  BY OrderCounts DEF IndInv, OrderOK, CacheQueued
<1> QED
  BY <1>1, Invariance, PTL

(* The cache never has more than maxManifestCacheEntries.                  *)
THEOREM CacheIsBounded == Spec => []CacheBounded
<1>1. IndInv => CacheBounded
  BY OrderCounts DEF IndInv, OrderOK, CacheBounded
<1> QED
  BY <1>1, Invariance, PTL

(* What Get answers, and what it keeps, has the digest asked for, whatever *)
(* bytes the content store and the registry sent (decodeManifest).         *)
THEOREM AnswersAreVerified == Spec => []AnswersVerified
<1>1. IndInv => AnswersVerified
  BY DEF IndInv, GettersOK, EntriesOK, AnswersVerified, At
<1> QED
  BY <1>1, Invariance, PTL

(* Only the oldest entry goes, only from a full cache, and only for one    *)
(* that comes in (storeCached).                                            *)
THEOREM EvictionIsFIFO == Spec => EvictsOldest
<1> DEFINE Evicts(d) ==
        d \in Cached /\ d \notin Cached' =>
            /\ d = Head(cacheOrder)
            /\ Cardinality(Cached) = MaxEntries
            /\ \E e \in Digests \ Cached : Cached' = (Cached \ {d}) \cup {e}
<1>1. ASSUME IndInv, [Next]_vars
      PROVE  \/ UNCHANGED <<cache, cacheOrder>>
             \/ \E d \in Digests : Grows(d) \/ Turns(d)
  BY <1>1, QuietStep, StoreOutcome DEF Next, vars
<1>2. ASSUME IndInv, UNCHANGED <<cache, cacheOrder>>
      PROVE  \A d \in Digests : Evicts(d)
  BY <1>2 DEF Cached
<1>3. ASSUME IndInv, NEW e \in Digests, Grows(e)
      PROVE  \A d \in Digests : Evicts(d)
  <2>1. \A d \in Digests : cache'[d] = IF d = e THEN e ELSE cache[d]
    BY <1>3 DEF IndInv, TypeOK, Grows
  <2> QED
    BY <2>1, CacheAssumption DEF Cached
<1>4. ASSUME IndInv, NEW e \in Digests, Turns(e)
      PROVE  \A d \in Digests : Evicts(d)
  <2>1. cacheOrder[1] \in Cached /\ cacheOrder[1] # e /\ e \notin Cached
    BY <1>4, CacheAssumption DEF Turns, IndInv, OrderOK, Queued
  <2>2. \A d \in Digests : cache'[d] = IF d = cacheOrder[1] THEN Nothing
                                       ELSE IF d = e THEN e ELSE cache[d]
    BY <1>4, <2>1 DEF Turns, IndInv, TypeOK, Cached
  <2>3. Cached' = (Cached \ {cacheOrder[1]}) \cup {e}
    BY <2>1, <2>2, CacheAssumption DEF Cached
  <2>4. Cardinality(Cached) = MaxEntries
    BY <1>4, OrderCounts DEF Turns
  <2>5. Head(cacheOrder) = cacheOrder[1]
    BY <1>4 DEF IndInv, TypeOK
  <2> QED
    BY <2>1, <2>3, <2>4, <2>5
<1>5. IndInv /\ [Next]_vars => [\A d \in Digests : Evicts(d)]_vars
  BY <1>1, <1>2, <1>3, <1>4
<1> QED
  BY <1>5, Invariance, PTL DEF Spec, EvictsOldest
=============================================================================
