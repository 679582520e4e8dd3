------------------------- MODULE LazyInstanceProofs -------------------------
(***************************************************************************)
(* Proofs about LazyInstance, for any number of calls, any blob size, any  *)
(* block size and any set of requests: its type invariant, the reservation *)
(* of ranges in flight and, when the requests are of whole blocks, that a  *)
(* call answered Ok has its bytes in the file.                             *)
(***************************************************************************)
EXTENDS LazyInstance, TLAPS

(* A call past its checks that has not ended. *)
Fetching == {"data", "hole", "reserve"} \cup Reserving

(* A call that is past the checks of ensure_range asks for a range inside  *)
(* the blob, one of Requests, and writes from within it.                   *)
Checked ==
    \A t \in Tasks :
        /\ task[t].pc # "idle" => task[t].range \in Requests
        /\ task[t].pc \in Fetching => task[t].range \in FileRanges
        /\ task[t].pc \in Fetching \ {"write"} => task[t].pos = task[t].range.offset
        /\ task[t].pc = "write" =>
              task[t].range.offset <= task[t].pos /\ task[t].pos < WriteEnd(t)

(* No two reservations overlap. *)
ReservedApart ==
    \A s, t \in Tasks :
        s # t /\ task[s].pc \in Reserving /\ task[t].pc \in Reserving =>
            ~Overlaps(task[s].range, task[t].range)

ReservationInv == TypeOK /\ Checked /\ ReservationsHeld /\ ReservedApart

(* What is allocated is filled, a call found present is filled, and so is  *)
(* the part of its range that a call has written.                          *)
FillInv ==
    /\ allocated \subseteq data
    /\ AnsweredFilled
    /\ \A t \in Tasks :
          At(t, "write") => {b \in Span(task[t].range) : b < task[t].pos} \subseteq data

-----------------------------------------------------------------------------
(* Range::overlaps tells exactly whether two non-empty ranges share bytes. *)
LEMMA OverlapMeansShared ==
    ASSUME NEW r \in FileRanges, NEW s \in FileRanges
    PROVE  /\ Overlaps(r, s) = Overlaps(s, r)
           /\ ~Overlaps(r, s) => Span(r) \cap Span(s) = {} /\ r # s
PROOF
  <1>1. /\ r.offset \in Nat /\ r.len \in Nat /\ r.len > 0
        /\ s.offset \in Nat /\ s.len \in Nat /\ s.len > 0
    BY DEF FileRanges, Ranges
  <1>2. Overlaps(r, s) = Overlaps(s, r)
    BY <1>1, SMT DEF Overlaps
  <1>3. ASSUME ~Overlaps(r, s), NEW b, b \in Span(r), b \in Span(s)
        PROVE  FALSE
    <2>1. b \in Nat
      BY <1>3, SizeAssumption, SMT DEF Span, Bytes
    <2>2. /\ r.offset <= b /\ b < r.offset + r.len
          /\ s.offset <= b /\ b < s.offset + s.len
      BY <1>3 DEF Span
    <2> QED
      BY <1>1, <1>3, <2>1, <2>2, SMT DEF Overlaps
  <1>4. ASSUME ~Overlaps(r, s) PROVE r # s
    BY <1>1, <1>4, SMT DEF Overlaps
  <1> QED
    BY <1>2, <1>3, <1>4

(* What is written at once lies in the range and is allocated. *)
LEMMA PieceInRange ==
    ASSUME NEW t \in Tasks, NEW next
    PROVE  /\ Piece(t, next) \subseteq Span(task[t].range)
           /\ Piece(t, next) \subseteq Bytes
           /\ Extent(Piece(t, next)) \subseteq Bytes
           /\ Piece(t, next) \subseteq Extent(Piece(t, next))
PROOF
  BY DEF Piece, Span, Extent

-----------------------------------------------------------------------------
(* The control of one call: what a step writes to task[t] is typed, and     *)
(* the other calls are untouched.                                          *)
LEMMA GotoTyped ==
    ASSUME TypeOK, NEW t \in Tasks, NEW pc \in Steps, Goto(t, pc)
    PROVE  /\ task' \in [Tasks -> [pc : Steps, range : Ranges, pos : Nat]]
           /\ task'[t].pc = pc
           /\ task'[t].range = task[t].range
           /\ task'[t].pos = task[t].pos
           /\ \A u \in Tasks : u # t => task'[u] = task[u]
PROOF
  BY DEF TypeOK, Goto

(* A step that ends the reservation of t keeps those of the others; a step  *)
(* that does not change who reserves keeps them all.                       *)
LEMMA ReleaseKeepsOthers ==
    ASSUME ReservationInv, NEW t \in Tasks,
           task[t].pc \in Reserving, DropGuard(t),
           task'[t].pc \notin Reserving,
           \A u \in Tasks : u # t => task'[u] = task[u]
    PROVE  ReservationsHeld' /\ ReservedApart'
PROOF
  <1>1. \A u \in Tasks : u # t /\ task[u].pc \in Reserving =>
            task[u].range # task[t].range
    BY OverlapMeansShared DEF ReservationInv, Checked, ReservedApart, Fetching
  <1>2. ReservationsHeld'
    BY <1>1 DEF ReservationInv, ReservationsHeld, DropGuard
  <1>3. ReservedApart'
    BY DEF ReservationInv, ReservedApart
  <1> QED
    BY <1>2, <1>3

(* A step that leaves the reserving calls and the reservations as they are  *)
(* keeps both in agreement.                                                 *)
LEMMA StayKeepsReservations ==
    ASSUME ReservationInv, NEW t \in Tasks,
           (task'[t].pc \in Reserving) <=> (task[t].pc \in Reserving),
           task[t].pc \in Reserving => task'[t].range = task[t].range,
           UNCHANGED inflight,
           \A u \in Tasks : u # t => task'[u] = task[u]
    PROVE  ReservationsHeld' /\ ReservedApart'
PROOF
  BY DEF ReservationInv, ReservationsHeld, ReservedApart

(* The initial state has no reservation. *)
LEMMA ReservationInit == Init => ReservationInv
PROOF
  <1> SUFFICES ASSUME Init PROVE ReservationInv
    OBVIOUS
  <1>1. TypeOK
    BY SizeAssumption DEF Init, TypeOK, Idle, NoRange, Steps, Ranges, FileRanges, Bytes
  <1>2. Checked /\ ReservationsHeld /\ ReservedApart
    BY DEF Init, Checked, ReservationsHeld, ReservedApart, Idle, Fetching, Reserving
  <1> QED
    BY <1>1, <1>2 DEF ReservationInv

-----------------------------------------------------------------------------
(* Each action keeps the reservation invariant. *)
LEMMA RequestKeeps ==
    ASSUME ReservationInv, NEW t \in Tasks, NEW r \in Requests, Request(t, r)
    PROVE  ReservationInv'
PROOF
  <1> DEFINE pc == IF r.len = 0 THEN "ok"
                   ELSE IF r.offset + r.len > Size THEN "err" ELSE "data"
  <1>1. r \in Ranges
    BY RequestAssumption DEF Ranges
  <1>2. /\ task'[t] = [pc |-> pc, range |-> r, pos |-> r.offset]
        /\ \A u \in Tasks : u # t => task'[u] = task[u]
        /\ task' \in [Tasks -> [pc : Steps, range : Ranges, pos : Nat]]
    BY <1>1 DEF Request, ReservationInv, TypeOK, Steps, Ranges
  <1>3. task[t].pc = "idle" /\ UNCHANGED <<allocated, data, inflight>>
    BY DEF Request, At
  <1>4. TypeOK'
    BY <1>2, <1>3 DEF ReservationInv, TypeOK
  <1>5. pc = "data" => r \in FileRanges
    BY <1>1, SizeAssumption DEF FileRanges, Ranges
  <1>6. Checked'
    BY <1>2, <1>3, <1>5 DEF ReservationInv, Checked, Fetching, Reserving, WriteEnd
  <1>7. ReservationsHeld' /\ ReservedApart'
    BY <1>2, <1>3, StayKeepsReservations DEF Reserving
  <1> QED
    BY <1>4, <1>6, <1>7 DEF ReservationInv

(* SEEK_DATA in range_is_present, before and under the reservation. *)
LEMMA SeekDataKeeps ==
    ASSUME ReservationInv, NEW t \in Tasks, SeekData(t)
    PROVE  ReservationInv'
PROOF
  <1>1. PICK pc \in {"hole", "reserve", "hole2", "fetch"} :
          /\ Goto(t, pc)
          /\ task[t].pc \in {"data", "data2"}
          /\ pc \in Reserving <=> task[t].pc \in Reserving
    BY DEF SeekData, At, Reserving
  <1>2. UNCHANGED <<allocated, data, inflight>>
    BY DEF SeekData
  <1>3. TypeOK'
    BY <1>1, <1>2, GotoTyped DEF ReservationInv, TypeOK, Steps
  <1>4. Checked'
    BY <1>1, GotoTyped DEF ReservationInv, Checked, Steps, Fetching, Reserving, WriteEnd
  <1>5. ReservationsHeld' /\ ReservedApart'
    BY <1>1, <1>2, GotoTyped, StayKeepsReservations DEF ReservationInv, Steps
  <1> QED
    BY <1>3, <1>4, <1>5 DEF ReservationInv

(* SEEK_HOLE in range_is_present; found under the reservation, it ends it. *)
LEMMA SeekHoleKeeps ==
    ASSUME ReservationInv, NEW t \in Tasks, SeekHole(t)
    PROVE  ReservationInv'
PROOF
  <1>1. UNCHANGED <<allocated, data>>
    BY DEF SeekHole
  <1>2. CASE At(t, "hole")
    <2>1. UNCHANGED inflight
      BY <1>2 DEF SeekHole, At
    <2>2. PICK pc \in {"ok", "reserve"} : Goto(t, pc)
      BY <1>2 DEF SeekHole, At
    <2>3. TypeOK'
      BY <1>1, <2>1, <2>2, GotoTyped DEF ReservationInv, TypeOK, Steps
    <2>4. Checked'
      BY <1>2, <2>2, GotoTyped
         DEF ReservationInv, Checked, At, Steps, Fetching, Reserving, WriteEnd
    <2>5. ReservationsHeld' /\ ReservedApart'
      BY <1>2, <2>1, <2>2, GotoTyped, StayKeepsReservations
         DEF ReservationInv, At, Steps, Reserving
    <2> QED
      BY <2>3, <2>4, <2>5 DEF ReservationInv
  <1>3. CASE At(t, "hole2")
    <2>1. CASE NoHole(task[t].range)
      <3>1. Goto(t, "ok") /\ DropGuard(t)
        BY <1>3, <2>1 DEF SeekHole, At
      <3>2. TypeOK'
        BY <1>1, <3>1, GotoTyped DEF ReservationInv, TypeOK, Steps, DropGuard
      <3>3. Checked'
        BY <1>3, <3>1, GotoTyped
           DEF ReservationInv, Checked, At, Steps, Fetching, Reserving, WriteEnd
      <3>4. ReservationsHeld' /\ ReservedApart'
        BY <1>3, <3>1, GotoTyped, ReleaseKeepsOthers
           DEF ReservationInv, At, Steps, Reserving
      <3> QED
        BY <3>2, <3>3, <3>4 DEF ReservationInv
    <2>2. CASE ~NoHole(task[t].range)
      <3>1. Goto(t, "fetch") /\ UNCHANGED inflight
        BY <1>3, <2>2 DEF SeekHole, At
      <3>2. TypeOK'
        BY <1>1, <3>1, GotoTyped DEF ReservationInv, TypeOK, Steps
      <3>3. Checked'
        BY <1>3, <3>1, GotoTyped
           DEF ReservationInv, Checked, At, Steps, Fetching, Reserving, WriteEnd
      <3>4. ReservationsHeld' /\ ReservedApart'
        BY <1>3, <3>1, GotoTyped, StayKeepsReservations
           DEF ReservationInv, At, Steps, Reserving
      <3> QED
        BY <3>2, <3>3, <3>4 DEF ReservationInv
    <2> QED
      BY <2>1, <2>2
  <1> QED
    BY <1>2, <1>3 DEF SeekHole

(* The new reservation overlaps none that is held. *)
LEMMA ReserveKeeps ==
    ASSUME ReservationInv, NEW t \in Tasks, Reserve(t)
    PROVE  ReservationInv'
PROOF
  <1>1. /\ task[t].pc = "reserve"
        /\ Goto(t, "data2")
        /\ \A r \in inflight : ~Overlaps(r, task[t].range)
        /\ inflight' = inflight \cup {task[t].range}
        /\ UNCHANGED <<allocated, data>>
    BY DEF Reserve, At
  <1>2. task[t].range \in FileRanges
    BY <1>1 DEF ReservationInv, Checked, Fetching
  <1>3. TypeOK'
    BY <1>1, <1>2, GotoTyped DEF ReservationInv, TypeOK, Steps
  <1>4. Checked'
    BY <1>1, GotoTyped DEF ReservationInv, Checked, Steps, Fetching, Reserving, WriteEnd
  <1>5. ReservationsHeld'
    BY <1>1, GotoTyped DEF ReservationInv, ReservationsHeld, Steps, Reserving
  <1>6. \A s \in Tasks : s # t /\ task[s].pc \in Reserving =>
          /\ ~Overlaps(task[s].range, task[t].range)
          /\ ~Overlaps(task[t].range, task[s].range)
    <2> SUFFICES ASSUME NEW s \in Tasks, s # t, task[s].pc \in Reserving
                 PROVE  /\ ~Overlaps(task[s].range, task[t].range)
                        /\ ~Overlaps(task[t].range, task[s].range)
      OBVIOUS
    <2>1. task[s].range \in inflight /\ task[s].range \in FileRanges
      BY DEF ReservationInv, ReservationsHeld, Checked, Fetching
    <2> QED
      BY <1>1, <1>2, <2>1, OverlapMeansShared
  <1>7. ReservedApart'
    BY <1>1, <1>6, GotoTyped DEF ReservationInv, ReservedApart, Steps, Reserving
  <1> QED
    BY <1>3, <1>4, <1>5, <1>7 DEF ReservationInv

(* remote.read_range, with the reservation held. *)
LEMMA FetchKeeps ==
    ASSUME ReservationInv, NEW t \in Tasks, Fetch(t)
    PROVE  ReservationInv'
PROOF
  <1>1. /\ task[t].pc = "fetch"
        /\ Goto(t, "write")
        /\ UNCHANGED <<allocated, data, inflight>>
    BY DEF Fetch, At
  <1>2. TypeOK'
    BY <1>1, GotoTyped DEF ReservationInv, TypeOK, Steps
  <1>3. task[t].range \in FileRanges /\ task[t].pos = task[t].range.offset
    BY <1>1 DEF ReservationInv, Checked, Fetching, Reserving
  <1>4. task[t].range.offset <= task[t].pos /\ task[t].pos < WriteEnd(t)
    BY <1>3, SMT DEF FileRanges, Ranges, WriteEnd
  <1>5. Checked'
    BY <1>1, <1>4, GotoTyped
       DEF ReservationInv, Checked, Steps, Fetching, Reserving, WriteEnd
  <1>6. ReservationsHeld' /\ ReservedApart'
    BY <1>1, GotoTyped, StayKeepsReservations DEF ReservationInv, Steps, Reserving
  <1> QED
    BY <1>2, <1>5, <1>6 DEF ReservationInv

(* A pwrite of write_all_at; the last one ends the reservation. *)
LEMMA WriteKeeps ==
    ASSUME ReservationInv, NEW t \in Tasks, NEW next \in 1..Size, Write(t, next)
    PROVE  ReservationInv'
PROOF
  <1> DEFINE pc == IF next = WriteEnd(t) THEN "ok" ELSE "write"
  <1>1. task[t].pc = "write" /\ next \in (task[t].pos + 1)..WriteEnd(t)
    BY DEF Write, At
  <1>2. /\ task'[t] = [pc |-> pc, range |-> task[t].range, pos |-> next]
        /\ \A u \in Tasks : u # t => task'[u] = task[u]
        /\ task' \in [Tasks -> [pc : Steps, range : Ranges, pos : Nat]]
    <2>1. task' = [task EXCEPT ![t].pos = next, ![t].pc = pc]
      BY DEF Write
    <2>2. next \in Nat /\ pc \in Steps
      BY SizeAssumption DEF Steps
    <2>3. task \in [Tasks -> [pc : Steps, range : Ranges, pos : Nat]]
      BY DEF ReservationInv, TypeOK
    <2> HIDE DEF pc
    <2> QED
      BY <2>1, <2>2, <2>3
  <1>3. /\ data' = data \cup Piece(t, next)
        /\ allocated' = allocated \cup Extent(Piece(t, next))
    BY DEF Write
  <1>4. inflight' \subseteq inflight
    BY DEF Write, DropGuard
  <1>5. TypeOK'
    BY <1>2, <1>3, <1>4, PieceInRange DEF ReservationInv, TypeOK
  <1>6. task[t].range \in FileRanges /\ task[t].range \in Requests
    BY <1>1 DEF ReservationInv, Checked, Fetching, Reserving
  <1>7. task[t].range.offset <= next /\ (next # WriteEnd(t) => next < WriteEnd(t))
    <2>1. /\ task[t].range.offset \in Nat /\ task[t].range.len \in Nat
          /\ task[t].pos \in Nat
      BY DEF ReservationInv, TypeOK, Ranges
    <2>2. task[t].range.offset <= task[t].pos
      BY <1>1 DEF ReservationInv, Checked
    <2> QED
      BY <1>1, <2>1, <2>2, SizeAssumption, SMT DEF WriteEnd
  <1>8. Checked'
    <2> SUFFICES ASSUME NEW u \in Tasks
                 PROVE  /\ task'[u].pc # "idle" => task'[u].range \in Requests
                        /\ task'[u].pc \in Fetching => task'[u].range \in FileRanges
                        /\ task'[u].pc \in Fetching \ {"write"} =>
                              task'[u].pos = task'[u].range.offset
                        /\ task'[u].pc = "write" =>
                              /\ task'[u].range.offset <= task'[u].pos
                              /\ task'[u].pos < task'[u].range.offset + task'[u].range.len
      BY DEF Checked, WriteEnd
    <2>1. CASE u = t
      BY <2>1, <1>2, <1>6, <1>7 DEF Fetching, Reserving, WriteEnd
    <2>2. CASE u # t
      BY <2>2, <1>2 DEF ReservationInv, Checked, WriteEnd
    <2> QED
      BY <2>1, <2>2
  <1>9. ReservationsHeld' /\ ReservedApart'
    <2>1. CASE next = WriteEnd(t)
      <3>1. DropGuard(t)
        BY <2>1 DEF Write
      <3> QED
        BY <1>1, <1>2, <2>1, <3>1, ReleaseKeepsOthers DEF Reserving
    <2>2. CASE next # WriteEnd(t)
      <3>1. UNCHANGED inflight
        BY <2>2 DEF Write
      <3> QED
        BY <1>1, <1>2, <2>2, <3>1, StayKeepsReservations DEF Reserving
    <2> QED
      BY <2>1, <2>2
  <1> QED
    BY <1>5, <1>8, <1>9 DEF ReservationInv

(* A failure, which ends the reservation if there was one. *)
LEMMA FailsKeeps ==
    ASSUME ReservationInv, NEW t \in Tasks, Fails(t)
    PROVE  ReservationInv'
PROOF
  <1>1. /\ task[t].pc \in {"data", "hole"} \cup Reserving
        /\ Goto(t, "err")
        /\ UNCHANGED <<allocated, data>>
    BY DEF Fails
  <1>2. inflight' \subseteq inflight
    BY DEF Fails, DropGuard
  <1>3. TypeOK'
    BY <1>1, <1>2, GotoTyped DEF ReservationInv, TypeOK, Steps
  <1>4. Checked'
    BY <1>1, GotoTyped DEF ReservationInv, Checked, Steps, Fetching, Reserving, WriteEnd
  <1>5. ReservationsHeld' /\ ReservedApart'
    <2>1. CASE task[t].pc \in Reserving
      <3>1. DropGuard(t)
        BY <2>1 DEF Fails
      <3> QED
        BY <1>1, <2>1, <3>1, GotoTyped, ReleaseKeepsOthers
           DEF ReservationInv, Steps, Reserving
    <2>2. CASE task[t].pc \notin Reserving
      <3>1. UNCHANGED inflight
        BY <2>2 DEF Fails
      <3> QED
        BY <1>1, <2>2, <3>1, GotoTyped, StayKeepsReservations
           DEF ReservationInv, Steps, Reserving
    <2> QED
      BY <2>1, <2>2
  <1> QED
    BY <1>3, <1>4, <1>5 DEF ReservationInv

(* The answer to the caller. *)
LEMMA ReturnKeeps ==
    ASSUME ReservationInv, NEW t \in Tasks, Return(t)
    PROVE  ReservationInv'
PROOF
  <1>1. /\ task[t].pc \in {"ok", "err"}
        /\ task'[t] = Idle
        /\ \A u \in Tasks : u # t => task'[u] = task[u]
        /\ UNCHANGED <<allocated, data, inflight>>
    BY DEF Return, ReservationInv, TypeOK
  <1>2. Idle \in [pc : Steps, range : Ranges, pos : Nat] /\ Idle.pc = "idle"
    BY DEF Idle, NoRange, Steps, Ranges
  <1>3. TypeOK'
    BY <1>1, <1>2 DEF Return, ReservationInv, TypeOK
  <1>4. Checked'
    BY <1>1, <1>2 DEF ReservationInv, Checked, Fetching, Reserving, WriteEnd
  <1>5. ReservationsHeld' /\ ReservedApart'
    BY <1>1, <1>2, StayKeepsReservations DEF Reserving
  <1> QED
    BY <1>3, <1>4, <1>5 DEF ReservationInv

(* Every step keeps the reservation invariant. *)
LEMMA ReservationStep == ReservationInv /\ [Next]_vars => ReservationInv'
PROOF
  <1> SUFFICES ASSUME ReservationInv, [Next]_vars PROVE ReservationInv'
    OBVIOUS
  <1>1. ASSUME NEW t \in Tasks, Step(t) PROVE ReservationInv'
    BY <1>1, SeekDataKeeps, SeekHoleKeeps, ReserveKeeps, FetchKeeps, WriteKeeps,
       FailsKeeps DEF Step
  <1>2. CASE Next
    BY <1>1, <1>2, ReturnKeeps, RequestKeeps DEF Next
  <1>3. CASE UNCHANGED vars
    BY <1>3 DEF vars, ReservationInv, TypeOK, Checked, ReservationsHeld, ReservedApart,
                Fetching, Reserving, WriteEnd
  <1> QED
    BY <1>2, <1>3

(* The inductive invariant holds of every reachable state, whatever the     *)
(* calls, the blob and the requests: ensure_range and reserve_inflight.    *)
THEOREM ReservationInvariance == Spec => []ReservationInv
PROOF
  BY ReservationInit, ReservationStep, PTL DEF Spec

(* Types, and no reservation beyond the blob (the checks at the head of     *)
(* ensure_range).                                                          *)
THEOREM TypeCorrect == Spec => []TypeOK
PROOF
  <1>1. ReservationInv => TypeOK
    BY DEF ReservationInv
  <1> QED
    BY <1>1, ReservationInvariance, PTL

(* reserve_inflight keeps any number of calls from fetching or writing a    *)
(* byte at the same time.                                                  *)
THEOREM FetchersAreDisjoint == Spec => []FetchersDisjoint
PROOF
  <1>1. ReservationInv => FetchersDisjoint
    BY OverlapMeansShared
       DEF ReservationInv, Checked, ReservedApart, FetchersDisjoint, Fetching
  <1> QED
    BY <1>1, ReservationInvariance, PTL

(* InflightGuard: a reservation is held by a call that is fetching, and by  *)
(* nobody else.                                                            *)
THEOREM ReservationsAreHeld == Spec => []ReservationsHeld
PROOF
  <1>1. ReservationInv => ReservationsHeld
    BY DEF ReservationInv
  <1> QED
    BY <1>1, ReservationInvariance, PTL

-----------------------------------------------------------------------------
(* A write of whole blocks allocates no byte that it does not fill. *)
LEMMA AlignedWriteFills ==
    ASSUME RequestsAligned, NEW t \in Tasks, NEW next,
           task[t].range \in Requests,
           Extent(Piece(t, next)) \cap Span(task[t].range) \subseteq Piece(t, next)
    PROVE  Extent(Piece(t, next)) = Piece(t, next)
PROOF
  <1>1. Extent(Piece(t, next)) \subseteq Extent(Span(task[t].range))
    BY PieceInRange DEF Extent
  <1>2. Extent(Span(task[t].range)) = Span(task[t].range)
    BY DEF RequestsAligned
  <1> QED
    BY <1>1, <1>2, PieceInRange

(* A step that fills nothing and takes one call nowhere but to a state that *)
(* promises nothing keeps what was filled.                                 *)
LEMMA QuietKeepsFilled ==
    ASSUME FillInv, NEW t \in Tasks, UNCHANGED <<allocated, data>>,
           task'[t].pc \notin {"ok", "write"},
           \A u \in Tasks : u # t => task'[u] = task[u]
    PROVE  FillInv'
PROOF
  BY DEF FillInv, AnsweredFilled, At, Span

(* Every step keeps what is allocated filled, when the requests are of      *)
(* whole blocks.                                                            *)
LEMMA FillStep ==
    ASSUME RequestsAligned, ReservationInv, FillInv, [Next]_vars
    PROVE  FillInv'
PROOF
  <1>1. ASSUME NEW t \in Tasks, NEW r \in Requests, Request(t, r) PROVE FillInv'
    <2>1. /\ task'[t] = [pc |-> IF r.len = 0 THEN "ok"
                                ELSE IF r.offset + r.len > Size THEN "err" ELSE "data",
                         range |-> r, pos |-> r.offset]
          /\ \A u \in Tasks : u # t => task'[u] = task[u]
          /\ UNCHANGED <<allocated, data>>
      BY <1>1 DEF Request, ReservationInv, TypeOK
    <2>2. CASE r.len = 0
      <3>1. Span(r) = {}
        <4>1. r.offset \in Nat
          BY RequestAssumption
        <4>2. \A b \in Bytes : b \in Nat
          BY SizeAssumption DEF Bytes
        <4> QED
          BY <2>2, <4>1, <4>2 DEF Span
      <3>2. Span(r)' = Span(r)
        BY DEF Span
      <3>3. task'[t].pc = "ok" /\ task'[t].range = r
        BY <2>1, <2>2
      <3> QED
        BY <2>1, <3>1, <3>2, <3>3 DEF FillInv, AnsweredFilled, At, Span
    <2>3. CASE r.len # 0
      BY <2>1, <2>3, QuietKeepsFilled
    <2> QED
      BY <2>2, <2>3
  <1>2. ASSUME NEW t \in Tasks, SeekData(t) PROVE FillInv'
    <2>1. PICK pc \in {"hole", "reserve", "hole2", "fetch"} : Goto(t, pc)
      BY <1>2 DEF SeekData
    <2> QED
      BY <1>2, <2>1, GotoTyped, QuietKeepsFilled DEF SeekData, ReservationInv, Steps
  <1>3. ASSUME NEW t \in Tasks, SeekHole(t) PROVE FillInv'
    <2>1. UNCHANGED <<allocated, data>>
      BY <1>3 DEF SeekHole
    <2>2. CASE NoHole(task[t].range)
      <3>1. Goto(t, "ok")
        BY <1>3, <2>2 DEF SeekHole
      <3>2. Span(task[t].range) \subseteq data
        BY <2>2 DEF NoHole, FillInv
      <3>3. /\ task'[t].pc = "ok" /\ task'[t].range = task[t].range
            /\ \A u \in Tasks : u # t => task'[u] = task[u]
        BY <3>1, GotoTyped DEF ReservationInv, Steps
      <3> QED
        BY <2>1, <3>2, <3>3 DEF FillInv, AnsweredFilled, At, Span
    <2>3. CASE ~NoHole(task[t].range)
      <3>1. PICK pc \in {"reserve", "fetch"} : Goto(t, pc)
        BY <1>3, <2>3 DEF SeekHole
      <3> QED
        BY <2>1, <3>1, GotoTyped, QuietKeepsFilled DEF ReservationInv, Steps
    <2> QED
      BY <2>2, <2>3
  <1>4. ASSUME NEW t \in Tasks, Reserve(t) PROVE FillInv'
    BY <1>4, GotoTyped, QuietKeepsFilled DEF Reserve, ReservationInv, Steps
  <1>5. ASSUME NEW t \in Tasks, Fetch(t) PROVE FillInv'
    <2>1. /\ task'[t].pc = "write"
          /\ task'[t].range = task[t].range
          /\ task'[t].pos = task[t].range.offset
          /\ \A u \in Tasks : u # t => task'[u] = task[u]
          /\ UNCHANGED <<allocated, data>>
      BY <1>5, GotoTyped
         DEF Fetch, At, ReservationInv, Checked, Fetching, Reserving, Steps
    <2>2. {b \in Span(task[t].range) : b < task[t].range.offset} = {}
      <3>1. task[t].range.offset \in Nat
        BY DEF ReservationInv, TypeOK, Ranges
      <3>2. \A b \in Bytes : b \in Nat
        BY SizeAssumption DEF Bytes
      <3> QED
        BY <3>1, <3>2 DEF Span
    <2> QED
      BY <2>1, <2>2 DEF FillInv, AnsweredFilled, At, Span
  <1>6. ASSUME NEW t \in Tasks, NEW next \in 1..Size, Write(t, next) PROVE FillInv'
    <2> DEFINE pc == IF next = WriteEnd(t) THEN "ok" ELSE "write"
    <2>1. /\ task[t].pc = "write"
          /\ data' = data \cup Piece(t, next)
          /\ allocated' = allocated \cup Extent(Piece(t, next))
      BY <1>6 DEF Write, At
    <2>2. /\ task'[t].pc = pc
          /\ task'[t].range = task[t].range
          /\ task'[t].pos = next
          /\ \A u \in Tasks : u # t => task'[u] = task[u]
      BY <1>6 DEF Write, ReservationInv, TypeOK
    <2>3. allocated' \subseteq data'
      <3>1. task[t].range \in Requests
        BY <2>1 DEF ReservationInv, Checked
      <3> QED
        BY <1>6, <2>1, <3>1, AlignedWriteFills DEF Write, FillInv
    <2>4. {b \in Span(task[t].range) : b < next} \subseteq data'
      <3>1. {b \in Span(task[t].range) : b < task[t].pos} \subseteq data
        BY <2>1 DEF FillInv, At
      <3>2. task[t].pos \in Nat /\ \A b \in Span(task[t].range) : b \in Nat
        BY SizeAssumption DEF ReservationInv, TypeOK, Span, Bytes
      <3> QED
        BY <2>1, <3>1, <3>2 DEF Piece
    <2>5. pc = "ok" => Span(task[t].range) \subseteq data'
      BY <2>4 DEF Span, WriteEnd
    <2> QED
      BY <2>1, <2>2, <2>3, <2>4, <2>5 DEF FillInv, AnsweredFilled, At, Span
  <1>7. ASSUME NEW t \in Tasks, Fails(t) PROVE FillInv'
    BY <1>7, GotoTyped, QuietKeepsFilled DEF Fails, ReservationInv, Steps
  <1>8. ASSUME NEW t \in Tasks, Return(t) PROVE FillInv'
    <2>1. task'[t].pc = "idle" /\ \A u \in Tasks : u # t => task'[u] = task[u]
      BY <1>8 DEF Return, Idle, ReservationInv, TypeOK
    <2> QED
      BY <1>8, <2>1, QuietKeepsFilled DEF Return
  <1>9. CASE Next
    BY <1>1, <1>2, <1>3, <1>4, <1>5, <1>6, <1>7, <1>8, <1>9 DEF Next, Step
  <1>10. CASE UNCHANGED vars
    BY <1>10 DEF vars, FillInv, AnsweredFilled, At, Span
  <1> QED
    BY <1>9, <1>10

(* The promise of ensure_range to the reader that fanotify holds back: when *)
(* the kernel asks for whole blocks, a call that answered Ok has the bytes  *)
(* of the blob in the file.  Without RequestsAligned it is false: SEEK_HOLE *)
(* takes an allocated block for a written one.                             *)
THEOREM AnswersAreFilled ==
    ASSUME RequestsAligned
    PROVE  Spec => []AnsweredFilled
PROOF
  <1>1. Init => FillInv
    BY DEF Init, FillInv, AnsweredFilled, At, Idle
  <1>2. ReservationInv /\ FillInv /\ [Next]_vars => FillInv'
    BY FillStep
  <1>3. FillInv => AnsweredFilled
    BY DEF FillInv
  <1> QED
    BY <1>1, <1>2, <1>3, ReservationInvariance, PTL DEF Spec
=============================================================================
