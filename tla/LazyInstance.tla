---------------------------- MODULE LazyInstance ----------------------------
(***************************************************************************)
(* One instance of lazyd (lazyd/src/instance.rs): a sparse target file, a  *)
(* remote blob, and concurrent calls of ensure_range, each of which must   *)
(* leave its range on the disk before it answers Ok: the reader that       *)
(* fanotify holds back is let through then, and reads whatever is there.   *)
(*                                                                         *)
(* Presence is asked of the file system with lseek, which knows allocated  *)
(* blocks, not written bytes; ranges in flight are reserved so that no two *)
(* calls fetch the same bytes at once.                                     *)
(***************************************************************************)
EXTENDS Naturals, FiniteSets

CONSTANTS
    Tasks,          \* concurrent calls of ensure_range
    Size,           \* bytes of the blob, and of the target file
    Block,          \* bytes the file system allocates at once
    Requests        \* the ranges asked for: [offset, len]

ASSUME SizeAssumption ==
    Size \in Nat /\ Block \in Nat \ {0}

ASSUME RequestAssumption == Requests \subseteq [offset : Nat, len : Nat]

Bytes == 0..(Size - 1)

(* The bytes of the blob a range covers. *)
Span(r) == {b \in Bytes : r.offset <= b /\ b < r.offset + r.len}

(* The bytes the file system allocates when the bytes of S are written. *)
Extent(S) == {b \in Bytes : \E a \in S : a \div Block = b \div Block}

(* The kernel rounds the range of a pre-access event to pages. *)
RequestsAligned == \A r \in Requests : Extent(Span(r)) = Span(r)

VARIABLES
    allocated,  \* bytes in allocated blocks of the target
    data,       \* bytes written from the remote blob
    inflight,   \* Instance.inflight: ranges being fetched
    task        \* the calls' control and locals

vars == <<allocated, data, inflight, task>>

NoRange == [offset |-> 0, len |-> 0]
Idle == [pc |-> "idle", range |-> NoRange, pos |-> 0]

Init ==
    /\ allocated = {}
    /\ data = {}
    /\ inflight = {}
    /\ task = [t \in Tasks |-> Idle]

At(t, pc) == task[t].pc = pc
Goto(t, pc) == task' = [task EXCEPT ![t].pc = pc]

(* Between reserve_inflight and the end of the call. *)
Reserving == {"data2", "hole2", "fetch", "write"}

(* Range::overlaps: half-open intervals; mutant: s starts inside r only. *)
MutantStartsInside(r, s) == r.offset <= s.offset /\ s.offset < r.offset + r.len
Overlaps(r, s) == r.offset < s.offset + s.len /\ s.offset < r.offset + r.len

(* The guard dropped at the end of ensure_range, on every way out. *)
MutantKeepsGuard(t) == UNCHANGED inflight
DropGuard(t) == inflight' = inflight \ {task[t].range}

-----------------------------------------------------------------------------
(* ensure_range: an empty range is there, one beyond the blob is refused.  *)
MutantNoEndCheck(t, r) ==
    /\ At(t, "idle")
    /\ task' = [task EXCEPT ![t] = [pc |-> IF r.len = 0 THEN "ok" ELSE "data",
                                   range |-> r, pos |-> r.offset]]
    /\ UNCHANGED <<allocated, data, inflight>>

Request(t, r) ==
    /\ At(t, "idle")
    /\ task' = [task EXCEPT ![t] =
                  [pc |-> IF r.len = 0 THEN "ok"
                          ELSE IF r.offset + r.len > Size THEN "err" ELSE "data",
                   range |-> r, pos |-> r.offset]]
    /\ UNCHANGED <<allocated, data, inflight>>

(* range_is_present, called before the reservation ("data", "hole") and    *)
(* again under it ("data2", "hole2"): SEEK_DATA must stay at the offset,   *)
(* SEEK_HOLE must find no hole before the end of the range.                *)
SeekData(t) ==
    LET found == task[t].range.offset \in allocated
    IN  /\ \/ At(t, "data") /\ Goto(t, IF found THEN "hole" ELSE "reserve")
           \/ At(t, "data2") /\ Goto(t, IF found THEN "hole2" ELSE "fetch")
        /\ UNCHANGED <<allocated, data, inflight>>

MutantFirstByte(r) == r.offset \in allocated
NoHole(r) == Span(r) \subseteq allocated

SeekHole(t) ==
    LET found == NoHole(task[t].range)
    IN  /\ \/ /\ At(t, "hole")
              /\ Goto(t, IF found THEN "ok" ELSE "reserve")
              /\ UNCHANGED inflight
           \/ /\ At(t, "hole2")
              /\ Goto(t, IF found THEN "ok" ELSE "fetch")
              /\ IF found THEN DropGuard(t) ELSE UNCHANGED inflight
        /\ UNCHANGED <<allocated, data>>

(* reserve_inflight: looks again every 5 ms until nothing overlaps. *)
Reserve(t) ==
    /\ At(t, "reserve")
    /\ \A r \in inflight : ~Overlaps(r, task[t].range)
    /\ inflight' = inflight \cup {task[t].range}
    /\ Goto(t, "data2")
    /\ UNCHANGED <<allocated, data>>

(* remote.read_range, and the check that it returned len bytes. *)
Fetch(t) ==
    /\ At(t, "fetch")
    /\ Goto(t, "write")
    /\ UNCHANGED <<allocated, data, inflight>>

(* write_all_at: each pwrite takes some of the rest; the file system cuts  *)
(* a write short only where a block ends.                                  *)
Piece(t, next) == {b \in Span(task[t].range) : task[t].pos <= b /\ b < next}

WriteEnd(t) == task[t].range.offset + task[t].range.len

MutantOneWrite(t, next) ==
    /\ At(t, "write")
    /\ next \in (task[t].pos + 1)..WriteEnd(t)
    /\ Extent(Piece(t, next)) \cap Span(task[t].range) \subseteq Piece(t, next)
    /\ data' = data \cup Piece(t, next)
    /\ allocated' = allocated \cup Extent(Piece(t, next))
    /\ task' = [task EXCEPT ![t].pos = next, ![t].pc = "ok"]
    /\ DropGuard(t)

Write(t, next) ==
    /\ At(t, "write")
    /\ next \in (task[t].pos + 1)..WriteEnd(t)
    /\ Extent(Piece(t, next)) \cap Span(task[t].range) \subseteq Piece(t, next)
    /\ data' = data \cup Piece(t, next)
    /\ allocated' = allocated \cup Extent(Piece(t, next))
    /\ task' = [task EXCEPT ![t].pos = next,
                            ![t].pc = IF next = WriteEnd(t) THEN "ok" ELSE "write"]
    /\ IF next = WriteEnd(t) THEN DropGuard(t) ELSE UNCHANGED inflight

(* A seek fails, the remote read fails or is short, or a write fails; what *)
(* was written before stays.                                               *)
Fails(t) ==
    /\ task[t].pc \in {"data", "hole"} \cup Reserving
    /\ IF task[t].pc \in Reserving THEN DropGuard(t) ELSE UNCHANGED inflight
    /\ Goto(t, "err")
    /\ UNCHANGED <<allocated, data>>

(* The answer is given; the caller may ask again. *)
Return(t) ==
    /\ task[t].pc \in {"ok", "err"}
    /\ task' = [task EXCEPT ![t] = Idle]
    /\ UNCHANGED <<allocated, data, inflight>>

Step(t) ==
    \/ SeekData(t) \/ SeekHole(t)
    \/ Reserve(t)
    \/ Fetch(t)
    \/ \E next \in 1..Size : Write(t, next)
    \/ Fails(t)

Next == \E t \in Tasks : Step(t) \/ Return(t) \/ \E r \in Requests : Request(t, r)

(* What a call does without the registry. *)
Local(t) == ~At(t, "fetch") /\ Step(t)

(* tokio runs every ready task and the sleep of reserve_inflight ends.     *)
(* Nothing more: the remote read has no timeout, and a call that polls has *)
(* no place in a queue, it must find its range free when it looks.         *)
Fairness == \A t \in Tasks : WF_vars(Local(t))

Spec == Init /\ [][Next]_vars
FairSpec == Spec /\ Fairness

-----------------------------------------------------------------------------
Ranges == [offset : Nat, len : Nat]
FileRanges == {r \in Ranges : r.len > 0 /\ r.offset + r.len <= Size}
Steps == {"idle", "data", "hole", "reserve", "data2", "hole2", "fetch", "write", "ok", "err"}

(* The type invariant; only what lies inside the blob is reserved.         *)
TypeOK ==
    /\ allocated \subseteq Bytes
    /\ data \subseteq Bytes
    /\ inflight \subseteq FileRanges
    /\ task \in [Tasks -> [pc : Steps, range : Ranges, pos : Nat]]

(* An Ok from ensure_range means the bytes of the blob are in the file:    *)
(* the reader let through on it does not read the zeros of a hole.         *)
(* (test missing_range_is_written_to_target_path, instance.rs:357)         *)
AnsweredFilled == \A t \in Tasks : At(t, "ok") => Span(task[t].range) \subseteq data

(* No two calls fetch or write a byte at the same time.                    *)
(* (test overlapping_inflight_range_is_deduplicated, instance.rs:420)      *)
FetchersDisjoint ==
    \A s, t \in Tasks :
        s # t /\ task[s].pc \in Reserving /\ task[t].pc \in Reserving =>
            Span(task[s].range) \cap Span(task[t].range) = {}

(* A reservation is held exactly while a call is between reserve_inflight  *)
(* and its end, on every way out: one left behind would make every later   *)
(* call on those bytes poll forever.                                       *)
ReservationsHeld ==
    inflight = {task[t].range : t \in {u \in Tasks : task[u].pc \in Reserving}}

Pending(t) == task[t].pc \in {"data", "hole", "reserve"} \cup Reserving

(* A call that holds bytes of t's range fails and lets others try first. *)
FailsBefore(t) ==
    \E s \in Tasks \ {t} :
        /\ task[s].pc \in Reserving
        /\ Overlaps(task[s].range, task[t].range)
        /\ Fails(s)

(* A remote read that t needs: its own, or one of bytes of its range. *)
ReadsFor(t) ==
    \E s \in Tasks :
        At(s, "fetch") /\ (s = t \/ Overlaps(task[s].range, task[t].range))

(* A call is answered, however the calls overlap, with two exceptions that *)
(* the code leaves open: the remote read of the call, or of one whose range*)
(* overlaps, never returns (ensure_range sets no timeout), or overlapping  *)
(* calls reserve the range and fail again and again, each time before this *)
(* one looks (reserve_inflight polls, instance.rs:200).  Calls that succeed*)
(* cannot starve another: what they filled needs no reservation again.     *)
EveryCallAnswered ==
    \A t \in Tasks :
        \/ []<>~Pending(t)
        \/ []<><<FailsBefore(t)>>_vars
        \/ <>[]ReadsFor(t)

=============================================================================
