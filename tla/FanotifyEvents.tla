--------------------------- MODULE FanotifyEvents ---------------------------
(***************************************************************************)
(* The event loop of lazyd's fanotify backend (lazyd/src/fanotify.rs):     *)
(* run_event_loop, parse_events, respond and close_event_fd, and the       *)
(* kernel's queue it reads from, as the loop uses it: a bounded queue of   *)
(* pre-access events, each of which comes with a file descriptor of its    *)
(* own and keeps its reader waiting until it is answered through it.       *)
(*                                                                         *)
(* LazydRegistry has what happens to one event, from its lookup to its     *)
(* answer; here an event is allowed, with its range filled, or denied.  A  *)
(* reader stands for one read at a time of a range that is not filled.     *)
(***************************************************************************)
EXTENDS Naturals, Sequences

CONSTANTS
    Readers,    \* processes that read watched files
    NoReader,
    MaxQueue,   \* the kernel's limit on queued events
    MaxBatch,   \* events that fit into the buffer of one read
    MaxFds      \* descriptors lazyd may have open for events

ASSUME NullAssumption == NoReader \notin Readers

ASSUME LimitAssumption ==
    MaxQueue \in Nat \ {0} /\ MaxBatch \in Nat \ {0} /\ MaxFds \in Nat \ {0}

Fds == 1..MaxFds
NoFd == 0

(* "range": a pre-access event with its range record; "bare": one without; *)
(* "overflow": the kernel's word that events were lost, with no descriptor.*)
Kinds == {"range", "bare", "overflow"}

VARIABLES
    queue,      \* the group's notification list: [reader, kind]
    asker,      \* the group's access list: descriptor |-> reader that waits
    reader,     \* reader |-> "rest", "waits", "bytes", "zeros", "denied"
    open,       \* descriptors of events that lazyd has open
    buf,        \* what the read under way has delivered: [fd, kind]
    batch,      \* the parsed events, not yet handled
    loop,       \* "read", "handle", or "dead": the process is gone
    lost,       \* history: descriptors delivered at or behind a short event
    flooded,    \* history: the queue was full
    ahead       \* history: reader that waits |-> those that asked before it
                \* and wait as well

kernel == <<queue, asker, reader, ahead>>
vars == <<kernel, open, buf, batch, loop, lost, flooded>>

Init ==
    /\ queue = <<>>
    /\ asker = [d \in Fds |-> NoReader]
    /\ reader = [r \in Readers |-> "rest"]
    /\ open = {}
    /\ buf = <<>>
    /\ batch = <<>>
    /\ loop = "read"
    /\ lost = {}
    /\ flooded = FALSE
    /\ ahead = [r \in Readers |-> {}]

Listed(s) == {s[i] : i \in DOMAIN s}
BufFds == {buf[i].fd : i \in DOMAIN buf} \ {NoFd}
InHand == BufFds \cup Listed(batch)
Queued(r) == \E e \in Listed(queue) : e.reader = r

-----------------------------------------------------------------------------
(* The kernel's side of a read.                                            *)

Overflow == [reader |-> NoReader, kind |-> "overflow"]

(* A watched file is read: the reader waits for its event's answer.  When  *)
(* the queue is full the event is dropped and the read goes on; one        *)
(* overflow event says so.                                                 *)
Access(r) ==
    /\ loop # "dead"
    /\ reader[r] = "rest"
    /\ \/ /\ Len(queue) < MaxQueue
          /\ \E kind \in {"range", "bare"} :
                queue' = Append(queue, [reader |-> r, kind |-> kind])
          /\ reader' = [reader EXCEPT ![r] = "waits"]
          /\ ahead' = [ahead EXCEPT ![r] = {s \in Readers : reader[s] = "waits"}]
          /\ UNCHANGED flooded
       \/ /\ Len(queue) >= MaxQueue
          /\ queue' = IF Overflow \in Listed(queue) THEN queue ELSE Append(queue, Overflow)
          /\ reader' = [reader EXCEPT ![r] = "zeros"]
          /\ flooded' = TRUE
          /\ UNCHANGED ahead
    /\ UNCHANGED <<asker, open, buf, batch, loop, lost>>

(* The marks went with the group: reads go straight to the file. *)
AccessUnwatched(r) ==
    /\ loop = "dead"
    /\ reader[r] = "rest"
    /\ reader' = [reader EXCEPT ![r] = "zeros"]
    /\ UNCHANGED <<queue, asker, ahead, open, buf, batch, loop, lost, flooded>>

Return(r) ==
    /\ reader[r] \in {"bytes", "zeros", "denied"}
    /\ reader' = [reader EXCEPT ![r] = "rest"]
    /\ UNCHANGED <<queue, asker, ahead, open, buf, batch, loop, lost, flooded>>

Leaves(r) == ahead' = [s \in Readers |-> IF s = r THEN {} ELSE ahead[s] \ {r}]

Without(s, i) == [j \in 1..(Len(s) - 1) |-> IF j < i THEN s[j] ELSE s[j + 1]]

(* A reader that waits is killed: its event leaves the queue, or stays on  *)
(* the access list with nobody to wake.                                    *)
Killed(r) ==
    /\ reader[r] = "waits"
    /\ \/ /\ ~Queued(r)
          /\ UNCHANGED queue
       \/ \E i \in DOMAIN queue :
             queue[i].reader = r /\ queue' = Without(queue, i)
    /\ asker' = [d \in Fds |-> IF asker[d] = r THEN NoReader ELSE asker[d]]
    /\ reader' = [reader EXCEPT ![r] = "rest"]
    /\ Leaves(r)
    /\ UNCHANGED <<open, buf, batch, loop, lost, flooded>>

(* The kernel answers whoever waits: the process that should is gone. *)
LazydDies ==
    /\ loop # "dead"
    /\ loop' = "dead"
    /\ queue' = <<>>
    /\ asker' = [d \in Fds |-> NoReader]
    /\ reader' = [r \in Readers |-> IF reader[r] = "waits" THEN "zeros" ELSE reader[r]]
    /\ open' = {}
    /\ buf' = <<>>
    /\ batch' = <<>>
    /\ lost' = {}
    /\ ahead' = [r \in Readers |-> {}]
    /\ UNCHANGED flooded

-----------------------------------------------------------------------------
(* read() on the group, event by event, until the queue is empty or the    *)
(* buffer full; then the bytes are parsed.                                 *)

(* A short event: event_len is that of the bare metadata, at which         *)
(* parse_events breaks off; the n events before it are whole.              *)
Short(i) == buf[i].kind # "range"

StopsAt(n) ==
    /\ \A i \in 1..n : ~Short(i)
    /\ n < Len(buf) => Short(n + 1)

Reading == loop = "read" /\ Len(buf) < MaxBatch /\ queue # <<>>

(* Each pre-access event gets a descriptor, the lowest free one. *)
ReadEvent ==
    LET e == Head(queue)
        free == Fds \ open
    IN  /\ Reading
        /\ queue' = Tail(queue)
        /\ \/ /\ e.kind = "overflow"
              /\ buf' = Append(buf, [fd |-> NoFd, kind |-> e.kind])
              /\ UNCHANGED <<asker, open>>
           \/ /\ e.kind # "overflow"
              /\ \E d \in free :
                    /\ \A x \in free : d <= x
                    /\ buf' = Append(buf, [fd |-> d, kind |-> e.kind])
                    /\ asker' = [asker EXCEPT ![d] = e.reader]
                    /\ open' = open \cup {d}
        /\ UNCHANGED <<reader, ahead, batch, loop, lost, flooded>>

(* Mutants of Parse: the event that ends where the bytes end is taken for a*)
(* truncated one; the events are handled from the last to the first.       *)
MutantDropsLast(n) ==
    [i \in 1..(IF n = Len(buf) THEN n - 1 ELSE n) |-> buf[i].fd]

MutantReverses(n) == [i \in 1..n |-> buf[n + 1 - i].fd]

(* parse_events takes the events up to the first short one.  That one and  *)
(* those behind it are not looked at: nobody has their descriptors.        *)
Parse(n) == [i \in 1..n |-> buf[i].fd]
Behind(n) == {buf[i].fd : i \in (n + 1)..Len(buf)} \ {NoFd}

(* The read returns what it has; its events are parsed. *)
Deliver ==
    /\ \E n \in 0..Len(buf) :
          /\ StopsAt(n)
          /\ batch' = Parse(n)
          /\ lost' = lost \cup Behind(n)
    /\ buf' = <<>>
    /\ loop' = "handle"

ReadReturns ==
    /\ loop = "read"
    /\ ~Reading
    /\ buf # <<>>
    /\ Deliver
    /\ UNCHANGED <<kernel, open, flooded>>

(* No descriptor is left: the kernel denies the event, and the read ends   *)
(* with what it has, or with an error, after which the loop reads again.   *)
ReadRunsOut ==
    LET e == Head(queue)
    IN  /\ Reading
        /\ e.kind # "overflow"
        /\ open = Fds
        /\ queue' = Tail(queue)
        /\ reader' = [reader EXCEPT ![e.reader] = "denied"]
        /\ Leaves(e.reader)
        /\ IF buf = <<>> THEN UNCHANGED <<buf, batch, loop, lost>> ELSE Deliver
        /\ UNCHANGED <<asker, open, flooded>>

-----------------------------------------------------------------------------
(* The batch, one event after the other: respond, close_event_fd.          *)

Rest == Tail(batch)

(* Mutants of Answer: a denied event's descriptor stays open; the answer   *)
(* goes to the event that was read last.                                   *)
MutantLeaksDenied(outcome) ==
    LET d == Head(batch)
    IN  /\ reader' = [r \in Readers |-> IF r = asker[d] THEN outcome ELSE reader[r]]
        /\ asker' = [asker EXCEPT ![d] = NoReader]
        /\ Leaves(asker[d])
        /\ open' = IF outcome = "denied" THEN open ELSE open \ {d}

MutantAnswersLast(outcome) ==
    LET d == batch[Len(batch)]
    IN  /\ reader' = [r \in Readers |-> IF r = asker[d] THEN outcome ELSE reader[r]]
        /\ asker' = [asker EXCEPT ![d] = NoReader]
        /\ Leaves(asker[d])
        /\ open' = open \ {Head(batch)}

Answer(outcome) ==
    LET d == Head(batch)
    IN  /\ reader' = [r \in Readers |-> IF r = asker[d] THEN outcome ELSE reader[r]]
        /\ asker' = [asker EXCEPT ![d] = NoReader]
        /\ Leaves(asker[d])
        /\ open' = open \ {d}

Handling == loop = "handle" /\ batch # <<>>

(* ensure_range is Ok: the range is filled, and the reader let through. *)
Allow ==
    /\ Handling
    /\ Answer("bytes")
    /\ batch' = Rest
    /\ UNCHANGED <<queue, buf, loop, lost, flooded>>

(* Mutants of Deny: a miss without an instance is let through; the loop    *)
(* goes back to read with the rest of the batch before it.                 *)
MutantAllowsMiss ==
    /\ Handling
    /\ Answer("zeros")
    /\ batch' = Rest
    /\ UNCHANGED <<queue, buf, loop, lost, flooded>>

MutantBreaks ==
    /\ Handling
    /\ Answer("denied")
    /\ batch' = Rest
    /\ loop' = "read"
    /\ UNCHANGED <<queue, buf, lost, flooded>>

(* No mark, no instance, or ensure_range fails. *)
Deny ==
    /\ Handling
    /\ Answer("denied")
    /\ batch' = Rest
    /\ UNCHANGED <<queue, buf, loop, lost, flooded>>

(* The batch is done: the loop reads again. *)
ReadAgain ==
    /\ loop = "handle"
    /\ batch = <<>>
    /\ loop' = "read"
    /\ UNCHANGED <<kernel, open, buf, batch, lost, flooded>>

-----------------------------------------------------------------------------
EventLoop ==
    \/ ReadEvent \/ ReadReturns \/ ReadRunsOut
    \/ Allow \/ Deny \/ ReadAgain

Next ==
    \/ \E r \in Readers : Access(r) \/ AccessUnwatched(r) \/ Return(r) \/ Killed(r)
    \/ EventLoop
    \/ LazydDies

(* The thread of the event loop runs, and every remote read it waits for   *)
(* returns.                                                                *)
Spec == Init /\ [][Next]_vars /\ WF_vars(EventLoop)

-----------------------------------------------------------------------------
(* The type invariant; what was read is handled before the next read. *)
TypeOK ==
    /\ queue \in Seq([reader : Readers \cup {NoReader}, kind : Kinds])
    /\ Len(queue) <= MaxQueue + 1
    /\ asker \in [Fds -> Readers \cup {NoReader}]
    /\ reader \in [Readers -> {"rest", "waits", "bytes", "zeros", "denied"}]
    /\ open \subseteq Fds
    /\ buf \in Seq([fd : Fds \cup {NoFd}, kind : Kinds])
    /\ Len(buf) <= MaxBatch
    /\ batch \in Seq(Fds)
    /\ loop \in {"read", "handle", "dead"}
    /\ loop # "read" => buf = <<>>
    /\ loop # "handle" => batch = <<>>
    /\ lost \subseteq Fds
    /\ flooded \in BOOLEAN
    /\ ahead \in [Readers -> SUBSET Readers]

(* A reader waits for an event that the loop has before it, exactly one:   *)
(* in the queue, in the buffer or in the batch.  The loop forgets none,    *)
(* except those that a read delivered at or behind a short event.          *)
(* (fanotify.rs parse_events, run_event_loop)                              *)
NoneForgotten ==
    \A r \in Readers :
        reader[r] = "waits" =>
            \/ Queued(r) /\ \A d \in Fds : asker[d] # r
            \/ /\ ~Queued(r)
               /\ \E d \in InHand \cup lost : \A e \in Fds : asker[e] = r <=> e = d

(* Every descriptor an event came with is closed once it is answered, never*)
(* before, whatever the answer: what is open is before the loop or was     *)
(* lost behind a short event.  So lazyd never runs out of descriptors but  *)
(* for those.  (fanotify.rs:170, 213 close_event_fd)                       *)
FdsReturned ==
    /\ open = InHand \cup lost
    /\ InHand \cap lost = {}
    /\ \A d \in Fds : asker[d] # NoReader => d \in open

(* A reader gets the zeros of a hole only if the kernel let it through, for*)
(* a full queue or for a lazyd that died: the loop never lets one through  *)
(* unfilled.  (fanotify.rs:211)                                            *)
OnlyTheKernelLetsThrough ==
    ~flooded /\ loop # "dead" => \A r \in Readers : reader[r] # "zeros"

(* A reader whose event came at or behind a short one. *)
IsLost(r) == \E d \in lost : asker[d] = r

(* The loop answers in the order the readers asked, over all files: no     *)
(* reader is answered before one that asked earlier and still waits, except*)
(* one whose event was lost.  (fanotify.rs:184 run_event_loop)             *)
AnsweredInOrder ==
    [][loop = "handle" /\ batch' # batch /\ loop' # "dead" =>
          \A r \in Readers : reader'[r] # reader[r] =>
              \A s \in ahead[r] : IsLost(s)]_vars

(* Every reader is answered, also when the queue was full or the           *)
(* descriptors ran out, except those whose events came at or behind a short*)
(* event.                                                                  *)
EveryEventAnswered ==
    \A r \in Readers :
        reader[r] = "waits" ~> reader[r] # "waits" \/ IsLost(r)
=============================================================================
