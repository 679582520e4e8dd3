------------------------ MODULE FanotifyEventsProofs ------------------------
(***************************************************************************)
(* Proofs about FanotifyEvents, for any number of readers and any limits   *)
(* of the queue, the buffer and the descriptors.                           *)
(***************************************************************************)
EXTENDS FanotifyEvents, TLAPS

(* Each reader has at most one event in the queue, and there is at most    *)
(* one overflow event, which is what may be beyond the limit.              *)
QueueOK ==
    /\ \A i \in DOMAIN queue : queue[i].kind = "overflow" <=> queue[i].reader = NoReader
    /\ \A i, j \in DOMAIN queue : queue[i].reader = queue[j].reader => i = j
    /\ Len(queue) > MaxQueue => Overflow \in Listed(queue)

(* No descriptor comes twice, in the buffer or in the batch. *)
FdsOK ==
    /\ \A i \in DOMAIN buf : buf[i].kind = "range" => buf[i].fd # NoFd
    /\ \A i, j \in DOMAIN buf : buf[i].fd = buf[j].fd /\ buf[i].fd # NoFd => i = j
    /\ \A i, j \in DOMAIN batch : batch[i] = batch[j] => i = j
    /\ FdsReturned

(* A reader waits for one event, in the queue or with a descriptor. *)
Waiting ==
    /\ \A r \in Readers : reader[r] = "waits" <=> Queued(r) \/ \E d \in Fds : asker[d] = r
    /\ \A r \in Readers : Queued(r) => \A d \in Fds : asker[d] # r
    /\ \A d, e \in Fds : asker[d] = asker[e] /\ asker[d] # NoReader => d = e

(* Events are handled in the order in which the readers asked: of two that *)
(* wait, the earlier one's event is before the other's, wherever they are. *)
AheadWaits ==
    \A r \in Readers : \A s \in ahead[r] :
        reader[r] = "waits" /\ reader[s] = "waits" /\ s # r

QueueOrder ==
    \A r \in Readers : \A s \in ahead[r] :
        /\ Queued(s) => Queued(r)
        /\ \A i, j \in DOMAIN queue : queue[i].reader = r /\ queue[j].reader = s => j < i

BufOrder ==
    \A r \in Readers : \A s \in ahead[r] : \A i, j \in DOMAIN buf :
        /\ buf[i].fd # NoFd /\ asker[buf[i].fd] = r
        /\ buf[j].fd # NoFd /\ asker[buf[j].fd] = s
        => j < i

BatchOrder ==
    \A r \in Readers : \A s \in ahead[r] : \A i, j \in DOMAIN batch :
        asker[batch[i]] = r /\ asker[batch[j]] = s => j < i

IndInv ==
    /\ TypeOK /\ QueueOK /\ FdsOK /\ Waiting
    /\ AheadWaits /\ QueueOrder /\ BufOrder /\ BatchOrder
    /\ OnlyTheKernelLetsThrough

Event == [reader : Readers \cup {NoReader}, kind : Kinds]
Delivered == [fd : Fds \cup {NoFd}, kind : Kinds]
States == {"rest", "waits", "bytes", "zeros", "denied"}

-----------------------------------------------------------------------------
(* Sequences that lose an element or gain one. *)

(* t is s without some of its elements. *)
Thins(s, t) ==
    \E g \in [DOMAIN t -> DOMAIN s] :
        /\ \A i, j \in DOMAIN t : (i < j <=> g[i] < g[j]) /\ (g[i] = g[j] => i = j)
        /\ \A i \in DOMAIN t : t[i] = s[g[i]]

(* What is left behind the first element. *)
LEMMA TailThins ==
    ASSUME NEW S, NEW s \in Seq(S), s # <<>>
    PROVE  /\ Tail(s) \in Seq(S) /\ Len(Tail(s)) = Len(s) - 1 /\ Len(s) \in Nat \ {0}
           /\ Thins(s, Tail(s))
           /\ 1 \in DOMAIN s /\ Head(s) = s[1] /\ Head(s) \in S
           /\ \A i \in DOMAIN s : i # 1 => \E j \in DOMAIN Tail(s) : Tail(s)[j] = s[i]
           /\ \A j \in DOMAIN Tail(s) : \E i \in DOMAIN s : i # 1 /\ Tail(s)[j] = s[i]
<1> DEFINE t == Tail(s)
           g == [j \in DOMAIN t |-> j + 1]
<1>1. /\ t \in Seq(S) /\ Len(t) = Len(s) - 1 /\ Len(s) \in Nat \ {0}
      /\ DOMAIN s = 1..Len(s) /\ DOMAIN t = 1..(Len(s) - 1)
      /\ \A j \in DOMAIN t : t[j] = s[j + 1]
      /\ Head(s) = s[1] /\ Head(s) \in S
  OBVIOUS
<1> HIDE DEF t
<1>2. /\ \A j \in DOMAIN t : g[j] \in DOMAIN s /\ g[j] # 1 /\ t[j] = s[g[j]]
      /\ \A i, j \in DOMAIN t : (i < j <=> g[i] < g[j]) /\ (g[i] = g[j] => i = j)
  BY <1>1
<1>3. g \in [DOMAIN t -> DOMAIN s]
  BY <1>2
<1>4. Thins(s, t)
  BY <1>2, <1>3 DEF Thins
<1>5. ASSUME NEW i \in DOMAIN s, i # 1 PROVE \E j \in DOMAIN t : t[j] = s[i]
  <2>1. i - 1 \in DOMAIN t /\ (i - 1) + 1 = i
    BY <1>1, <1>5
  <2> QED BY <1>1, <2>1
<1>6. 1 \in DOMAIN s
  BY <1>1
<1> QED BY <1>1, <1>2, <1>4, <1>5, <1>6 DEF t

(* What is left when the element at k leaves. *)
LEMMA WithoutThins ==
    ASSUME NEW S, NEW s \in Seq(S), NEW k \in DOMAIN s
    PROVE  LET t == Without(s, k)
           IN  /\ t \in Seq(S) /\ Len(t) = Len(s) - 1 /\ Len(s) \in Nat \ {0}
               /\ Thins(s, t)
               /\ \A i \in DOMAIN s : i # k => \E j \in DOMAIN t : t[j] = s[i]
               /\ \A j \in DOMAIN t : \E i \in DOMAIN s : i # k /\ t[j] = s[i]
<1> DEFINE t == Without(s, k)
           g == [j \in DOMAIN t |-> IF j < k THEN j ELSE j + 1]
<1>1. /\ Len(s) \in Nat \ {0} /\ DOMAIN s = 1..Len(s) /\ k \in 1..Len(s)
      /\ \A i \in DOMAIN s : s[i] \in S
  OBVIOUS
<1>2. t = [j \in 1..(Len(s) - 1) |-> IF j < k THEN s[j] ELSE s[j + 1]]
  BY DEF Without
<1> HIDE DEF t
<1>3. DOMAIN t = 1..(Len(s) - 1) /\ Len(s) - 1 \in Nat
  BY <1>1, <1>2
<1>4. \A j \in DOMAIN t : g[j] \in DOMAIN s /\ g[j] # k /\ t[j] = s[g[j]]
  BY <1>1, <1>2, <1>3
<1>5. \A i, j \in DOMAIN t : (i < j <=> g[i] < g[j]) /\ (g[i] = g[j] => i = j)
  BY <1>1, <1>3
<1>6. g \in [DOMAIN t -> DOMAIN s]
  BY <1>4
<1>7. Thins(s, t)
  BY <1>4, <1>5, <1>6 DEF Thins
<1>8. t \in Seq(S) /\ Len(t) = Len(s) - 1
  <2>1. t = [j \in 1..(Len(s) - 1) |-> t[j]] /\ \A j \in 1..(Len(s) - 1) : t[j] \in S
    BY <1>1, <1>2, <1>3, <1>4
  <2> QED BY <1>3, <2>1
<1>9. ASSUME NEW i \in DOMAIN s, i # k PROVE \E j \in DOMAIN t : t[j] = s[i]
  <2>1. CASE i < k
    <3>1. i \in DOMAIN t
      BY <1>1, <1>3, <2>1
    <3> QED BY <1>2, <1>3, <2>1, <3>1
  <2>2. CASE ~(i < k)
    <3>1. i - 1 \in DOMAIN t /\ ~(i - 1 < k) /\ (i - 1) + 1 = i
      BY <1>1, <1>3, <1>9, <2>2
    <3> QED BY <1>2, <1>3, <3>1
  <2> QED BY <2>1, <2>2
<1> QED BY <1>1, <1>4, <1>7, <1>8, <1>9 DEF t

(* What an element more at the end changes. *)
LEMMA Appends ==
    ASSUME NEW S, NEW s \in Seq(S), NEW e \in S
    PROVE  LET t == Append(s, e)
               k == Len(s) + 1
           IN  /\ t \in Seq(S) /\ Len(t) = k /\ Len(s) \in Nat
               /\ k \in DOMAIN t /\ t[k] = e
               /\ \A i \in DOMAIN s : i \in DOMAIN t /\ t[i] = s[i] /\ i < k /\ ~(k < i) /\ i # k
               /\ \A i \in DOMAIN t : i = k \/ i \in DOMAIN s
OBVIOUS

-----------------------------------------------------------------------------
(* The parts of the invariant, by what a step does to them. *)

(* What the type invariant says of the sequences and the limits. *)
LEMMA Types ==
    ASSUME TypeOK
    PROVE  /\ queue \in Seq(Event) /\ buf \in Seq(Delivered) /\ batch \in Seq(Fds)
           /\ Len(queue) \in Nat /\ Len(buf) \in Nat /\ Len(batch) \in Nat
           /\ MaxQueue \in Nat \ {0} /\ MaxBatch \in Nat \ {0} /\ MaxFds \in Nat \ {0}
           /\ NoFd \notin Fds /\ NoReader \notin Readers
BY NullAssumption, LimitAssumption DEF TypeOK, Event, Delivered, NoFd, Fds

(* The same, element by element. *)
LEMMA BufTypes ==
    ASSUME TypeOK
    PROVE  /\ DOMAIN buf = 1..Len(buf)
           /\ \A i \in DOMAIN buf : buf[i].fd \in Fds \cup {NoFd} /\ buf[i].kind \in Kinds
           /\ \A i \in DOMAIN batch : batch[i] \in Fds
<1>1. buf \in Seq(Delivered) /\ batch \in Seq(Fds)
  BY Types
<1>2. DOMAIN buf = 1..Len(buf) /\ \A i \in DOMAIN buf : buf[i] \in Delivered
  BY <1>1
<1>3. \A i \in DOMAIN batch : batch[i] \in Fds
  BY <1>1
<1> QED BY <1>2, <1>3 DEF Delivered

(* A reader whose wait ends is behind nobody, and nobody is behind it. *)
LEMMA LeavesAhead ==
    ASSUME TypeOK, AheadWaits, NEW q, Leaves(q),
           \A r \in Readers : r # q => reader'[r] = reader[r]
    PROVE  /\ ahead' \in [Readers -> SUBSET Readers]
           /\ AheadWaits'
           /\ \A r \in Readers : /\ ahead'[r] \subseteq ahead[r]
                                 /\ q \notin ahead'[r]
                                 /\ r = q => ahead'[r] = {}
<1>1. \A r \in Readers : ahead[r] \in SUBSET Readers
  BY DEF TypeOK
<1>2. /\ ahead' = [s \in Readers |-> IF s = q THEN {} ELSE ahead[s] \ {q}]
      /\ \A r \in Readers : (IF r = q THEN {} ELSE ahead[r] \ {q}) \in SUBSET Readers
  BY <1>1 DEF Leaves
<1>3. /\ ahead' \in [Readers -> SUBSET Readers]
      /\ \A r \in Readers : /\ ahead'[r] \subseteq ahead[r]
                            /\ q \notin ahead'[r]
                            /\ r = q => ahead'[r] = {}
  BY <1>2
<1>4. AheadWaits'
  <2> SUFFICES ASSUME NEW r \in Readers, NEW s \in ahead'[r]
               PROVE  reader'[r] = "waits" /\ reader'[s] = "waits" /\ s # r
    BY DEF AheadWaits
  <2>1. s \in ahead[r] /\ s # q /\ r # q /\ s \in Readers
    BY <1>1, <1>3
  <2> QED BY <2>1 DEF AheadWaits
<1> QED BY <1>3, <1>4

(* The queue loses an event, and no reader more gets ahead of another. *)
LEMMA QueueThins ==
    ASSUME TypeOK, QueueOK, QueueOrder, Thins(queue, queue'),
           queue' \in Seq(Event), Len(queue') = Len(queue) - 1,
           \A r \in Readers : ahead'[r] \subseteq ahead[r],
           \A r \in Readers : \A s \in ahead'[r] : Queued(s)' => Queued(r)'
    PROVE  QueueOK' /\ QueueOrder' /\ Len(queue') <= MaxQueue
<1>1. PICK g \in [DOMAIN queue' -> DOMAIN queue] :
         /\ \A i, j \in DOMAIN queue' : (i < j <=> g[i] < g[j]) /\ (g[i] = g[j] => i = j)
         /\ \A i \in DOMAIN queue' : queue'[i] = queue[g[i]]
  BY DEF Thins
<1>2. Len(queue') <= MaxQueue /\ ~(Len(queue') > MaxQueue)
  BY Types DEF TypeOK
<1>3. QueueOK'
  <2>1. \A i \in DOMAIN queue' : queue'[i].kind = "overflow" <=> queue'[i].reader = NoReader
    BY <1>1 DEF QueueOK
  <2>2. \A i, j \in DOMAIN queue' : queue'[i].reader = queue'[j].reader => i = j
    BY <1>1 DEF QueueOK
  <2> QED BY <1>2, <2>1, <2>2 DEF QueueOK
<1>4. QueueOrder'
  <2> SUFFICES ASSUME NEW r \in Readers, NEW s \in ahead'[r],
                      NEW i \in DOMAIN queue', NEW j \in DOMAIN queue',
                      queue'[i].reader = r, queue'[j].reader = s
               PROVE  j < i
    BY DEF QueueOrder
  <2>1. s \in ahead[r] /\ queue[g[i]].reader = r /\ queue[g[j]].reader = s
    BY <1>1
  <2>2. g[j] < g[i]
    BY <2>1 DEF QueueOrder
  <2> QED BY <1>1, <2>2
<1> QED BY <1>2, <1>3, <1>4

(* The read ends: its whole events are the batch, the others are lost. *)
LEMMA DeliverKeeps ==
    ASSUME IndInv, Deliver, buf # <<>>, loop = "read", UNCHANGED <<asker, open>>,
           \A r \in Readers : ahead'[r] \subseteq ahead[r]
    PROVE  /\ FdsOK' /\ BufOrder' /\ BatchOrder'
           /\ batch' \in Seq(Fds) /\ lost' \subseteq Fds
           /\ buf' = <<>> /\ loop' = "handle"
<1>1. /\ buf \in Seq(Delivered) /\ Len(buf) \in Nat /\ DOMAIN buf = 1..Len(buf)
      /\ NoFd \notin Fds /\ batch = <<>>
      /\ \A i \in DOMAIN buf : buf[i].fd \in Fds \cup {NoFd}
  BY BufTypes, Types DEF IndInv, TypeOK
<1>2. PICK n \in 0..Len(buf) : /\ StopsAt(n)
                               /\ batch' = Parse(n)
                               /\ lost' = lost \cup Behind(n)
  BY DEF Deliver
<1>3. n \in Nat /\ 1..n \subseteq DOMAIN buf /\ (n + 1)..Len(buf) \subseteq DOMAIN buf
      /\ DOMAIN buf = 1..n \cup (n + 1)..Len(buf)
      /\ \A i \in 1..n : i \notin (n + 1)..Len(buf)
  BY <1>1
<1>4. /\ batch' = [i \in 1..n |-> buf[i].fd]
      /\ DOMAIN batch' = 1..n
      /\ \A i \in 1..n : batch'[i] = buf[i].fd /\ buf[i].fd # NoFd /\ buf[i].fd \in Fds
  BY <1>1, <1>2, <1>3 DEF StopsAt, Short, Parse, IndInv, FdsOK
<1>5. batch' \in Seq(Fds)
  BY <1>3, <1>4
<1>6. Listed(batch') = {buf[i].fd : i \in 1..n}
  BY <1>4 DEF Listed
<1>7. BufFds = Listed(batch') \cup Behind(n) /\ Listed(batch') \cap Behind(n) = {}
  <2>1. BufFds \subseteq Listed(batch') \cup Behind(n)
    BY <1>3, <1>6 DEF BufFds, Behind
  <2>2. Listed(batch') \subseteq BufFds
    BY <1>3, <1>4, <1>6 DEF BufFds
  <2>3. Behind(n) \subseteq BufFds
    BY <1>3 DEF BufFds, Behind
  <2>4. ASSUME NEW d \in Listed(batch'), d \in Behind(n) PROVE FALSE
    <3>1. PICK i \in 1..n : d = buf[i].fd
      BY <1>6
    <3>2. PICK j \in (n + 1)..Len(buf) : d = buf[j].fd
      BY <2>4 DEF Behind
    <3> QED BY <1>3, <1>4, <3>1, <3>2 DEF IndInv, FdsOK
  <2> QED BY <2>1, <2>2, <2>3, <2>4
<1>8. buf' = <<>> /\ loop' = "handle" /\ DOMAIN buf' = {}
  BY DEF Deliver
<1>9. InHand = BufFds /\ InHand' = Listed(batch')
  <2>1. Listed(batch) = {} /\ BufFds' = {}
    BY <1>1, <1>8 DEF Listed, BufFds
  <2>2. InHand' = BufFds' \cup Listed(batch')
    BY DEF InHand, Listed
  <2> QED BY <2>1, <2>2 DEF InHand
<1>10. FdsReturned'
  <2>1. open' = InHand' \cup lost' /\ InHand' \cap lost' = {}
    BY <1>2, <1>7, <1>9 DEF IndInv, FdsOK, FdsReturned
  <2>2. \A d \in Fds : asker'[d] # NoReader => d \in open'
    BY DEF IndInv, FdsOK, FdsReturned
  <2> QED BY <2>1, <2>2 DEF FdsReturned
<1>11. FdsOK'
  <2>1. \A i, j \in DOMAIN batch' : batch'[i] = batch'[j] => i = j
    BY <1>3, <1>4 DEF IndInv, FdsOK
  <2> QED BY <1>8, <1>10, <2>1 DEF FdsOK
<1>12. BufOrder'
  BY <1>8 DEF BufOrder
<1>13. BatchOrder'
  <2> SUFFICES ASSUME NEW r \in Readers, NEW s \in ahead'[r],
                      NEW i \in DOMAIN batch', NEW j \in DOMAIN batch',
                      asker[batch'[i]] = r, asker[batch'[j]] = s
               PROVE  j < i
    BY DEF BatchOrder
  <2> QED BY <1>3, <1>4 DEF IndInv, BufOrder
<1>14. lost' \subseteq Fds
  BY <1>1, <1>2, <1>3 DEF IndInv, TypeOK, Behind
<1> QED BY <1>5, <1>8, <1>11, <1>12, <1>13, <1>14

-----------------------------------------------------------------------------
(* What of the invariant depends on what. *)

(* A step that leaves buffer, batch and descriptors alone. *)
LEMMA BufferUntouched ==
    ASSUME IndInv, UNCHANGED <<asker, open, buf, batch, lost>>,
           \A r \in Readers : ahead'[r] \subseteq ahead[r]
    PROVE  FdsOK' /\ BufOrder' /\ BatchOrder'
<1>1. FdsOK'
  BY DEF IndInv, FdsOK, FdsReturned, InHand, BufFds, Listed
<1>2. BufOrder'
  BY DEF IndInv, BufOrder
<1>3. BatchOrder'
  BY DEF IndInv, BatchOrder
<1> QED BY <1>1, <1>2, <1>3

(* A step that leaves the queue alone. *)
LEMMA QueueUntouched ==
    ASSUME IndInv, UNCHANGED queue, \A r \in Readers : ahead'[r] \subseteq ahead[r]
    PROVE  QueueOK' /\ QueueOrder'
<1>1. QueueOK'
  BY DEF IndInv, QueueOK, Listed
<1>2. QueueOrder'
  BY DEF IndInv, QueueOrder, Queued, Listed
<1> QED BY <1>1, <1>2

(* Whom the events of a changed queue are from. *)
LEMMA QueuedAt ==
    ASSUME NEW r
    PROVE  /\ Queued(r) <=> \E i \in DOMAIN queue : queue[i].reader = r
           /\ Queued(r)' <=> \E i \in DOMAIN queue' : queue'[i].reader = r
BY DEF Queued, Listed

(* A reader that waits is the one whose event left the queue, or it still  *)
(* is in the queue.                                                        *)
LEMMA HeadLeaves ==
    ASSUME IndInv, queue # <<>>, queue' = Tail(queue)
    PROVE  LET q == Head(queue).reader
           IN  /\ queue' \in Seq(Event) /\ Len(queue') = Len(queue) - 1
               /\ Thins(queue, queue')
               /\ Head(queue) \in Event /\ Queued(q)
               /\ \A r \in Readers : Queued(r)' <=> Queued(r) /\ r # q
<1> DEFINE q == Head(queue).reader
<1>1. queue \in Seq(Event)
  BY Types DEF IndInv
<1>2. /\ queue' \in Seq(Event) /\ Len(queue') = Len(queue) - 1 /\ Thins(queue, queue')
      /\ 1 \in DOMAIN queue /\ q = queue[1].reader /\ Head(queue) \in Event
      /\ \A i \in DOMAIN queue : i # 1 => \E j \in DOMAIN queue' : queue'[j] = queue[i]
      /\ \A j \in DOMAIN queue' : \E i \in DOMAIN queue : i # 1 /\ queue'[j] = queue[i]
  BY <1>1, TailThins
<1> HIDE DEF q
<1>3. Queued(q)
  BY <1>2, QueuedAt
<1>4. ASSUME NEW r \in Readers PROVE Queued(r)' <=> Queued(r) /\ r # q
  <2>1. ASSUME NEW j \in DOMAIN queue', queue'[j].reader = r PROVE Queued(r) /\ r # q
    <3>1. PICK i \in DOMAIN queue : i # 1 /\ queue'[j] = queue[i]
      BY <1>2
    <3>2. queue[i].reader = r /\ queue[i].reader # queue[1].reader
      BY <1>2, <2>1, <3>1 DEF IndInv, QueueOK
    <3> QED BY <1>2, <3>2, QueuedAt
  <2>2. ASSUME NEW i \in DOMAIN queue, queue[i].reader = r, r # q PROVE Queued(r)'
    BY <1>2, <2>2, QueuedAt
  <2> QED BY <2>1, <2>2, QueuedAt
<1> QED BY <1>2, <1>3, <1>4 DEF q

(* The same, for an event that leaves from anywhere in the queue. *)
LEMMA OneLeaves ==
    ASSUME IndInv, NEW k \in DOMAIN queue, queue' = Without(queue, k)
    PROVE  LET q == queue[k].reader
           IN  /\ queue' \in Seq(Event) /\ Len(queue') = Len(queue) - 1
               /\ Thins(queue, queue')
               /\ \A r \in Readers : Queued(r)' <=> Queued(r) /\ r # q
<1> DEFINE q == queue[k].reader
<1>1. queue \in Seq(Event)
  BY Types DEF IndInv
<1>2. /\ queue' \in Seq(Event) /\ Len(queue') = Len(queue) - 1 /\ Thins(queue, queue')
      /\ \A i \in DOMAIN queue : i # k => \E j \in DOMAIN queue' : queue'[j] = queue[i]
      /\ \A j \in DOMAIN queue' : \E i \in DOMAIN queue : i # k /\ queue'[j] = queue[i]
  BY <1>1, WithoutThins
<1>3. ASSUME NEW r \in Readers PROVE Queued(r)' <=> Queued(r) /\ r # q
  <2>1. ASSUME NEW j \in DOMAIN queue', queue'[j].reader = r PROVE Queued(r) /\ r # q
    <3>1. PICK i \in DOMAIN queue : i # k /\ queue'[j] = queue[i]
      BY <1>2
    <3>2. queue[i].reader = r /\ queue[i].reader # queue[k].reader
      BY <1>2, <2>1, <3>1 DEF IndInv, QueueOK
    <3> QED BY <1>2, <3>2, QueuedAt
  <2>2. ASSUME NEW i \in DOMAIN queue, queue[i].reader = r, r # q PROVE Queued(r)'
    BY <1>2, <2>2, QueuedAt
  <2> QED BY <2>1, <2>2, QueuedAt
<1> QED BY <1>2, <1>3

-----------------------------------------------------------------------------
(* The kernel's side of a read. *)

(* Nobody waits, and nothing is open. *)
LEMMA InitOK == Init => IndInv
<1> SUFFICES ASSUME Init PROVE IndInv
  OBVIOUS
<1>1. /\ queue = <<>> /\ buf = <<>> /\ batch = <<>> /\ open = {} /\ lost = {}
      /\ asker = [d \in Fds |-> NoReader] /\ reader = [r \in Readers |-> "rest"]
      /\ ahead = [r \in Readers |-> {}] /\ loop = "read" /\ flooded = FALSE
  BY DEF Init
<1>2. DOMAIN <<>> = {} /\ Len(<<>>) = 0 /\ \A S : <<>> \in Seq(S)
  OBVIOUS
<1>3. TypeOK
  <2>1. /\ queue \in Seq([reader : Readers \cup {NoReader}, kind : Kinds])
        /\ buf \in Seq([fd : Fds \cup {NoFd}, kind : Kinds])
        /\ batch \in Seq(Fds)
    BY <1>1, <1>2
  <2>2. Len(queue) <= MaxQueue + 1 /\ Len(buf) <= MaxBatch
    BY <1>1, <1>2, LimitAssumption
  <2>3. /\ asker \in [Fds -> Readers \cup {NoReader}]
        /\ reader \in [Readers -> {"rest", "waits", "bytes", "zeros", "denied"}]
        /\ ahead \in [Readers -> SUBSET Readers]
    BY <1>1
  <2> QED BY <1>1, <2>1, <2>2, <2>3 DEF TypeOK
<1>4. ~(0 > MaxQueue)
  BY LimitAssumption
<1>5. QueueOK
  BY <1>1, <1>2, <1>4 DEF QueueOK
<1>6. Listed(batch) = {} /\ BufFds = {} /\ \A r : ~Queued(r)
  BY <1>1, <1>2 DEF Listed, BufFds, Queued
<1>7. FdsReturned
  BY <1>1, <1>6 DEF FdsReturned, InHand
<1>8. FdsOK
  BY <1>1, <1>2, <1>7 DEF FdsOK
<1>9. Waiting
  BY <1>1, <1>6, NullAssumption DEF Waiting
<1>10. AheadWaits /\ QueueOrder /\ BufOrder /\ BatchOrder
  BY <1>1 DEF AheadWaits, QueueOrder, BufOrder, BatchOrder
<1>11. OnlyTheKernelLetsThrough
  BY <1>1 DEF OnlyTheKernelLetsThrough
<1> QED BY <1>3, <1>5, <1>8, <1>9, <1>10, <1>11 DEF IndInv

(* A reader asks, and is the last in the queue. *)
LEMMA AskOK ==
    ASSUME IndInv, NEW r \in Readers, Access(r), Len(queue) < MaxQueue
    PROVE  IndInv'
<1>1. PICK e \in Event : /\ e.reader = r /\ e.kind # "overflow"
                         /\ queue' = Append(queue, e)
  <2>1. ~(Len(queue) >= MaxQueue)
    BY Types DEF IndInv
  <2>2. PICK kind \in {"range", "bare"} :
           queue' = Append(queue, [reader |-> r, kind |-> kind])
    BY <2>1 DEF Access
  <2>3. [reader |-> r, kind |-> kind] \in Event /\ kind # "overflow"
    BY DEF Event, Kinds
  <2> QED BY <2>2, <2>3
<1>2. /\ reader' = [reader EXCEPT ![r] = "waits"]
      /\ ahead' = [ahead EXCEPT ![r] = {s \in Readers : reader[s] = "waits"}]
      /\ UNCHANGED <<asker, open, buf, batch, loop, lost, flooded>>
      /\ reader[r] = "rest"
  BY Types DEF Access, IndInv, TypeOK
<1>3. /\ queue \in Seq(Event) /\ Len(queue) \in Nat /\ MaxQueue \in Nat
      /\ NoReader \notin Readers
      /\ reader \in [Readers -> States] /\ ahead \in [Readers -> SUBSET Readers]
  BY Types DEF IndInv, TypeOK, States
<1>4. /\ reader'[r] = "waits" /\ \A s \in Readers : s # r => reader'[s] = reader[s]
      /\ ahead'[r] = {s \in Readers : reader[s] = "waits"}
      /\ \A s \in Readers : s # r => ahead'[s] = ahead[s]
      /\ reader' \in [Readers -> States] /\ ahead' \in [Readers -> SUBSET Readers]
  BY <1>2, <1>3 DEF States
<1> DEFINE k == Len(queue) + 1
<1>5. /\ queue' \in Seq(Event) /\ Len(queue') = k
      /\ k \in DOMAIN queue' /\ queue'[k] = e
      /\ \A i \in DOMAIN queue : /\ i \in DOMAIN queue' /\ queue'[i] = queue[i]
                                 /\ i < k /\ ~(k < i) /\ i # k
      /\ \A i \in DOMAIN queue' : i = k \/ i \in DOMAIN queue
      /\ k <= MaxQueue
  BY <1>1, <1>3, Appends
<1> HIDE DEF k
<1>6. ~Queued(r) /\ \A d \in Fds : asker[d] # r
  BY <1>2 DEF IndInv, Waiting
<1>7. \A s \in Readers : Queued(s)' <=> Queued(s) \/ s = r
  BY <1>1, <1>5, QueuedAt
<1>8. TypeOK'
  <2>1. Len(queue') <= MaxQueue + 1
    BY <1>3, <1>5 DEF k
  <2> QED BY <1>2, <1>4, <1>5, <2>1 DEF IndInv, TypeOK, Event, States
<1>9. QueueOK'
  <2>1. \A i \in DOMAIN queue' : queue'[i].kind = "overflow" <=> queue'[i].reader = NoReader
    BY <1>1, <1>3, <1>5 DEF IndInv, QueueOK
  <2>2. \A i \in DOMAIN queue : queue[i].reader # r
    BY <1>6, QueuedAt
  <2>3. \A i, j \in DOMAIN queue' : queue'[i].reader = queue'[j].reader => i = j
    BY <1>1, <1>5, <2>2 DEF IndInv, QueueOK
  <2>4. ~(Len(queue') > MaxQueue)
    BY <1>3, <1>5 DEF k
  <2> QED BY <2>1, <2>3, <2>4 DEF QueueOK
<1>10. FdsOK'
  BY <1>2 DEF IndInv, FdsOK, FdsReturned, InHand, BufFds, Listed
<1>11. Waiting'
  <2>1. \A s \in Readers :
           reader'[s] = "waits" <=> Queued(s)' \/ \E d \in Fds : asker'[d] = s
    BY <1>2, <1>4, <1>7 DEF IndInv, Waiting
  <2>2. \A s \in Readers : Queued(s)' => \A d \in Fds : asker'[d] # s
    BY <1>2, <1>6, <1>7 DEF IndInv, Waiting
  <2> QED BY <1>2, <2>1, <2>2 DEF IndInv, Waiting
<1>12. AheadWaits'
  BY <1>2, <1>4 DEF IndInv, AheadWaits
<1>13. QueueOrder'
  <2> SUFFICES ASSUME NEW t \in Readers, NEW s \in ahead'[t]
               PROVE  /\ Queued(s)' => Queued(t)'
                      /\ \A i, j \in DOMAIN queue' :
                            queue'[i].reader = t /\ queue'[j].reader = s => j < i
    BY DEF QueueOrder
  <2>1. s \in Readers /\ s # r
    BY <1>2, <1>4 DEF IndInv, AheadWaits
  <2>2. Queued(s)' => Queued(t)'
    BY <1>4, <1>7, <2>1 DEF IndInv, QueueOrder
  <2>3. ASSUME NEW i \in DOMAIN queue', NEW j \in DOMAIN queue',
               queue'[i].reader = t, queue'[j].reader = s
        PROVE  j < i
    <3>1. j # k /\ j \in DOMAIN queue /\ queue[j].reader = s
      BY <1>1, <1>5, <2>1, <2>3
    <3>2. CASE i = k
      BY <1>5, <3>1, <3>2
    <3>3. CASE i # k
      <4>1. i \in DOMAIN queue /\ queue[i].reader = t /\ t # r
        BY <1>5, <1>6, <2>3, <3>3, QueuedAt
      <4> QED BY <1>4, <3>1, <4>1 DEF IndInv, QueueOrder
    <3> QED BY <3>2, <3>3
  <2> QED BY <2>2, <2>3
<1>14. BufOrder' /\ BatchOrder'
  <2>1. \A i \in DOMAIN buf : buf[i].fd # NoFd => asker[buf[i].fd] # r
    BY <1>6, BufTypes DEF IndInv
  <2>2. \A i \in DOMAIN batch : asker[batch[i]] # r
    BY <1>6, BufTypes DEF IndInv
  <2>3. BufOrder'
    BY <1>2, <1>4, <2>1 DEF IndInv, BufOrder
  <2>4. BatchOrder'
    BY <1>2, <1>4, <2>2 DEF IndInv, BatchOrder
  <2> QED BY <2>3, <2>4
<1>15. OnlyTheKernelLetsThrough'
  BY <1>2, <1>4 DEF IndInv, OnlyTheKernelLetsThrough
<1> QED BY <1>8, <1>9, <1>10, <1>11, <1>12, <1>13, <1>14, <1>15 DEF IndInv

(* The queue is full: the event is dropped, and the kernel says so. *)
LEMMA FloodOK ==
    ASSUME IndInv, NEW r \in Readers, Access(r), Len(queue) >= MaxQueue
    PROVE  IndInv'
<1>1. /\ queue' = IF Overflow \in Listed(queue) THEN queue ELSE Append(queue, Overflow)
      /\ reader' = [reader EXCEPT ![r] = "zeros"]
      /\ flooded' = TRUE /\ reader[r] = "rest"
      /\ UNCHANGED <<asker, ahead, open, buf, batch, loop, lost>>
  BY Types DEF Access, IndInv
<1>2. /\ queue \in Seq(Event) /\ Len(queue) \in Nat /\ MaxQueue \in Nat
      /\ NoReader \notin Readers
      /\ reader \in [Readers -> States]
  BY Types DEF IndInv, TypeOK, States
<1>3. /\ reader'[r] = "zeros" /\ \A s \in Readers : s # r => reader'[s] = reader[s]
      /\ reader' \in [Readers -> States]
  BY <1>1, <1>2 DEF States
<1>4. Overflow \in Event /\ Overflow.reader = NoReader /\ Overflow.kind = "overflow"
  BY DEF Overflow, Event, Kinds
<1>5. \/ queue' = queue /\ Overflow \in Listed(queue)
      \/ queue' = Append(queue, Overflow) /\ Overflow \notin Listed(queue)
  BY <1>1
<1>6. /\ queue' \in Seq(Event) /\ Len(queue') <= MaxQueue + 1
      /\ Overflow \in Listed(queue')
      /\ \A i \in DOMAIN queue : i \in DOMAIN queue' /\ queue'[i] = queue[i]
      /\ \A i \in DOMAIN queue' : i \in DOMAIN queue \/ queue'[i] = Overflow
      /\ \A i, j \in DOMAIN queue' : queue'[i].reader = queue'[j].reader => i = j
  <2>1. CASE queue' = queue /\ Overflow \in Listed(queue)
    BY <1>2, <2>1 DEF IndInv, TypeOK, QueueOK, Listed
  <2>2. CASE queue' = Append(queue, Overflow) /\ Overflow \notin Listed(queue)
    <3> DEFINE k == Len(queue) + 1
    <3>1. /\ queue' \in Seq(Event) /\ Len(queue') = k
          /\ k \in DOMAIN queue' /\ queue'[k] = Overflow
          /\ \A i \in DOMAIN queue : i \in DOMAIN queue' /\ queue'[i] = queue[i] /\ i # k
          /\ \A i \in DOMAIN queue' : i = k \/ i \in DOMAIN queue
      BY <1>2, <1>4, <2>2, Appends
    <3> HIDE DEF k
    <3>2. Overflow \in Listed(queue')
      BY <3>1 DEF Listed
    <3>3. ~(Len(queue) > MaxQueue)
      BY <2>2 DEF IndInv, QueueOK
    <3>4. Len(queue') <= MaxQueue + 1
      BY <1>2, <3>1, <3>3 DEF k
    <3>5. \A i \in DOMAIN queue : queue[i].reader # NoReader
      <4> SUFFICES ASSUME NEW i \in DOMAIN queue, queue[i].reader = NoReader PROVE FALSE
        OBVIOUS
      <4>1. queue[i] \in Event /\ queue[i].kind = "overflow"
        BY <1>2 DEF IndInv, QueueOK
      <4>2. queue[i] = Overflow
        BY <4>1 DEF Event, Overflow
      <4> QED BY <2>2, <4>2 DEF Listed
    <3>6. \A i, j \in DOMAIN queue' : queue'[i].reader = queue'[j].reader => i = j
      BY <1>4, <3>1, <3>5 DEF IndInv, QueueOK
    <3> QED BY <3>1, <3>2, <3>4, <3>6
  <2> QED BY <1>5, <2>1, <2>2
<1>7. \A s \in Readers : Queued(s)' <=> Queued(s)
  BY <1>2, <1>4, <1>6, QueuedAt
<1>8. TypeOK'
  BY <1>1, <1>3, <1>6 DEF IndInv, TypeOK, Event, States
<1>9. QueueOK'
  BY <1>4, <1>6 DEF IndInv, QueueOK
<1>10. FdsOK' /\ BufOrder' /\ BatchOrder'
  BY <1>1, BufferUntouched
<1>11. Waiting'
  BY <1>1, <1>3, <1>7 DEF IndInv, Waiting
<1>12. AheadWaits'
  BY <1>1, <1>3 DEF IndInv, AheadWaits
<1>13. QueueOrder'
  <2>1. \A s \in Readers : \A i \in DOMAIN queue' :
           queue'[i].reader = s => i \in DOMAIN queue /\ queue[i].reader = s
    BY <1>2, <1>4, <1>6
  <2>2. \A t \in Readers : \A s \in ahead[t] : s \in Readers
    BY DEF IndInv, TypeOK
  <2> QED BY <1>1, <1>7, <2>1, <2>2 DEF IndInv, QueueOrder
<1>14. OnlyTheKernelLetsThrough'
  BY <1>1 DEF OnlyTheKernelLetsThrough
<1> QED BY <1>8, <1>9, <1>10, <1>11, <1>12, <1>13, <1>14 DEF IndInv

(* A reader that does not wait changes what it has got. *)
LEMMA ReaderStep ==
    ASSUME IndInv, NEW r \in Readers, NEW v \in States, reader[r] # "waits", v # "waits",
           reader' = [reader EXCEPT ![r] = v], v = "zeros" => loop = "dead",
           UNCHANGED <<queue, asker, ahead, open, buf, batch, loop, lost, flooded>>
    PROVE  IndInv'
<1>1. /\ reader'[r] = v /\ \A s \in Readers : s # r => reader'[s] = reader[s]
      /\ reader' \in [Readers -> States]
  BY DEF IndInv, TypeOK, States
<1>2. TypeOK'
  BY <1>1 DEF IndInv, TypeOK, States
<1>3. QueueOK' /\ QueueOrder' /\ FdsOK' /\ BufOrder' /\ BatchOrder'
  BY QueueUntouched, BufferUntouched
<1>4. Waiting'
  BY <1>1 DEF IndInv, Waiting, Queued, Listed
<1>5. AheadWaits'
  BY <1>1 DEF IndInv, AheadWaits
<1>6. OnlyTheKernelLetsThrough'
  BY <1>1 DEF IndInv, OnlyTheKernelLetsThrough
<1> QED BY <1>2, <1>3, <1>4, <1>5, <1>6 DEF IndInv

(* A killed reader takes its event out of the queue, or leaves a           *)
(* descriptor behind that nobody waits for.                                *)
LEMMA KilledOK ==
    ASSUME IndInv, NEW r \in Readers, Killed(r)
    PROVE  IndInv'
<1>1. /\ reader[r] = "waits" /\ reader' = [reader EXCEPT ![r] = "rest"] /\ Leaves(r)
      /\ asker' = [d \in Fds |-> IF asker[d] = r THEN NoReader ELSE asker[d]]
      /\ UNCHANGED <<open, buf, batch, loop, lost, flooded>>
  BY DEF Killed
<1>2. /\ reader'[r] = "rest" /\ \A s \in Readers : s # r => reader'[s] = reader[s]
      /\ reader' \in [Readers -> States] /\ NoReader \notin Readers
      /\ asker \in [Fds -> Readers \cup {NoReader}]
  BY <1>1, Types DEF IndInv, TypeOK, States
<1>3. /\ ahead' \in [Readers -> SUBSET Readers] /\ AheadWaits'
      /\ \A s \in Readers : /\ ahead'[s] \subseteq ahead[s]
                            /\ r \notin ahead'[s]
                            /\ s = r => ahead'[s] = {}
  BY <1>1, <1>2, LeavesAhead DEF IndInv
<1>4. /\ asker' \in [Fds -> Readers \cup {NoReader}]
      /\ \A d \in Fds : /\ asker'[d] # r
                        /\ asker[d] # r => asker'[d] = asker[d]
                        /\ asker[d] = r => asker'[d] = NoReader
  BY <1>1, <1>2
<1>5. /\ QueueOK' /\ QueueOrder'
      /\ queue' \in Seq(Event) /\ Len(queue') <= MaxQueue + 1
      /\ \A s \in Readers : Queued(s)' <=> Queued(s) /\ s # r
  <2>1. CASE ~Queued(r) /\ UNCHANGED queue
    <3>1. queue \in Seq(Event) /\ Len(queue) <= MaxQueue + 1
      BY Types DEF IndInv, TypeOK
    <3>2. \A s \in Readers : Queued(s)' <=> Queued(s)
      BY <2>1 DEF Queued, Listed
    <3> QED BY <1>3, <2>1, <3>1, <3>2, QueueUntouched
  <2>2. ASSUME NEW k \in DOMAIN queue, queue[k].reader = r, queue' = Without(queue, k)
        PROVE  /\ QueueOK' /\ QueueOrder'
               /\ queue' \in Seq(Event) /\ Len(queue') <= MaxQueue + 1
               /\ \A s \in Readers : Queued(s)' <=> Queued(s) /\ s # r
    <3>1. /\ queue' \in Seq(Event) /\ Len(queue') = Len(queue) - 1
          /\ Thins(queue, queue')
          /\ \A s \in Readers : Queued(s)' <=> Queued(s) /\ s # r
      BY <2>2, OneLeaves
    <3>2. \A t \in Readers : \A s \in ahead'[t] : Queued(s)' => Queued(t)'
      BY <1>3, <3>1 DEF IndInv, QueueOrder
    <3>3. QueueOK' /\ QueueOrder' /\ Len(queue') <= MaxQueue
      BY <1>3, <3>1, <3>2, QueueThins DEF IndInv
    <3>4. Len(queue') <= MaxQueue + 1
      BY <3>1, <3>3, Types DEF IndInv
    <3> QED BY <3>1, <3>3, <3>4
  <2> QED BY <2>1, <2>2 DEF Killed
<1>6. TypeOK'
  BY <1>1, <1>2, <1>3, <1>4, <1>5 DEF IndInv, TypeOK, Event, States
<1>7. FdsOK'
  <2>1. InHand' = InHand
    BY <1>1 DEF InHand, BufFds, Listed
  <2> QED BY <1>1, <1>4, <2>1 DEF IndInv, FdsOK, FdsReturned
<1>8. Waiting'
  <2>1. \A s \in Readers : s # r =>
           /\ \A d \in Fds : asker'[d] = s <=> asker[d] = s
           /\ reader'[s] = reader[s]
    BY <1>2, <1>4
  <2>2. \A s \in Readers :
           reader'[s] = "waits" <=> Queued(s)' \/ \E d \in Fds : asker'[d] = s
    BY <1>2, <1>4, <1>5, <2>1 DEF IndInv, Waiting
  <2>3. \A s \in Readers : Queued(s)' => \A d \in Fds : asker'[d] # s
    BY <1>5, <2>1 DEF IndInv, Waiting
  <2>4. \A d, e \in Fds : asker'[d] = asker'[e] /\ asker'[d] # NoReader => d = e
    BY <1>4 DEF IndInv, Waiting
  <2> QED BY <2>2, <2>3, <2>4 DEF Waiting
<1>9. BufOrder' /\ BatchOrder'
  <2>1. \A t \in Readers : \A s \in ahead'[t] : s \in ahead[t] /\ s # r /\ t # r
    BY <1>3
  <2>2. \A t \in Readers : \A d \in Fds : asker'[d] = t => asker[d] = t
    BY <1>2, <1>4
  <2>3. \A t \in Readers : \A s \in ahead[t] : s \in Readers
    BY DEF IndInv, TypeOK
  <2>4. BufOrder'
    BY <1>1, <2>1, <2>2, <2>3, BufTypes DEF IndInv, BufOrder
  <2>5. BatchOrder'
    BY <1>1, <2>1, <2>2, <2>3, BufTypes DEF IndInv, BatchOrder
  <2> QED BY <2>4, <2>5
<1>10. OnlyTheKernelLetsThrough'
  BY <1>1, <1>2 DEF IndInv, OnlyTheKernelLetsThrough
<1> QED BY <1>3, <1>5, <1>6, <1>7, <1>8, <1>9, <1>10 DEF IndInv

(* Every reader goes on, and nothing is left. *)
LEMMA LazydDiesOK ==
    ASSUME IndInv, LazydDies
    PROVE  IndInv'
<1>1. /\ loop' = "dead" /\ queue' = <<>> /\ buf' = <<>> /\ batch' = <<>>
      /\ open' = {} /\ lost' = {} /\ flooded' = flooded
      /\ asker' = [d \in Fds |-> NoReader] /\ ahead' = [r \in Readers |-> {}]
      /\ reader' = [r \in Readers |-> IF reader[r] = "waits" THEN "zeros" ELSE reader[r]]
  BY DEF LazydDies
<1>2. DOMAIN <<>> = {} /\ Len(<<>>) = 0 /\ \A S : <<>> \in Seq(S)
  OBVIOUS
<1>3. reader \in [Readers -> States] /\ flooded \in BOOLEAN
  BY DEF IndInv, TypeOK, States
<1>4. reader' \in [Readers -> States] /\ \A r \in Readers : reader'[r] # "waits"
  BY <1>1, <1>3 DEF States
<1>5. TypeOK'
  <2>1. /\ queue' \in Seq([reader : Readers \cup {NoReader}, kind : Kinds])
        /\ buf' \in Seq([fd : Fds \cup {NoFd}, kind : Kinds])
        /\ batch' \in Seq(Fds)
    BY <1>1, <1>2
  <2>2. Len(queue') <= MaxQueue + 1 /\ Len(buf') <= MaxBatch
    BY <1>1, <1>2, LimitAssumption
  <2>3. /\ asker' \in [Fds -> Readers \cup {NoReader}]
        /\ ahead' \in [Readers -> SUBSET Readers]
    BY <1>1
  <2> QED BY <1>1, <1>3, <1>4, <2>1, <2>2, <2>3 DEF TypeOK, States
<1>6. ~(0 > MaxQueue)
  BY LimitAssumption
<1>7. QueueOK'
  BY <1>1, <1>2, <1>6 DEF QueueOK
<1>8. InHand' = {} /\ \A r : ~Queued(r)'
  BY <1>1, <1>2 DEF Listed, BufFds, InHand, Queued
<1>9. FdsReturned'
  BY <1>1, <1>8 DEF FdsReturned
<1>10. FdsOK'
  BY <1>1, <1>2, <1>9 DEF FdsOK
<1>11. Waiting'
  BY <1>1, <1>4, <1>8, NullAssumption DEF Waiting
<1>12. AheadWaits' /\ QueueOrder' /\ BufOrder' /\ BatchOrder'
  BY <1>1 DEF AheadWaits, QueueOrder, BufOrder, BatchOrder
<1>13. OnlyTheKernelLetsThrough'
  BY <1>1 DEF OnlyTheKernelLetsThrough
<1> QED BY <1>5, <1>7, <1>10, <1>11, <1>12, <1>13 DEF IndInv

-----------------------------------------------------------------------------
(* The read. *)

(* Nobody is ahead of the first in the queue who is in it as well. *)
LEMMA FirstInQueue ==
    ASSUME IndInv, queue # <<>>, NEW r \in Readers, NEW s \in ahead[r],
           Head(queue).reader = r
    PROVE  ~Queued(s)
<1> SUFFICES ASSUME NEW j \in DOMAIN queue, queue[j].reader = s PROVE FALSE
  BY QueuedAt
<1>1. 1 \in DOMAIN queue /\ queue[1].reader = r /\ DOMAIN queue = 1..Len(queue)
  BY Types, TailThins DEF IndInv
<1>2. j < 1 /\ j \in 1..Len(queue) /\ Len(queue) \in Nat
  BY <1>1, Types DEF IndInv, QueueOrder
<1> QED BY <1>2

(* An overflow event is read. *)
LEMMA ReadOverflowOK ==
    ASSUME IndInv, ReadEvent, Head(queue).kind = "overflow"
    PROVE  IndInv'
<1> DEFINE e == [fd |-> NoFd, kind |-> Head(queue).kind]
           k == Len(buf) + 1
<1>1. /\ queue # <<>> /\ queue' = Tail(queue) /\ loop = "read" /\ Len(buf) < MaxBatch
      /\ buf' = Append(buf, e)
      /\ UNCHANGED <<asker, open, reader, ahead, batch, loop, lost, flooded>>
  BY DEF ReadEvent, Reading
<1>2. /\ queue' \in Seq(Event) /\ Len(queue') = Len(queue) - 1 /\ Thins(queue, queue')
      /\ Head(queue).reader = NoReader
      /\ \A r \in Readers : Queued(r)' <=> Queued(r)
  <2>1. /\ queue' \in Seq(Event) /\ Len(queue') = Len(queue) - 1 /\ Thins(queue, queue')
        /\ \A r \in Readers : Queued(r)' <=> Queued(r) /\ r # Head(queue).reader
    BY <1>1, HeadLeaves
  <2>2. 1 \in DOMAIN queue /\ Head(queue) = queue[1]
    BY <1>1, Types, TailThins DEF IndInv
  <2>3. Head(queue).reader = NoReader
    BY <2>2 DEF IndInv, QueueOK
  <2> QED BY <2>1, <2>3, Types DEF IndInv
<1>3. /\ buf' \in Seq(Delivered) /\ Len(buf') = k /\ Len(buf) \in Nat
      /\ k \in DOMAIN buf' /\ buf'[k] = e
      /\ \A i \in DOMAIN buf : i \in DOMAIN buf' /\ buf'[i] = buf[i]
      /\ \A i \in DOMAIN buf' : i = k \/ i \in DOMAIN buf
  <2>1. e \in Delivered
    BY DEF Delivered, Kinds
  <2> HIDE DEF e
  <2> QED BY <1>1, <2>1, Types, Appends DEF IndInv
<1>4. e.fd = NoFd /\ e.kind = "overflow"
  OBVIOUS
<1> HIDE DEF e
<1>5. Len(buf') <= MaxBatch
  BY <1>1, <1>3, LimitAssumption
<1> HIDE DEF k
<1>6. TypeOK'
  <2>1. Len(queue') <= MaxQueue + 1
    BY <1>2, Types DEF IndInv, TypeOK
  <2> QED BY <1>1, <1>2, <1>3, <1>5, <2>1 DEF IndInv, TypeOK, Event, Delivered
<1>7. QueueOK' /\ QueueOrder'
  <2>1. \A r \in Readers : ahead'[r] \subseteq ahead[r]
    BY <1>1
  <2>2. \A r \in Readers : \A s \in ahead'[r] : Queued(s)' => Queued(r)'
    BY <1>1, <1>2 DEF IndInv, QueueOrder, TypeOK
  <2> QED BY <1>2, <2>1, <2>2, QueueThins DEF IndInv
<1>8. InHand' = InHand
  <2>1. BufFds' = BufFds
    BY <1>3, <1>4 DEF BufFds
  <2> QED BY <1>1, <2>1 DEF InHand, Listed
<1>9. FdsOK'
  <2>1. FdsReturned'
    BY <1>1, <1>8 DEF IndInv, FdsOK, FdsReturned
  <2> QED BY <1>1, <1>3, <1>4, <2>1 DEF IndInv, FdsOK
<1>10. Waiting'
  BY <1>1, <1>2 DEF IndInv, Waiting
<1>11. BufOrder'
  <2>1. \A i \in DOMAIN buf' : buf'[i].fd # NoFd => i \in DOMAIN buf /\ buf'[i] = buf[i]
    BY <1>3, <1>4
  <2>2. BufOrder
    BY DEF IndInv
  <2>3. ahead' = ahead /\ asker' = asker
    BY <1>1
  <2> QED BY <2>1, <2>2, <2>3 DEF BufOrder
<1>12. AheadWaits' /\ BatchOrder' /\ OnlyTheKernelLetsThrough'
  BY <1>1 DEF IndInv, AheadWaits, BatchOrder, OnlyTheKernelLetsThrough
<1> QED BY <1>6, <1>7, <1>9, <1>10, <1>11, <1>12 DEF IndInv

(* A reader's event is read, and has a descriptor from now on. *)
LEMMA ReadAccessOK ==
    ASSUME IndInv, ReadEvent, Head(queue).kind # "overflow"
    PROVE  IndInv'
<1> DEFINE q == Head(queue).reader
           k == Len(buf) + 1
<1>1. PICK d \in Fds : /\ d \notin open
                       /\ buf' = Append(buf, [fd |-> d, kind |-> Head(queue).kind])
                       /\ asker' = [asker EXCEPT ![d] = q]
                       /\ open' = open \cup {d}
  BY DEF ReadEvent
<1> DEFINE e == [fd |-> d, kind |-> Head(queue).kind]
<1>2. /\ queue # <<>> /\ queue' = Tail(queue) /\ loop = "read" /\ Len(buf) < MaxBatch
      /\ UNCHANGED <<reader, ahead, batch, loop, lost, flooded>>
  BY DEF ReadEvent, Reading
<1>3. /\ queue' \in Seq(Event) /\ Len(queue') = Len(queue) - 1 /\ Thins(queue, queue')
      /\ Head(queue) \in Event /\ Queued(q)
      /\ \A r \in Readers : Queued(r)' <=> Queued(r) /\ r # q
  BY <1>2, HeadLeaves
<1>4. q \in Readers
  <2>1. 1 \in DOMAIN queue /\ Head(queue) = queue[1]
    BY <1>2, Types, TailThins DEF IndInv
  <2>2. q # NoReader
    BY <2>1 DEF ReadEvent, IndInv, QueueOK
  <2> QED BY <1>3, <2>2 DEF Event
<1>5. /\ buf' \in Seq(Delivered) /\ Len(buf') = k /\ Len(buf) \in Nat
      /\ k \in DOMAIN buf' /\ buf'[k] = e
      /\ \A i \in DOMAIN buf : /\ i \in DOMAIN buf' /\ buf'[i] = buf[i]
                               /\ i < k /\ ~(k < i) /\ i # k
      /\ \A i \in DOMAIN buf' : i = k \/ i \in DOMAIN buf
  <2>1. e \in Delivered
    BY <1>3 DEF Delivered, Event
  <2>2. buf' = Append(buf, e)
    BY <1>1
  <2> HIDE DEF e
  <2> QED BY <2>1, <2>2, Types, Appends DEF IndInv
<1>6. e.fd = d /\ d # NoFd
  BY Types DEF IndInv
<1> HIDE DEF e, q
<1>7. Len(buf') <= MaxBatch
  BY <1>2, <1>5, LimitAssumption
<1> HIDE DEF k
<1>8. /\ asker \in [Fds -> Readers \cup {NoReader}]
      /\ asker' \in [Fds -> Readers \cup {NoReader}]
      /\ asker'[d] = q /\ \A x \in Fds : x # d => asker'[x] = asker[x]
  BY <1>1, <1>4 DEF IndInv, TypeOK
<1>9. TypeOK'
  <2>1. Len(queue') <= MaxQueue + 1
    BY <1>3, Types DEF IndInv, TypeOK
  <2>2. open' \subseteq Fds
    BY <1>1 DEF IndInv, TypeOK
  <2> QED BY <1>2, <1>3, <1>5, <1>7, <1>8, <2>1, <2>2
          DEF IndInv, TypeOK, Event, Delivered
<1>10. d \notin InHand /\ d \notin lost /\ asker[d] = NoReader
  BY <1>1 DEF IndInv, FdsOK, FdsReturned
<1>11. /\ \A i \in DOMAIN buf : buf[i].fd # d
       /\ \A i \in DOMAIN batch : batch[i] # d
  BY <1>6, <1>10 DEF InHand, BufFds, Listed
<1>12. \A x \in Fds : asker[x] # q
  BY <1>3, <1>4 DEF IndInv, Waiting
<1>13. QueueOK' /\ QueueOrder'
  <2>1. \A r \in Readers : ahead'[r] \subseteq ahead[r]
    BY <1>2
  <2>2. ASSUME NEW r \in Readers, NEW s \in ahead'[r], Queued(s)' PROVE Queued(r)'
    <3>1. s \in ahead[r] /\ s \in Readers
      BY <1>2 DEF IndInv, TypeOK
    <3>2. Queued(s) /\ Queued(r)
      BY <1>3, <2>2, <3>1 DEF IndInv, QueueOrder
    <3>3. r # q
      BY <1>2, <3>1, <3>2, FirstInQueue DEF q
    <3> QED BY <1>3, <3>2, <3>3
  <2> QED BY <1>3, <2>1, <2>2, QueueThins DEF IndInv
<1>14. FdsOK'
  <2>1. BufFds' = BufFds \cup {d}
    BY <1>5, <1>6 DEF BufFds
  <2>2. InHand' = InHand \cup {d}
    BY <1>2, <2>1 DEF InHand, Listed
  <2>3. open' = InHand' \cup lost' /\ InHand' \cap lost' = {}
    BY <1>1, <1>2, <1>10, <2>2 DEF IndInv, FdsOK, FdsReturned
  <2>4. \A x \in Fds : asker'[x] # NoReader => x \in open'
    BY <1>1, <1>8 DEF IndInv, FdsOK, FdsReturned
  <2>5. FdsReturned'
    BY <2>3, <2>4 DEF FdsReturned
  <2>6. \A i, j \in DOMAIN buf' : buf'[i].fd = buf'[j].fd /\ buf'[i].fd # NoFd => i = j
    BY <1>5, <1>6, <1>11 DEF IndInv, FdsOK
  <2>7. \A i \in DOMAIN buf' : buf'[i].kind = "range" => buf'[i].fd # NoFd
    BY <1>5, <1>6 DEF IndInv, FdsOK
  <2> QED BY <1>2, <2>5, <2>6, <2>7 DEF IndInv, FdsOK
<1>15. Waiting'
  <2>1. \A r \in Readers : r # q =>
           /\ Queued(r)' <=> Queued(r)
           /\ \A x \in Fds : asker'[x] = r <=> asker[x] = r
    <3>1. NoReader \notin Readers
      BY NullAssumption
    <3> QED BY <1>3, <1>8, <1>10, <3>1
  <2>2. /\ \A r \in Readers : Queued(r)' => r # q
        /\ asker'[d] = q /\ reader[q] = "waits"
    BY <1>3, <1>4, <1>8 DEF IndInv, Waiting
  <2>3. \A r \in Readers :
           reader'[r] = "waits" <=> Queued(r)' \/ \E x \in Fds : asker'[x] = r
    BY <1>2, <2>1, <2>2 DEF IndInv, Waiting
  <2>4. \A r \in Readers : Queued(r)' => \A x \in Fds : asker'[x] # r
    BY <2>1, <2>2 DEF IndInv, Waiting
  <2>5. \A x, y \in Fds : asker'[x] = asker'[y] /\ asker'[x] # NoReader => x = y
    BY <1>8, <1>12 DEF IndInv, Waiting
  <2> QED BY <2>3, <2>4, <2>5 DEF Waiting
<1>16. BufOrder'
  <2> SUFFICES ASSUME NEW r \in Readers, NEW s \in ahead[r],
                      NEW i \in DOMAIN buf', NEW j \in DOMAIN buf',
                      buf'[i].fd # NoFd, asker'[buf'[i].fd] = r,
                      buf'[j].fd # NoFd, asker'[buf'[j].fd] = s
               PROVE  j < i
    BY <1>2 DEF BufOrder
  <2>1. s \in Readers /\ s # r
    BY DEF IndInv, TypeOK, AheadWaits
  <2>2. \A h \in DOMAIN buf : buf[h].fd # NoFd => asker'[buf[h].fd] = asker[buf[h].fd]
    BY <1>8, <1>11, BufTypes DEF IndInv
  <2>3. CASE i \in DOMAIN buf /\ j \in DOMAIN buf
    BY <1>5, <2>2, <2>3 DEF IndInv, BufOrder
  <2>4. CASE i = k
    <3>1. r = q /\ j # k
      BY <1>5, <1>6, <1>8, <2>1, <2>4
    <3> QED BY <1>5, <2>4, <3>1
  <2>5. CASE j = k /\ i \in DOMAIN buf
    <3>1. s = q /\ asker[buf[i].fd] = r /\ buf[i].fd \in Fds
      BY <1>5, <1>6, <1>8, <2>2, <2>5, BufTypes DEF IndInv
    <3>2. Queued(r)
      BY <1>3, <3>1 DEF IndInv, QueueOrder
    <3> QED BY <3>1, <3>2 DEF IndInv, Waiting
  <2> QED BY <1>5, <2>3, <2>4, <2>5
<1>17. BatchOrder'
  <2>1. \A i \in DOMAIN batch : asker'[batch[i]] = asker[batch[i]]
    BY <1>8, <1>11, BufTypes DEF IndInv
  <2> QED BY <1>2, <2>1 DEF IndInv, BatchOrder
<1>18. AheadWaits' /\ OnlyTheKernelLetsThrough'
  BY <1>2 DEF IndInv, AheadWaits, OnlyTheKernelLetsThrough
<1> QED BY <1>9, <1>13, <1>14, <1>15, <1>16, <1>17, <1>18 DEF IndInv

(* What was read is parsed; what parse_events drops is lost. *)
LEMMA ReadReturnsOK ==
    ASSUME IndInv, ReadReturns
    PROVE  IndInv'
<1>1. /\ Deliver /\ buf # <<>> /\ loop = "read"
      /\ UNCHANGED <<queue, asker, reader, ahead, open, flooded>>
  BY DEF ReadReturns, kernel
<1>2. /\ FdsOK' /\ BufOrder' /\ BatchOrder'
      /\ batch' \in Seq(Fds) /\ lost' \subseteq Fds
      /\ buf' = <<>> /\ loop' = "handle"
  BY <1>1, DeliverKeeps
<1>3. QueueOK' /\ QueueOrder'
  BY <1>1, QueueUntouched
<1>4. TypeOK'
  <2>1. Len(buf') <= MaxBatch /\ buf' \in Seq([fd : Fds \cup {NoFd}, kind : Kinds])
    BY <1>2, LimitAssumption
  <2> QED BY <1>1, <1>2, <2>1 DEF IndInv, TypeOK
<1>5. Waiting'
  BY <1>1 DEF IndInv, Waiting, Queued, Listed
<1>6. AheadWaits' /\ OnlyTheKernelLetsThrough'
  BY <1>1, <1>2 DEF IndInv, AheadWaits, OnlyTheKernelLetsThrough
<1> QED BY <1>2, <1>3, <1>4, <1>5, <1>6 DEF IndInv

(* No descriptor is left for the event, and its reader is denied. *)
LEMMA ReadRunsOutOK ==
    ASSUME IndInv, ReadRunsOut
    PROVE  IndInv'
<1> DEFINE q == Head(queue).reader
<1>1. /\ queue # <<>> /\ queue' = Tail(queue) /\ loop = "read"
      /\ reader' = [reader EXCEPT ![q] = "denied"] /\ Leaves(q)
      /\ Head(queue).kind # "overflow"
      /\ UNCHANGED <<asker, open, flooded>>
      /\ \/ buf = <<>> /\ UNCHANGED <<buf, batch, loop, lost>>
         \/ buf # <<>> /\ Deliver
  BY DEF ReadRunsOut, Reading
<1>2. /\ queue' \in Seq(Event) /\ Len(queue') = Len(queue) - 1 /\ Thins(queue, queue')
      /\ Head(queue) \in Event /\ Queued(q)
      /\ \A r \in Readers : Queued(r)' <=> Queued(r) /\ r # q
  BY <1>1, HeadLeaves
<1>3. q \in Readers
  <2>1. 1 \in DOMAIN queue /\ Head(queue) = queue[1]
    BY <1>1, Types, TailThins DEF IndInv
  <2>2. q # NoReader
    BY <1>1, <2>1 DEF IndInv, QueueOK
  <2> QED BY <1>2, <2>2 DEF Event
<1> HIDE DEF q
<1>4. /\ reader \in [Readers -> States] /\ reader' \in [Readers -> States]
      /\ reader'[q] = "denied" /\ \A r \in Readers : r # q => reader'[r] = reader[r]
  BY <1>1, <1>3 DEF IndInv, TypeOK, States
<1>5. /\ ahead' \in [Readers -> SUBSET Readers] /\ AheadWaits'
      /\ \A r \in Readers : /\ ahead'[r] \subseteq ahead[r]
                            /\ q \notin ahead'[r]
                            /\ r = q => ahead'[r] = {}
  BY <1>1, <1>4, LeavesAhead DEF IndInv
<1>6. /\ FdsOK' /\ BufOrder' /\ BatchOrder'
      /\ batch' \in Seq(Fds) /\ lost' \subseteq Fds
      /\ buf' = <<>> /\ loop' \in {"read", "handle"}
      /\ loop' # "handle" => batch' = <<>>
  <2>1. CASE buf = <<>> /\ UNCHANGED <<buf, batch, loop, lost>>
    BY <1>1, <1>5, <2>1, BufferUntouched DEF IndInv, TypeOK
  <2>2. CASE buf # <<>> /\ Deliver
    BY <1>1, <1>5, <2>2, DeliverKeeps
  <2> QED BY <1>1, <2>1, <2>2
<1>7. QueueOK' /\ QueueOrder' /\ Len(queue') <= MaxQueue
  <2>1. \A r \in Readers : \A s \in ahead'[r] : Queued(s)' => Queued(r)'
    BY <1>2, <1>5 DEF IndInv, QueueOrder, TypeOK
  <2> QED BY <1>2, <1>5, <2>1, QueueThins DEF IndInv
<1>8. TypeOK'
  <2>1. Len(buf') <= MaxBatch /\ buf' \in Seq([fd : Fds \cup {NoFd}, kind : Kinds])
    BY <1>6, LimitAssumption
  <2>2. Len(queue') <= MaxQueue + 1
    BY <1>2, <1>7, Types DEF IndInv
  <2> QED BY <1>1, <1>2, <1>4, <1>5, <1>6, <2>1, <2>2 DEF IndInv, TypeOK, Event, States
<1>9. Waiting'
  <2>1. \A d \in Fds : asker[d] # q
    BY <1>2, <1>3 DEF IndInv, Waiting
  <2> QED BY <1>1, <1>2, <1>3, <1>4, <2>1 DEF IndInv, Waiting
<1>10. OnlyTheKernelLetsThrough'
  BY <1>1, <1>4, <1>6 DEF IndInv, OnlyTheKernelLetsThrough
<1> QED BY <1>5, <1>6, <1>7, <1>8, <1>9, <1>10 DEF IndInv

-----------------------------------------------------------------------------
(* The batch. *)

(* Nobody is ahead of the first in the batch but those whose events are    *)
(* lost.                                                                   *)
LEMMA FirstInBatch ==
    ASSUME IndInv, Handling, NEW r \in Readers, NEW s \in ahead[r],
           asker[Head(batch)] = r
    PROVE  IsLost(s)
<1>1. /\ 1 \in DOMAIN batch /\ Head(batch) = batch[1] /\ Head(batch) \in Fds
      /\ DOMAIN batch = 1..Len(batch) /\ Len(batch) \in Nat
  BY Types, TailThins DEF Handling, IndInv
<1>2. s \in Readers /\ reader[s] = "waits"
  BY DEF IndInv, TypeOK, AheadWaits
<1>3. ~Queued(s)
  <2>1. ~Queued(r)
    BY <1>1 DEF IndInv, Waiting
  <2> QED BY <2>1 DEF IndInv, QueueOrder
<1>4. PICK d \in Fds : asker[d] = s
  BY <1>2, <1>3 DEF IndInv, Waiting
<1>5. d \in InHand \cup lost
  BY <1>2, <1>4, NullAssumption DEF IndInv, FdsOK, FdsReturned
<1>6. BufFds = {}
  BY DEF Handling, IndInv, TypeOK, BufFds
<1>7. d \notin Listed(batch)
  <2> SUFFICES ASSUME NEW j \in DOMAIN batch, batch[j] = d PROVE FALSE
    BY DEF Listed
  <2>1. j < 1
    BY <1>1, <1>4 DEF IndInv, BatchOrder
  <2> QED BY <1>1, <2>1
<1> QED BY <1>4, <1>5, <1>6, <1>7 DEF InHand, IsLost

(* The first event of the batch is answered and its descriptor closed. *)
LEMMA AnswerOK ==
    ASSUME IndInv, Handling, NEW outcome \in {"bytes", "denied"}, Answer(outcome),
           batch' = Tail(batch), UNCHANGED <<queue, buf, loop, lost, flooded>>
    PROVE  IndInv'
<1> DEFINE d == Head(batch)
           q == asker[d]
<1>1. /\ reader' = [r \in Readers |-> IF r = q THEN outcome ELSE reader[r]]
      /\ asker' = [asker EXCEPT ![d] = NoReader]
      /\ Leaves(q) /\ open' = open \ {d}
      /\ loop = "handle" /\ batch # <<>> /\ buf = <<>>
  BY DEF Answer, Handling, IndInv, TypeOK
<1>2. /\ batch' \in Seq(Fds) /\ Len(batch') = Len(batch) - 1
      /\ Thins(batch, batch')
      /\ 1 \in DOMAIN batch /\ d = batch[1] /\ d \in Fds
      /\ \A i \in DOMAIN batch : i # 1 => \E j \in DOMAIN batch' : batch'[j] = batch[i]
      /\ \A j \in DOMAIN batch' : \E i \in DOMAIN batch : i # 1 /\ batch'[j] = batch[i]
  BY <1>1, Types, TailThins DEF IndInv
<1> HIDE DEF d
<1>3. PICK g \in [DOMAIN batch' -> DOMAIN batch] :
         /\ \A i, j \in DOMAIN batch' : (i < j <=> g[i] < g[j]) /\ (g[i] = g[j] => i = j)
         /\ \A i \in DOMAIN batch' : batch'[i] = batch[g[i]]
  BY <1>2 DEF Thins
<1>4. /\ asker \in [Fds -> Readers \cup {NoReader}]
      /\ asker' \in [Fds -> Readers \cup {NoReader}]
      /\ asker'[d] = NoReader /\ \A x \in Fds : x # d => asker'[x] = asker[x]
      /\ NoReader \notin Readers
  BY <1>1, <1>2, NullAssumption DEF IndInv, TypeOK
<1> HIDE DEF q
<1>5. /\ reader \in [Readers -> States] /\ reader' \in [Readers -> States]
      /\ \A r \in Readers : /\ r = q => reader'[r] = outcome
                            /\ r # q => reader'[r] = reader[r]
  BY <1>1 DEF IndInv, TypeOK, States
<1>6. /\ ahead' \in [Readers -> SUBSET Readers] /\ AheadWaits'
      /\ \A r \in Readers : /\ ahead'[r] \subseteq ahead[r]
                            /\ q \notin ahead'[r]
                            /\ r = q => ahead'[r] = {}
  BY <1>1, <1>5, LeavesAhead DEF IndInv
<1>7. QueueOK' /\ QueueOrder'
  BY <1>6, QueueUntouched
<1>8. TypeOK'
  <2>1. open' \subseteq Fds
    BY <1>1 DEF IndInv, TypeOK
  <2> QED BY <1>1, <1>2, <1>4, <1>5, <1>6, <2>1 DEF IndInv, TypeOK, States
<1>9. Listed(batch') = Listed(batch) \ {d} /\ d \in Listed(batch)
  <2>1. \A i \in DOMAIN batch : i # 1 => batch[i] # d
    BY <1>2 DEF IndInv, FdsOK
  <2>2. Listed(batch') \subseteq Listed(batch) \ {d}
    BY <1>2, <2>1 DEF Listed
  <2>3. Listed(batch) \ {d} \subseteq Listed(batch')
    BY <1>2 DEF Listed
  <2>4. d \in Listed(batch)
    BY <1>2 DEF Listed
  <2> QED BY <2>2, <2>3, <2>4
<1>10. FdsOK'
  <2>1. BufFds = {} /\ BufFds' = {}
    BY <1>1 DEF BufFds
  <2>2. InHand' = InHand \ {d} /\ d \in InHand
    BY <1>9, <2>1 DEF InHand, Listed
  <2>3. open' = InHand' \cup lost' /\ InHand' \cap lost' = {}
    BY <1>1, <2>2 DEF IndInv, FdsOK, FdsReturned
  <2>4. \A x \in Fds : asker'[x] # NoReader => x \in open'
    BY <1>1, <1>4 DEF IndInv, FdsOK, FdsReturned
  <2>5. FdsReturned'
    BY <2>3, <2>4 DEF FdsReturned
  <2>6. \A i, j \in DOMAIN batch' : batch'[i] = batch'[j] => i = j
    BY <1>3 DEF IndInv, FdsOK
  <2> QED BY <1>1, <2>5, <2>6 DEF IndInv, FdsOK
<1>11. Waiting'
  <2>1. \A r \in Readers : r # q => \A x \in Fds : asker'[x] = r <=> asker[x] = r
    BY <1>4 DEF q
  <2>2. q \in Readers => ~Queued(q)
    BY <1>2 DEF IndInv, Waiting, q
  <2>3. q \in Readers => \A x \in Fds : asker'[x] # q
    BY <1>2, <1>4 DEF IndInv, Waiting, q
  <2>4. \A r : Queued(r)' <=> Queued(r)
    BY DEF Queued, Listed
  <2>5. \A r \in Readers :
           reader'[r] = "waits" <=> Queued(r)' \/ \E x \in Fds : asker'[x] = r
    BY <1>5, <2>1, <2>2, <2>3, <2>4 DEF IndInv, Waiting
  <2>6. \A r \in Readers : Queued(r)' => \A x \in Fds : asker'[x] # r
    BY <2>1, <2>2, <2>4 DEF IndInv, Waiting
  <2>7. \A x, y \in Fds : asker'[x] = asker'[y] /\ asker'[x] # NoReader => x = y
    BY <1>4 DEF IndInv, Waiting
  <2> QED BY <2>5, <2>6, <2>7 DEF Waiting
<1>12. BufOrder'
  BY <1>1 DEF BufOrder
<1>13. BatchOrder'
  <2> SUFFICES ASSUME NEW r \in Readers, NEW s \in ahead'[r],
                      NEW i \in DOMAIN batch', NEW j \in DOMAIN batch',
                      asker'[batch'[i]] = r, asker'[batch'[j]] = s
               PROVE  j < i
    BY DEF BatchOrder
  <2>1. s \in ahead[r] /\ s \in Readers
    BY <1>6
  <2>2. asker[batch[g[i]]] = r /\ asker[batch[g[j]]] = s
    BY <1>3, <1>4, <2>1, BufTypes DEF IndInv
  <2>3. g[j] < g[i]
    BY <2>1, <2>2 DEF IndInv, BatchOrder
  <2> QED BY <1>3, <2>3
<1>14. OnlyTheKernelLetsThrough'
  BY <1>5 DEF IndInv, OnlyTheKernelLetsThrough
<1> QED BY <1>6, <1>7, <1>8, <1>10, <1>11, <1>12, <1>13, <1>14 DEF IndInv

(* The batch is done. *)
LEMMA ReadAgainOK ==
    ASSUME IndInv, ReadAgain
    PROVE  IndInv'
<1>1. /\ loop' = "read" /\ loop = "handle"
      /\ UNCHANGED <<queue, asker, reader, ahead, open, buf, batch, lost, flooded>>
      /\ batch = <<>>
  BY DEF ReadAgain, kernel
<1>2. QueueOK' /\ QueueOrder' /\ FdsOK' /\ BufOrder' /\ BatchOrder'
  BY <1>1, QueueUntouched, BufferUntouched
<1>3. TypeOK' /\ AheadWaits' /\ OnlyTheKernelLetsThrough'
  BY <1>1 DEF IndInv, TypeOK, AheadWaits, OnlyTheKernelLetsThrough
<1>4. Waiting'
  BY <1>1 DEF IndInv, Waiting, Queued, Listed
<1> QED BY <1>2, <1>3, <1>4 DEF IndInv

-----------------------------------------------------------------------------
(* Every step keeps the invariant. *)
LEMMA NextOK ==
    ASSUME IndInv, [Next]_vars
    PROVE  IndInv'
<1>1. CASE UNCHANGED vars
  <2>1. UNCHANGED <<queue, asker, reader, ahead, open, buf, batch, loop, lost, flooded>>
    BY <1>1 DEF vars, kernel
  <2>2. QueueOK' /\ QueueOrder' /\ FdsOK' /\ BufOrder' /\ BatchOrder'
    BY <2>1, QueueUntouched, BufferUntouched
  <2>3. TypeOK' /\ AheadWaits' /\ OnlyTheKernelLetsThrough'
    BY <2>1 DEF IndInv, TypeOK, AheadWaits, OnlyTheKernelLetsThrough
  <2>4. Waiting'
    BY <2>1 DEF IndInv, Waiting, Queued, Listed
  <2> QED BY <2>2, <2>3, <2>4 DEF IndInv
<1>2. ASSUME NEW r \in Readers, Access(r) PROVE IndInv'
  <2>1. Len(queue) < MaxQueue \/ Len(queue) >= MaxQueue
    BY Types DEF IndInv
  <2> QED BY <1>2, <2>1, AskOK, FloodOK
<1>3. ASSUME NEW r \in Readers, AccessUnwatched(r) \/ Return(r) PROVE IndInv'
  <2>1. reader[r] # "waits"
    BY <1>3 DEF AccessUnwatched, Return
  <2>2. CASE AccessUnwatched(r)
    BY <2>1, <2>2, ReaderStep DEF AccessUnwatched, States
  <2>3. CASE Return(r)
    BY <2>1, <2>3, ReaderStep DEF Return, States
  <2> QED BY <1>3, <2>2, <2>3
<1>4. CASE EventLoop
  <2>1. CASE ReadEvent
    BY <2>1, ReadOverflowOK, ReadAccessOK
  <2>2. CASE Allow
    BY <2>2, AnswerOK DEF Allow, Rest
  <2>3. CASE Deny
    BY <2>3, AnswerOK DEF Deny, Rest
  <2> QED BY <1>4, <2>1, <2>2, <2>3, ReadReturnsOK, ReadRunsOutOK, ReadAgainOK
          DEF EventLoop
<1> QED BY <1>1, <1>2, <1>3, <1>4, KilledOK, LazydDiesOK DEF Next

(* The invariant that the others follow from. *)
THEOREM Invariance == Spec => []IndInv
<1>1. Init => IndInv
  BY InitOK
<1>2. IndInv /\ [Next]_vars => IndInv'
  BY NextOK
<1> QED BY <1>1, <1>2, PTL DEF Spec

(* What was read is handled before the next read (run_event_loop). *)
THEOREM TypeCorrect == Spec => []TypeOK
<1>1. IndInv => TypeOK
  BY DEF IndInv
<1> QED BY <1>1, Invariance, PTL

(* The loop has every event that a reader waits for before it, except      *)
(* those at or behind a short event (parse_events).                        *)
THEOREM NoEventForgotten == Spec => []NoneForgotten
<1>1. IndInv => NoneForgotten
  <2> SUFFICES ASSUME IndInv, NEW r \in Readers, reader[r] = "waits"
               PROVE  \/ Queued(r) /\ \A d \in Fds : asker[d] # r
                      \/ /\ ~Queued(r)
                         /\ \E d \in InHand \cup lost : \A e \in Fds : asker[e] = r <=> e = d
    BY DEF NoneForgotten
  <2>1. CASE Queued(r)
    BY <2>1 DEF IndInv, Waiting
  <2>2. CASE ~Queued(r)
    <3>1. PICK d \in Fds : asker[d] = r
      BY <2>2 DEF IndInv, Waiting
    <3>2. d \in InHand \cup lost
      BY <3>1, NullAssumption DEF IndInv, FdsOK, FdsReturned
    <3>3. \A e \in Fds : asker[e] = r <=> e = d
      BY <3>1, NullAssumption DEF IndInv, Waiting
    <3> QED BY <2>2, <3>2, <3>3
  <2> QED BY <2>1, <2>2
<1> QED BY <1>1, Invariance, PTL

(* Descriptors are closed once their events are answered, whatever the     *)
(* answer (close_event_fd).                                                *)
THEOREM FdsAreReturned == Spec => []FdsReturned
<1>1. IndInv => FdsReturned
  BY DEF IndInv, FdsOK
<1> QED BY <1>1, Invariance, PTL

(* The loop lets no reader through to a hole (run_event_loop). *)
THEOREM NoneLetThrough == Spec => []OnlyTheKernelLetsThrough
<1>1. IndInv => OnlyTheKernelLetsThrough
  BY DEF IndInv
<1> QED BY <1>1, Invariance, PTL

(* Readers are answered in the order in which they asked, as far as their  *)
(* events are not lost (parse_events, run_event_loop).                     *)
THEOREM OrderIsKept == Spec => AnsweredInOrder
<1> DEFINE Step == loop = "handle" /\ batch' # batch /\ loop' # "dead" =>
                       \A r \in Readers : reader'[r] # reader[r] =>
                           \A s \in ahead[r] : IsLost(s)
<1>1. ASSUME IndInv, [Next]_vars PROVE [Step]_vars
  <2> SUFFICES ASSUME loop = "handle", batch' # batch, loop' # "dead",
                      NEW r \in Readers, reader'[r] # reader[r], NEW s \in ahead[r]
               PROVE  IsLost(s)
    OBVIOUS
  <2>1. Allow \/ Deny
    BY <1>1 DEF Next, vars, kernel, Access, AccessUnwatched, Return, Killed, EventLoop,
                ReadEvent, Reading, ReadReturns, ReadRunsOut, ReadAgain, LazydDies
  <2>2. Handling /\ \E outcome \in {"bytes", "denied"} : Answer(outcome)
    BY <2>1 DEF Allow, Deny
  <2>3. asker[Head(batch)] = r
    BY <2>2 DEF Answer, IndInv, TypeOK
  <2> QED BY <1>1, <2>2, <2>3, FirstInBatch
<1>2. IndInv /\ [Next]_vars => [Step]_vars
  BY <1>1
<1> QED BY <1>2, Invariance, PTL DEF Spec, AnsweredInOrder
=============================================================================
