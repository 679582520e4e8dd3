--------------------- MODULE LazyDaemonLifecycleProofs ---------------------
(***************************************************************************)
(* Proofs about LazyDaemonLifecycle, for any number of layers and of starts*)
(* of the server.                                                          *)
(***************************************************************************)
EXTENDS LazyDaemonLifecycle, FiniteSetTheorems, TLAPS

Started(p) == p \in Pids /\ proc[p] # "unused"

(* The requests that are waited for are those of the handlers of the server*)
(* that runs, one per id.                                                  *)
WireOK ==
    /\ \A r \in wire : r.awaited => call[r.id] = r.op
    /\ \A r, s \in wire : r.awaited /\ s.awaited /\ r.id = s.id => r = s

(* An id that a handler works on is not committed. *)
CallsOK == \A i \in Ids : call[i] # "none" => i \notin bound

(* A layer that is committed, or about to be, is where it was registered,  *)
(* unless a DELETE that nobody waited for came there since.                *)
HomesOK ==
    \A i \in Ids : i \in bound \/ call[i] = "commit" =>
        /\ Started(home[i])
        /\ i \notin late /\ Alive(home[i]) => i \in holds[home[i]]

(* Only a process that came to listen has a registry with something in it. *)
FreshOK == \A p \in Pids : proc[p] \notin {"listening", "deaf"} => holds[p] = {}

(* Without a kill, the child is the only process. *)
ChildAlone == ~killed => \A p \in Pids : Alive(p) => p = child

IndInv == TypeOK /\ WireOK /\ CallsOK /\ HomesOK /\ FreshOK /\ ChildAlone

-----------------------------------------------------------------------------
(* Nothing runs at the start. *)
LEMMA InitIndInv == Init => IndInv
<1> SUFFICES ASSUME Init PROVE IndInv
  OBVIOUS
<1>1. TypeOK
  BY DEF Init, TypeOK, Requests
<1>2. WireOK /\ CallsOK /\ FreshOK
  BY DEF Init, WireOK, CallsOK, FreshOK
<1>3. HomesOK
  BY DEF Init, HomesOK
<1>4. ChildAlone
  BY DEF Init, ChildAlone, Alive
<1> QED
  BY <1>1, <1>2, <1>3, <1>4 DEF IndInv

(* Ready, Timeout and Close change nothing but what the server does. *)
LEMMA QuietStep ==
    ASSUME IndInv, server # "down", server' \in {"waiting", "up", "stopping"},
           UNCHANGED <<lazyd, child, killed, handlers>>
    PROVE  IndInv'
<1> USE DEF lazyd, handlers
<1>1. TypeOK'
  BY DEF IndInv, TypeOK
<1>2. WireOK' /\ CallsOK' /\ FreshOK'
  BY DEF IndInv, WireOK, CallsOK, FreshOK
<1>3. HomesOK'
  BY DEF IndInv, HomesOK, Started, Alive
<1>4. ChildAlone'
  BY DEF IndInv, ChildAlone, Alive
<1> QED
  BY <1>1, <1>2, <1>3, <1>4 DEF IndInv

(* A process that starts is the home of no layer: its pid was not used. *)
LEMMA StartStep ==
    ASSUME IndInv, NEW p \in Pids, Start(p)
    PROVE  IndInv'
<1> USE DEF Start, handlers
<1>1. TypeOK'
  BY DEF IndInv, TypeOK, Pids, Nobody
<1>2. \A q : Started(q) => q # p /\ Started(q)'
  BY DEF IndInv, TypeOK, Started
<1>3. WireOK' /\ CallsOK' /\ FreshOK'
  BY DEF IndInv, TypeOK, WireOK, CallsOK, FreshOK
<1>5. HomesOK'
  BY <1>2 DEF IndInv, TypeOK, HomesOK, Alive, Started
<1>6. ChildAlone'
  <2>1. child = Nobody /\ Nobody \notin Pids
    BY DEF IndInv, TypeOK, Pids, Nobody
  <2>2. ~killed => \A q \in Pids : ~Alive(q)
    BY <2>1 DEF IndInv, ChildAlone
  <2> QED
    BY <2>2 DEF IndInv, TypeOK, ChildAlone, Alive
<1> QED
  BY <1>1, <1>3, <1>5, <1>6 DEF IndInv

(* A process that is dead has no registry, and guards nothing. *)
LEMMA DeadStep ==
    ASSUME IndInv, NEW p \in Pids, Alive(p), Dead(p),
           UNCHANGED <<server, child, killed, handlers>>
    PROVE  IndInv'
<1> USE DEF Dead, handlers
<1>1. TypeOK'
  BY DEF IndInv, TypeOK
<1>2. \A q : Started(q) => Started(q)'
  BY DEF IndInv, TypeOK, Started
<1>3. WireOK' /\ CallsOK' /\ FreshOK'
  BY DEF IndInv, TypeOK, WireOK, CallsOK, FreshOK
<1>5. HomesOK'
  BY <1>2 DEF IndInv, TypeOK, HomesOK, Alive, Started
<1>6. ChildAlone'
  BY DEF IndInv, TypeOK, ChildAlone, Alive
<1> QED
  BY <1>1, <1>3, <1>5, <1>6 DEF IndInv

(* A request is no other request for being given up. *)
LEMMA ForsakenRequest ==
    ASSUME NEW r \in Requests
    PROVE  /\ Forsaken(r) \in Requests
           /\ Forsaken(r).op = r.op /\ Forsaken(r).id = r.id /\ Forsaken(r).to = r.to
           /\ Forsaken(r).awaited = FALSE
  BY DEF Forsaken, Requests

(* A server that ends has no handlers, and nobody waits for what they sent.*)
LEMMA ExitForgets ==
    ASSUME IndInv, Exit
    PROVE  wire' \subseteq Requests /\ WireOK' /\ CallsOK'
<1>1. ASSUME NEW r \in wire' PROVE r \in Requests /\ ~r.awaited
  <2>1. PICK s \in wire : r = Forsaken(s)
    BY DEF Exit
  <2> QED
    BY <2>1, ForsakenRequest DEF IndInv, TypeOK
<1>2. CallsOK'
  BY DEF Exit, CallsOK
<1> QED
  BY <1>1, <1>2 DEF WireOK

(* A server that is killed leaves its lazyd. *)
LEMMA KilledStep ==
    ASSUME IndInv, ServerKilled
    PROVE  IndInv'
<1> USE DEF ServerKilled, Exit, lazyd
<1>1. TypeOK'
  BY ExitForgets DEF IndInv, TypeOK
<1>2. WireOK' /\ CallsOK' /\ FreshOK'
  BY ExitForgets DEF IndInv, FreshOK
<1>3. HomesOK'
  BY DEF IndInv, HomesOK, Started, Alive
<1>4. ChildAlone'
  BY DEF ChildAlone
<1> QED
  BY <1>1, <1>2, <1>3, <1>4 DEF IndInv

(* A server that stops takes its lazyd with it. *)
LEMMA StoppedStep ==
    ASSUME IndInv, Stopped
    PROVE  IndInv'
<1> USE DEF Stopped, Exit, Dead
<1>0. child \in Pids
  BY DEF IndInv, TypeOK
<1>1. TypeOK'
  BY <1>0, ExitForgets DEF IndInv, TypeOK
<1>2. \A q : Started(q) => Started(q)'
  BY <1>0 DEF IndInv, TypeOK, Started
<1>3. WireOK' /\ CallsOK'
  BY ExitForgets
<1>4. FreshOK'
  BY <1>0 DEF IndInv, TypeOK, FreshOK
<1>5. HomesOK'
  BY <1>0, <1>2 DEF IndInv, TypeOK, HomesOK, Alive, Started
<1>6. ChildAlone'
  BY <1>0 DEF IndInv, TypeOK, ChildAlone, Alive
<1> QED
  BY <1>1, <1>3, <1>4, <1>5, <1>6 DEF IndInv

-----------------------------------------------------------------------------
(* Up to the accept loop and out of it: the process stays alive, and what  *)
(* it holds does not change.                                               *)
LEMMA ServeStep ==
    ASSUME IndInv, NEW p \in Pids,
           FindSocket(p) \/ RemoveSocket(p) \/ Bind(p) \/ ServeFails(p)
    PROVE  IndInv'
<1>1. /\ Alive(p) /\ Alive(p)'
      /\ \A q \in Pids : q # p => proc'[q] = proc[q]
      /\ UNCHANGED <<holds, server, child, killed, handlers>>
  BY DEF FindSocket, RemoveSocket, Bind, ServeFails, Step, IndInv, TypeOK, Alive
<1>2. TypeOK'
  BY <1>1 DEF FindSocket, RemoveSocket, Bind, ServeFails, Step, IndInv, TypeOK,
              handlers, Nobody
<1>3. \A q \in Pids : (Started(q) => Started(q)') /\ Alive(q)' = Alive(q)
  BY <1>1 DEF IndInv, TypeOK, Started, Alive
<1>4. WireOK' /\ CallsOK'
  BY <1>1 DEF IndInv, WireOK, CallsOK, handlers
<1>5. HomesOK'
  BY <1>1, <1>3 DEF IndInv, HomesOK, handlers, Started
<1>6. FreshOK'
  BY <1>1 DEF FindSocket, RemoveSocket, Bind, ServeFails, Step, IndInv, TypeOK, FreshOK
<1>7. ChildAlone'
  BY <1>1, <1>3 DEF IndInv, ChildAlone
<1> QED
  BY <1>2, <1>4, <1>5, <1>6, <1>7 DEF IndInv

-----------------------------------------------------------------------------
(* What a handler sends goes to the process that has the path, if any. *)
LEMMA SendStep ==
    ASSUME IndInv, NEW i \in Ids, NEW op \in {"put", "delete"},
           Send(i, op),
           bound' = bound \ {i},
           call[i] \in {"none", "commit"},
           UNCHANGED <<lazyd, server, child, killed, home, late>>
    PROVE  IndInv'
<1> USE DEF lazyd
<1> DEFINE r == [op |-> op, id |-> i, to |-> socket, awaited |-> TRUE]
<1>0. Answers(socket) => r \in Requests
  BY DEF Requests, Answers
<1>1. TypeOK'
  <2>1. wire' \subseteq Requests
    BY <1>0 DEF Send, IndInv, TypeOK
  <2>2. call' \in [Ids -> {"none", "put", "commit", "delete", "ended"}]
    BY DEF Send, IndInv, TypeOK
  <2> QED
    BY <2>1, <2>2 DEF IndInv, TypeOK
<1>2. /\ call'[i] \in {"none", op}
      /\ \A j \in Ids : j # i => call'[j] = call[j]
  BY DEF Send, IndInv, TypeOK
<1>3. \A s \in wire : s.awaited => s.id # i
  BY DEF IndInv, WireOK, TypeOK, Requests
<1>4. WireOK'
  <2>1. wire' = wire \/ (wire' = wire \cup {r} /\ call'[i] = op)
    BY DEF Send, IndInv, TypeOK
  <2>2. \A s \in wire' : s.awaited => call'[s.id] = s.op
    BY <1>2, <1>3, <2>1 DEF IndInv, TypeOK, WireOK, Requests
  <2>3. \A s, t \in wire' : s.awaited /\ t.awaited /\ s.id = t.id => s = t
    <3>1. ASSUME NEW s \in wire', s.awaited PROVE (s \in wire /\ s.id # i) \/ s = r
      BY <1>3, <2>1, <3>1
    <3>2. \A s, t \in wire : s.awaited /\ t.awaited /\ s.id = t.id => s = t
      BY DEF IndInv, WireOK
    <3>3. r.id = i
      OBVIOUS
    <3> HIDE DEF r
    <3> QED
      BY <3>1, <3>2, <3>3
  <2> QED
    BY <2>2, <2>3 DEF WireOK
<1>5. CallsOK' /\ FreshOK'
  BY <1>2 DEF IndInv, CallsOK, FreshOK
<1>6. HomesOK'
  BY <1>2 DEF IndInv, HomesOK, Started, Alive
<1>7. ChildAlone'
  BY DEF IndInv, ChildAlone, Alive
<1> QED
  BY <1>1, <1>4, <1>5, <1>6, <1>7 DEF IndInv

(* The call of a request ends when it is answered; the others go on. *)
LEMMA WireLoses ==
    ASSUME IndInv, NEW q \in wire, wire' = wire \ {q},
           \A i \in Ids : call'[i] # call[i] => q.awaited /\ i = q.id
    PROVE  WireOK'
<1>1. \A s \in wire' : s.awaited => call'[s.id] = s.op
  BY DEF IndInv, TypeOK, WireOK, Requests
<1> QED
  BY <1>1 DEF IndInv, WireOK

(* A call that ends, one way or another, without a layer to commit. *)
LEMMA CallEnds ==
    ASSUME IndInv, NEW i \in Ids, call'[i] \notin {"put", "commit", "delete"},
           call' = [call EXCEPT ![i] = call'[i]], bound' = bound \ {i},
           UNCHANGED <<lazyd, server, child, killed, home, late>>
    PROVE  CallsOK' /\ HomesOK' /\ FreshOK' /\ ChildAlone'
<1> USE DEF lazyd
<1>1. \A j \in Ids : j # i => call'[j] = call[j]
  BY DEF IndInv, TypeOK
<1>2. CallsOK' /\ FreshOK'
  BY <1>1 DEF IndInv, CallsOK, FreshOK
<1>3. HomesOK'
  BY <1>1 DEF IndInv, HomesOK, Started, Alive
<1>4. ChildAlone'
  BY DEF IndInv, ChildAlone, Alive
<1> QED
  BY <1>2, <1>3, <1>4

(* A request that lazyd handles: it does what a handler waits for, or what *)
(* one had sent that waits no more; a DELETE of the latter kind is marked  *)
(* as late if it may revoke what was registered since.                     *)
LEMMA HandleStep ==
    ASSUME IndInv, NEW r \in wire, Handle(r)
    PROVE  IndInv'
<1>1. /\ r.op \in {"put", "delete"} /\ r.id \in Ids /\ r.to \in Pids
      /\ proc[r.to] = "listening"
      /\ UNCHANGED <<proc, socket, server, child, killed, bound>>
  BY DEF IndInv, TypeOK, Requests, Handle
<1>2. /\ holds'[r.to] = IF r.op = "put" THEN holds[r.to] \cup {r.id}
                                        ELSE holds[r.to] \ {r.id}
      /\ \A p \in Pids : p # r.to => holds'[p] = holds[p]
  BY <1>1 DEF Handle, IndInv, TypeOK
<1>3. TypeOK'
  BY <1>1 DEF Handle, IndInv, TypeOK
<1>4. \A i \in Ids : call'[i] # call[i] => r.awaited /\ i = r.id
  BY DEF Handle, IndInv, TypeOK
<1>5. WireOK'
  BY <1>1, <1>4, WireLoses DEF Handle
<1>6. r.awaited => r.id \notin bound /\ call[r.id] = r.op
  BY <1>1 DEF IndInv, WireOK, CallsOK
<1>7. CallsOK'
  BY <1>1, <1>4, <1>6 DEF IndInv, CallsOK
<1>8. FreshOK'
  BY <1>1, <1>2 DEF IndInv, FreshOK
<1>9. HomesOK'
  <2> SUFFICES ASSUME NEW i \in Ids, i \in bound' \/ call'[i] = "commit"
               PROVE  /\ Started(home[i])'
                      /\ i \notin late' /\ Alive(home[i])' => i \in holds'[home'[i]]
    BY DEF HomesOK
  <2>1. CASE i # r.id
    <3>1. /\ home'[i] = home[i] /\ (i \in late' <=> i \in late)
          /\ i \in bound \/ call[i] = "commit"
      BY <1>1, <1>4, <2>1 DEF Handle, IndInv, TypeOK
    <3> QED
      BY <1>1, <1>2, <2>1, <3>1 DEF IndInv, HomesOK, Started, Alive
  <2>2. CASE i = r.id /\ r.awaited
    <3>1. home'[i] = r.to /\ r.op = "put"
      BY <1>1, <1>6, <2>2 DEF Handle, IndInv, TypeOK
    <3> QED
      BY <1>1, <1>2, <2>2, <3>1 DEF Started
  <2>3. CASE i = r.id /\ ~r.awaited
    <3>1. /\ UNCHANGED <<call, home>>
          /\ late' = IF r.op = "delete" /\ r.to = home[i] THEN late \cup {i} ELSE late
      BY <2>3 DEF Handle
    <3>2. Started(home[i]) /\ (i \notin late /\ Alive(home[i]) => i \in holds[home[i]])
      BY <1>1, <3>1 DEF IndInv, HomesOK
    <3>3. i \notin late' => i \notin late /\ (r.op = "put" \/ r.to # home[i])
      BY <1>1, <3>1
    <3>4. i \notin late' /\ i \in holds[home[i]] => i \in holds'[home[i]]
      BY <1>2, <3>2, <3>3 DEF Started
    <3> QED
      BY <1>1, <3>1, <3>2, <3>3, <3>4 DEF Started, Alive
  <2> QED
    BY <2>1, <2>2, <2>3
<1>10. ChildAlone'
  BY <1>1 DEF IndInv, ChildAlone, Alive
<1> QED
  BY <1>3, <1>5, <1>7, <1>8, <1>9, <1>10 DEF IndInv

(* A request that fails fails its call. *)
LEMMA RefuseStep ==
    ASSUME IndInv, NEW r \in wire, Refuse(r)
    PROVE  IndInv'
<1> USE DEF Refuse, lazyd
<1>1. TypeOK'
  BY DEF IndInv, TypeOK
<1>2. /\ \A i \in Ids : call'[i] # call[i] => r.awaited /\ i = r.id
      /\ \A i \in Ids : call'[i] \in {"none", call[i]}
  BY DEF IndInv, TypeOK
<1>3. WireOK'
  BY <1>2, WireLoses
<1>4. CallsOK' /\ FreshOK'
  BY <1>2 DEF IndInv, CallsOK, FreshOK
<1>5. HomesOK'
  BY <1>2 DEF IndInv, HomesOK, Started, Alive
<1>6. ChildAlone'
  BY DEF IndInv, ChildAlone, Alive
<1> QED
  BY <1>1, <1>3, <1>4, <1>5, <1>6 DEF IndInv

(* A request that is given up is one nobody waits for. *)
LEMMA GiveUpStep ==
    ASSUME IndInv, NEW r \in wire, GiveUp(r)
    PROVE  IndInv'
<1>1. r \in Requests /\ Forsaken(r) \in Requests /\ ~Forsaken(r).awaited
  BY ForsakenRequest DEF IndInv, TypeOK
<1>2. r.id \in Ids /\ r.awaited
  BY <1>1 DEF Requests, GiveUp
<1>3. /\ call' = [call EXCEPT ![r.id] = "none"]
      /\ wire' = (wire \ {r}) \cup {Forsaken(r)}
      /\ UNCHANGED <<lazyd, server, child, killed, bound, home, late>>
  BY DEF GiveUp
<1>4. TypeOK'
  BY <1>1, <1>2, <1>3 DEF IndInv, TypeOK, lazyd
<1>5. call'[r.id] = "none" /\ \A j \in Ids : j # r.id => call'[j] = call[j]
  BY <1>2, <1>3 DEF IndInv, TypeOK
<1>6. \A s \in wire' : s.awaited => s \in wire /\ s.id \in Ids /\ s.id # r.id
  BY <1>1, <1>2, <1>3 DEF IndInv, TypeOK, WireOK, Requests
<1>7. WireOK'
  BY <1>5, <1>6 DEF IndInv, WireOK
<1>8. bound' = bound \ {r.id}
  BY <1>1, <1>2, <1>3 DEF IndInv, WireOK, CallsOK, Requests
<1>9. CallsOK' /\ HomesOK' /\ FreshOK' /\ ChildAlone'
  BY <1>2, <1>3, <1>5, <1>8, CallEnds
<1> QED
  BY <1>4, <1>7, <1>9 DEF IndInv

(* A handler whose context has ended sends nothing. *)
LEMMA EndedStep ==
    ASSUME IndInv, NEW i \in Ids, ContextEnds(i) \/ NeverSent(i)
    PROVE  IndInv'
<1>1. /\ call[i] \in {"none", "commit", "ended"} /\ bound' = bound \ {i}
      /\ call' = [call EXCEPT ![i] = call'[i]] /\ call'[i] \in {"ended", "none"}
      /\ UNCHANGED <<lazyd, server, child, killed, wire, home, late>>
  BY DEF ContextEnds, NeverSent, IndInv, TypeOK, CallsOK
<1>2. TypeOK'
  BY <1>1 DEF ContextEnds, NeverSent, Handling, IndInv, TypeOK, lazyd
<1>3. \A r \in wire : r.awaited => r.id # i
  BY <1>1 DEF IndInv, TypeOK, WireOK, Requests
<1>4. WireOK'
  BY <1>1, <1>3 DEF IndInv, TypeOK, WireOK, Requests
<1>5. CallsOK' /\ HomesOK' /\ FreshOK' /\ ChildAlone'
  BY <1>1, CallEnds
<1> QED
  BY <1>2, <1>4, <1>5 DEF IndInv

(* A commit takes its layer from the handler to the snapshots. *)
LEMMA CommitStep ==
    ASSUME IndInv, NEW i \in Ids, Commit(i)
    PROVE  IndInv'
<1> USE DEF Commit, lazyd
<1>1. TypeOK'
  BY DEF IndInv, TypeOK
<1>2. call'[i] = "none" /\ \A j \in Ids : j # i => call'[j] = call[j]
  BY DEF IndInv, TypeOK
<1>3. \A r \in wire : r.awaited => r.id # i
  BY DEF IndInv, TypeOK, WireOK, Requests
<1>4. WireOK'
  BY <1>2, <1>3 DEF IndInv, TypeOK, WireOK, Requests
<1>5. CallsOK' /\ FreshOK'
  BY <1>2 DEF IndInv, CallsOK, FreshOK
<1>6. HomesOK'
  BY <1>2 DEF IndInv, HomesOK, Started, Alive
<1>7. ChildAlone'
  BY DEF IndInv, ChildAlone, Alive
<1> QED
  BY <1>1, <1>4, <1>5, <1>6, <1>7 DEF IndInv

-----------------------------------------------------------------------------
(* Every step preserves the invariant. *)
LEMMA NextIndInv == IndInv /\ [Next]_vars => IndInv'
<1> SUFFICES ASSUME IndInv, [Next]_vars PROVE IndInv'
  OBVIOUS
<1>1. CASE Ready \/ Timeout \/ Close
  BY <1>1, QuietStep DEF Ready, Timeout, Close
<1>2. CASE Stopped
  BY <1>2, StoppedStep
<1>3. CASE ServerKilled
  BY <1>3, KilledStep
<1>4. ASSUME NEW p \in Pids, LazydStep(p) PROVE IndInv'
  <2>1. CASE Start(p)
    BY <2>1, StartStep
  <2>2. CASE FindSocket(p) \/ RemoveSocket(p) \/ Bind(p) \/ ServeFails(p)
    BY <2>2, ServeStep
  <2>3. CASE LazydDies(p)
    BY <2>3, DeadStep DEF LazydDies
  <2> QED
    BY <1>4, <2>1, <2>2, <2>3 DEF LazydStep
<1>5. ASSUME NEW i \in Ids, BindLayer(i) PROVE IndInv'
  <2>1. bound' = bound \ {i}
    BY <1>5 DEF BindLayer
  <2> QED
    BY <1>5, <2>1, SendStep DEF BindLayer
<1>6. ASSUME NEW i \in Ids, UnbindLayer(i) PROVE IndInv'
  BY <1>6, SendStep DEF UnbindLayer
<1>7. ASSUME NEW i \in Ids, CommitFails(i) PROVE IndInv'
  <2>1. bound' = bound \ {i}
    BY <1>7 DEF CommitFails, IndInv, CallsOK
  <2> QED
    BY <1>7, <2>1, SendStep DEF CommitFails
<1>8. ASSUME NEW i \in Ids, Commit(i) \/ ContextEnds(i) \/ NeverSent(i) PROVE IndInv'
  BY <1>8, CommitStep, EndedStep
<1>9. ASSUME NEW r \in wire, Answer(r) \/ GiveUp(r) PROVE IndInv'
  BY <1>9, HandleStep, RefuseStep, GiveUpStep DEF Answer
<1>10. CASE UNCHANGED vars
  <2>1. UNCHANGED <<proc, socket, holds, server, child, killed, call, wire, bound, home, late>>
    BY <1>10 DEF vars, lazyd, handlers
  <2> QED
    BY <2>1 DEF IndInv, TypeOK, WireOK, CallsOK, HomesOK, FreshOK, ChildAlone,
                Started, Alive
<1> QED
  BY <1>1, <1>2, <1>3, <1>4, <1>5, <1>6, <1>7, <1>8, <1>9, <1>10
     DEF Next, ServerStep, Handler

(* The inductive invariant holds whatever servers and processes come and   *)
(* go (lazyd.go, main.go, control.rs).                                     *)
THEOREM Invariance == Spec => []IndInv
<1> QED
  BY InitIndInv, NextIndInv, PTL DEF Spec

(* A server that runs has its command, one that is down has none, and all  *)
(* states are of their types (lazyd.go:31-90).                             *)
THEOREM TypeCorrect == Spec => []TypeOK
<1>1. IndInv => TypeOK
  BY DEF IndInv
<1> QED
  BY <1>1, Invariance, PTL

(* As long as no server is killed, at most one lazyd is alive, whichever   *)
(* way its start and its end went (lazyd.go:60-134).                       *)
THEOREM AtMostOneDaemon == Spec => []OneDaemon
<1>1. IndInv => OneDaemon
  <2> SUFFICES ASSUME IndInv, ~killed
               PROVE  Cardinality({p \in Pids : Alive(p)}) <= 1
    BY DEF OneDaemon
  <2>1. {p \in Pids : Alive(p)} \subseteq {child}
    BY DEF IndInv, ChildAlone
  <2>2. IsFiniteSet({child}) /\ Cardinality({child}) = 1
    BY FS_Singleton
  <2>3. /\ Cardinality({p \in Pids : Alive(p)}) <= Cardinality({child})
    BY <2>1, <2>2, FS_Subset
  <2> QED
    BY <2>2, <2>3
<1> QED
  BY <1>1, Invariance, PTL

(* A committed lazy layer stays with the process it was registered with as *)
(* long as that process lives, unless a DELETE that nobody waited for came *)
(* there since it was registered (snapshotter.go:118, 205; control.rs:51). *)
THEOREM LayersGuarded == Spec => []Guarded
<1>1. IndInv => Guarded
  BY DEF IndInv, TypeOK, HomesOK, Guarded
<1> QED
  BY <1>1, Invariance, PTL

-----------------------------------------------------------------------------
(* Nothing is left over that was not, except by one of these causes. *)
Causes(i) ==
    \/ Stopped \/ ServerKilled
    \/ call'[i] = "ended"
    \/ \E r \in wire : ~r.awaited /\ r.op = "put" /\ r.id = i /\ Handle(r)

Explained(i) == LeftOver(i)' /\ ~LeftOver(i) => Causes(i)

(* Nobody listens at the path. *)
LEMMA NoListener ==
    ASSUME NEW i \in Ids, ~Answers(socket)'
    PROVE  Explained(i)
  BY DEF Explained, LeftOver

(* A step that binds nothing behind the path and ends no commit: a layer   *)
(* that is committed stays so, and a DELETE that is under way.             *)
LEMMA NoneLeft ==
    ASSUME NEW i \in Ids,
           Answers(socket)' /\ i \in holds'[socket'] =>
              Answers(socket) /\ socket' = socket /\ i \in holds[socket],
           i \in bound => i \in bound',
           call[i] = "commit" => call'[i] = "commit" \/ i \in bound',
           Answers(socket)' =>
              \A r \in wire : r.id = i /\ r.op = "delete" /\ r.to = socket' =>
                 \E s \in wire' : s.id = i /\ s.op = "delete" /\ s.to = r.to
    PROVE  Explained(i)
  BY DEF Explained, LeftOver

(* A process that comes to the path comes with nothing. *)
LEMMA ProcessLeavesNone ==
    ASSUME IndInv, NEW p \in Pids, LazydStep(p), NEW i \in Ids
    PROVE  Explained(i)
<1> USE DEF handlers
<1>1. CASE Start(p) \/ FindSocket(p) \/ ServeFails(p) \/ LazydDies(p)
  <2>1. socket' = socket /\ proc'[p] # "listening"
    BY <1>1 DEF Start, FindSocket, ServeFails, LazydDies, Dead, Step, IndInv, TypeOK
  <2>2. \A q \in Pids : q # p => proc'[q] = proc[q] /\ holds'[q] = holds[q]
    BY <1>1 DEF Start, FindSocket, ServeFails, LazydDies, Dead, Step, IndInv, TypeOK
  <2>3. UNCHANGED handlers
    BY <1>1 DEF Start, FindSocket, ServeFails, LazydDies
  <2> QED
    BY <2>1, <2>2, <2>3, NoneLeft DEF Answers
<1>2. CASE RemoveSocket(p)
  BY <1>2, NoListener DEF RemoveSocket, Answers, Nobody, Pids
<1>3. CASE Bind(p)
  <2>1. socket' = p /\ holds'[p] = {}
    BY <1>3 DEF Bind, Step, IndInv, TypeOK, FreshOK
  <2> QED
    BY <2>1 DEF Explained, LeftOver
<1> QED
  BY <1>1, <1>2, <1>3 DEF LazydStep

(* A step of a handler that sends nothing and ends no commit. *)
LEMMA HandlerLeavesNone ==
    ASSUME NEW i \in Ids, UNCHANGED lazyd, wire \subseteq wire',
           i \in bound => i \in bound',
           call[i] = "commit" => call'[i] = "commit" \/ i \in bound'
    PROVE  Explained(i)
  BY NoneLeft DEF lazyd, Answers

(* What a handler does for one layer changes nothing for the others; its   *)
(* DELETE, if it sends one, goes to the process behind the path.           *)
LEMMA HandlerExplained ==
    ASSUME IndInv, NEW j \in Ids, Handler(j), NEW i \in Ids
    PROVE  Explained(i)
<1>1. UNCHANGED lazyd /\ wire \subseteq wire'
  BY DEF Handler, BindLayer, UnbindLayer, Commit, CommitFails, ContextEnds, NeverSent, Send
<1>2. CASE i # j
  <2>1. call'[i] = call[i] /\ (i \in bound => i \in bound')
    BY <1>2 DEF Handler, BindLayer, UnbindLayer, Commit, CommitFails, ContextEnds,
                NeverSent, Send, IndInv, TypeOK
  <2> QED
    BY <1>1, <2>1, HandlerLeavesNone
<1>3. CASE i = j /\ (BindLayer(j) \/ Commit(j) \/ NeverSent(j))
  <2>1. /\ i \in bound => i \in bound'
        /\ call[i] = "commit" => i \in bound'
    BY <1>3 DEF BindLayer, Commit, NeverSent
  <2> QED
    BY <1>1, <2>1, HandlerLeavesNone
<1>4. CASE i = j /\ ContextEnds(j)
  <2>1. call'[i] = "ended"
    BY <1>4 DEF ContextEnds, IndInv, TypeOK
  <2> QED
    BY <2>1 DEF Explained, Causes
<1>5. CASE i = j /\ (UnbindLayer(j) \/ CommitFails(j))
  <2>1. UNCHANGED lazyd /\ Send(i, "delete")
    BY <1>5 DEF UnbindLayer, CommitFails
  <2>2. CASE ~Answers(socket)
    <3>1. ~Answers(socket)'
      BY <2>1, <2>2 DEF Answers, lazyd
    <3> QED
      BY <3>1, NoListener
  <2>3. CASE Answers(socket)
    <3> DEFINE r == [op |-> "delete", id |-> i, to |-> socket, awaited |-> TRUE]
    <3>1. r \in wire' /\ socket' = socket
      BY <2>1, <2>3 DEF Send, lazyd
    <3>2. r.id = i /\ r.op = "delete" /\ r.to = socket
      OBVIOUS
    <3> HIDE DEF r
    <3> QED
      BY <3>1, <3>2 DEF Explained, LeftOver
  <2> QED
    BY <2>2, <2>3
<1> QED
  BY <1>2, <1>3, <1>4, <1>5 DEF Handler

(* A request that fails, or is given up: a DELETE that fails has found its *)
(* process deaf or dead.                                                   *)
LEMMA FailureExplained ==
    ASSUME IndInv, NEW r \in wire, Refuse(r) \/ GiveUp(r), NEW i \in Ids
    PROVE  Explained(i)
<1>1. UNCHANGED <<lazyd, bound>> /\ r \in Requests
  BY DEF Refuse, GiveUp, IndInv, TypeOK
<1>2. call[i] = "commit" => call'[i] = "commit"
  <2>1. r.awaited => call[r.id] \in {"put", "delete"}
    BY <1>1 DEF IndInv, WireOK, Requests
  <2> QED
    BY <2>1 DEF Refuse, GiveUp, IndInv, TypeOK
<1>3. Answers(socket)' =>
         \A q \in wire : q.id = i /\ q.op = "delete" /\ q.to = socket' =>
            \E s \in wire' : s.id = i /\ s.op = "delete" /\ s.to = q.to
  <2> SUFFICES ASSUME Answers(socket)', NEW q \in wire,
                      q.id = i, q.op = "delete", q.to = socket'
               PROVE  \E s \in wire' : s.id = i /\ s.op = "delete" /\ s.to = q.to
    OBVIOUS
  <2>1. CASE q # r
    <3>1. q \in wire'
      BY <2>1 DEF Refuse, GiveUp
    <3> QED
      BY <3>1
  <2>2. CASE q = r /\ Refuse(r)
    BY <1>1, <2>2 DEF Refuse, Answers, lazyd
  <2>3. CASE q = r /\ GiveUp(r)
    <3>1. Forsaken(r) \in wire'
      BY <2>3 DEF GiveUp
    <3> QED
      BY <1>1, <2>3, <3>1, ForsakenRequest
  <2> QED
    BY <2>1, <2>2, <2>3
<1> QED
  BY <1>1, <1>2, <1>3, NoneLeft DEF lazyd, Answers

(* A request that lazyd handles: the handler that registered a layer goes  *)
(* on to commit it.                                                        *)
LEMMA HandleExplained ==
    ASSUME IndInv, NEW r \in wire, Handle(r), NEW i \in Ids
    PROVE  Explained(i)
<1>1. /\ r \in Requests /\ UNCHANGED <<proc, socket, bound>>
      /\ wire' = wire \ {r}
      /\ \A p \in Pids : p # r.to => holds'[p] = holds[p]
      /\ holds'[r.to] = IF r.op = "put" THEN holds[r.to] \cup {r.id}
                                        ELSE holds[r.to] \ {r.id}
  BY DEF Handle, IndInv, TypeOK, Requests
<1>2. r.awaited => call[r.id] \in {"put", "delete"}
  BY <1>1 DEF IndInv, WireOK, Requests
<1>3. call[i] = "commit" => call'[i] = "commit"
  BY <1>2 DEF Handle, IndInv, TypeOK
<1>4. CASE i # r.id \/ socket # r.to
  BY <1>1, <1>3, <1>4, NoneLeft DEF Answers
<1>5. CASE i = r.id /\ socket = r.to /\ r.op = "delete"
  <2>1. i \notin holds'[socket']
    BY <1>1, <1>5
  <2> QED
    BY <2>1 DEF Explained, LeftOver
<1>6. CASE i = r.id /\ socket = r.to /\ r.op = "put" /\ ~r.awaited
  BY <1>6 DEF Explained, Causes
<1>7. CASE i = r.id /\ socket = r.to /\ r.op = "put" /\ r.awaited
  <2>1. CASE i \in holds[socket]
    BY <1>1, <1>3, <1>7, <2>1, NoneLeft DEF Answers
  <2>2. CASE i \notin holds[socket]
    <3>1. call'[i] = "commit"
      BY <1>7, <2>2 DEF Handle, IndInv, TypeOK
    <3> QED
      BY <3>1 DEF Explained, LeftOver
  <2> QED
    BY <2>1, <2>2
<1> QED
  BY <1>1, <1>4, <1>5, <1>6, <1>7 DEF Requests

(* Every step leaves nothing over, but by one of the causes. *)
LEMMA NextExplained == IndInv /\ [Next]_vars => [\A i \in Ids : Explained(i)]_vars
<1> SUFFICES ASSUME IndInv, Next, NEW i \in Ids PROVE Explained(i)
  OBVIOUS
<1>1. CASE Ready \/ Timeout \/ Close
  <2>1. UNCHANGED <<lazyd, handlers>>
    BY <1>1 DEF Ready, Timeout, Close
  <2> QED
    BY <2>1, HandlerLeavesNone DEF handlers
<1>2. CASE Stopped \/ ServerKilled
  BY <1>2 DEF Explained, Causes
<1> QED
  BY <1>1, <1>2, ProcessLeavesNone, HandlerExplained, FailureExplained, HandleExplained
     DEF Next, ServerStep, Answer

(* An instance behind the path of a layer that is not committed, with no   *)
(* handler about to commit it and no DELETE under way to it, comes about in*)
(* three ways only: the server ends between the PUT and the commit, the    *)
(* context of a call ends before its DELETE is sent, or lazyd registers for*)
(* a PUT that nobody waits for any more (snapshotter.go:118-125, 147, 205).*)
THEOREM NothingLeftBehind == Spec => NothingLeft
<1>1. IndInv /\ [Next]_vars => [\A i \in Ids : Explained(i)]_vars
  BY NextExplained
<1> QED
  BY <1>1, Invariance, PTL DEF Spec, NothingLeft, Explained, Causes

-----------------------------------------------------------------------------
(* What a client finds at the path. *)
Up == Answers(socket)
Instances == IF Up THEN holds[socket] ELSE {}

ServiceStep == [Service!Next]_<<Up, Instances>>

(* Nobody listens at the path any more, or nobody did. *)
LEMMA Vanishes ==
    ASSUME ~Up' PROVE ServiceStep
<1>1. Instances' = {}
  BY DEF Instances
<1>2. CASE Up
  <2>1. Service!Vanish
    BY <1>1, <1>2 DEF Service!Vanish, Up, Instances
  <2> QED
    BY <2>1 DEF ServiceStep, Service!Next
<1>3. CASE ~Up
  <2>1. Up' = Up
    BY <1>3 DEF Up, Answers
  <2>2. Instances' = Instances
    BY <1>1, <1>3 DEF Instances
  <2> QED
    BY <2>1, <2>2 DEF ServiceStep
<1> QED
  BY <1>2, <1>3

(* What goes on away from the path is not seen there. *)
LEMMA NotSeen ==
    ASSUME socket' = socket,
           socket \in Pids => /\ proc'[socket] = proc[socket]
                              /\ holds'[socket] = holds[socket]
    PROVE  ServiceStep
  BY DEF ServiceStep, Up, Instances, Answers

(* A process that ends, or stops listening. *)
LEMMA StopsListening ==
    ASSUME NEW p \in Pids, socket' = socket,
           proc'[p] # "listening",
           \A q \in Pids : q # p => proc'[q] = proc[q] /\ holds'[q] = holds[q]
    PROVE  ServiceStep
<1>1. CASE socket = p
  BY <1>1, Vanishes DEF Up, Answers
<1>2. CASE socket # p
  BY <1>2, NotSeen
<1> QED
  BY <1>1, <1>2

(* A process that ends takes its registry from the path, if it has it. *)
LEMMA DeadSeen ==
    ASSUME IndInv, NEW p \in Pids, Dead(p) PROVE ServiceStep
  BY StopsListening DEF Dead, IndInv, TypeOK

(* A request is handled at the path, or by a process that has lost it. *)
LEMMA HandleSeen ==
    ASSUME IndInv, NEW r \in wire, Handle(r) PROVE ServiceStep
<1>1. /\ r.op \in {"put", "delete"} /\ r.id \in Ids /\ r.to \in Pids
      /\ UNCHANGED <<proc, socket>>
      /\ \A q \in Pids : q # r.to => holds'[q] = holds[q]
  BY DEF IndInv, TypeOK, Requests, Handle
<1>2. CASE socket # r.to
  BY <1>1, <1>2, NotSeen
<1>3. CASE socket = r.to
  <2>1. Up /\ Up' /\ Instances = holds[r.to] /\ Instances' = holds'[r.to]
    BY <1>1, <1>3 DEF Handle, Up, Instances, Answers
  <2>2. CASE r.op = "put"
    <3>1. Instances' = Instances \cup {r.id}
      BY <1>1, <2>1, <2>2 DEF Handle, IndInv, TypeOK
    <3> QED
      BY <1>1, <2>1, <3>1 DEF ServiceStep, Service!Next, Service!Register, Up, Instances
  <2>3. CASE r.op = "delete"
    <3>1. Instances' = Instances \ {r.id}
      BY <1>1, <2>1, <2>3 DEF Handle, IndInv, TypeOK
    <3> QED
      BY <1>1, <2>1, <3>1 DEF ServiceStep, Service!Next, Service!Unregister, Up, Instances
  <2> QED
    BY <1>1, <2>2, <2>3
<1> QED
  BY <1>2, <1>3

(* Every step of the processes is one of the service behind the path, or is*)
(* not seen there.                                                         *)
LEMMA NextServes == IndInv /\ [Next]_vars => ServiceStep
<1> SUFFICES ASSUME IndInv, [Next]_vars PROVE ServiceStep
  OBVIOUS
<1>1. CASE UNCHANGED lazyd
  BY <1>1, NotSeen DEF lazyd
<1>2. CASE Stopped
  BY <1>2, DeadSeen DEF Stopped, IndInv, TypeOK
<1>3. ASSUME NEW p \in Pids, LazydStep(p) PROVE ServiceStep
  <2>1. CASE Start(p) \/ FindSocket(p) \/ ServeFails(p)
    <3>1. socket' = socket /\ holds' = holds /\ proc'[p] # "listening"
      BY <2>1 DEF Start, FindSocket, ServeFails, Step, IndInv, TypeOK
    <3>2. \A q \in Pids : q # p => proc'[q] = proc[q]
      BY <2>1 DEF Start, FindSocket, ServeFails, Step, IndInv, TypeOK
    <3> QED
      BY <3>1, <3>2, StopsListening
  <2>2. CASE RemoveSocket(p)
    BY <2>2, Vanishes DEF RemoveSocket, Up, Answers, Nobody, Pids
  <2>3. CASE Bind(p)
    <3>1. ~Up
      BY <2>3 DEF Bind, Up, Answers, Nobody, Pids
    <3>2. Up' /\ Instances' = holds[p] /\ holds[p] = {}
      BY <2>3 DEF Bind, Step, Up, Instances, Answers, IndInv, TypeOK, FreshOK
    <3> QED
      BY <3>1, <3>2 DEF ServiceStep, Service!Next, Service!Appear, Up, Instances
  <2>4. CASE LazydDies(p)
    BY <2>4, DeadSeen DEF LazydDies
  <2> QED
    BY <1>3, <2>1, <2>2, <2>3, <2>4 DEF LazydStep
<1>4. ASSUME NEW r \in wire, Handle(r) PROVE ServiceStep
  BY <1>4, HandleSeen
<1>5. CASE \/ Ready \/ Timeout \/ Close \/ ServerKilled
           \/ \E i \in Ids : Handler(i)
           \/ \E r \in wire : Refuse(r) \/ GiveUp(r)
  <2>1. UNCHANGED lazyd
    BY <1>5 DEF Ready, Timeout, Close, ServerKilled, Handler, BindLayer, UnbindLayer,
                Commit, CommitFails, ContextEnds, NeverSent, Refuse, GiveUp
  <2> QED
    BY <1>1, <2>1
<1>6. CASE UNCHANGED vars
  BY <1>1, <1>6 DEF vars
<1> QED
  BY <1>2, <1>3, <1>4, <1>5, <1>6 DEF Next, ServerStep, Answer

(* The processes that come, go and take the path from each other are one   *)
(* LazydService: an old registry never comes back (control.rs:29-60).      *)
THEOREM ServiceImplemented == Spec => ImplementsService
<1>1. Init => Service!Init
  BY DEF Init, Service!Init, Answers, Nobody, Pids
<1> QED
  BY <1>1, NextServes, Invariance, PTL
     DEF Spec, ImplementsService, Service!Spec, ServiceStep, Up, Instances
=============================================================================
