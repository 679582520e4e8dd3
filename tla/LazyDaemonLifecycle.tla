------------------------ MODULE LazyDaemonLifecycle ------------------------
(***************************************************************************)
(* The life of the lazyd processes: LazyDaemon.Start, waitReady and Stop   *)
(* (daemon/lazyd.go), called by New and Close of the proxy snapshotter in  *)
(* the server process (cmd/containerd-erofs-grpc/main.go), and the startup *)
(* of lazyd up to its accept loop (lazyd/src/main.rs, control.rs).         *)
(*                                                                         *)
(* Nothing ties a lazyd to the server that started it, nor to the path of  *)
(* its socket: a server that is killed leaves its lazyd running, and the   *)
(* next lazyd removes whatever is at the path.  Each request is a          *)
(* connection of its own, to the process that listens at that moment.      *)
(*                                                                         *)
(* A process is told by its pid.  The context of a call may end at any     *)
(* time, before its request is sent or before it is answered; lazyd goes on*)
(* with what was sent.  How lazyd serves a request is in LazydRegistry.    *)
(***************************************************************************)
EXTENDS Naturals, FiniteSets

CONSTANTS
    Ids,         \* instance ids: chain IDs
    MaxPid,      \* bound: lazyd processes started, that is, starts of the server
    MaxForsaken  \* bound: requests under way that calls have given up

ASSUME BoundAssumption == MaxPid \in Nat \ {0} /\ MaxForsaken \in Nat

Pids == 1..MaxPid
Nobody == 0

VARIABLES
    proc,     \* pid |-> status of the lazyd process
    socket,   \* the process that bound the file at the socket's path
    holds,    \* pid |-> ids in its registry, with their fanotify marks
    server,   \* the server process: "down", "waiting", "up", "stopping"
    child,    \* LazyDaemon.cmd, which ends with the server
    call,     \* id |-> what a handler of the server is doing about it
    wire,     \* requests connected to a lazyd that has not handled them
    bound,    \* ids of the committed snapshots that are lazily backed
    home,     \* history: id |-> the lazyd that answered Ok to its last PUT
    killed,   \* history: a server was killed
    late      \* history: ids unbound at home by a DELETE nobody waited for

lazyd == <<proc, socket, holds>>
handlers == <<call, wire, bound, home, late>>
vars == <<lazyd, server, child, killed, handlers>>

Init ==
    /\ proc = [p \in Pids |-> "unused"]
    /\ socket = Nobody
    /\ holds = [p \in Pids |-> {}]
    /\ server = "down"
    /\ child = Nobody
    /\ call = [i \in Ids |-> "none"]
    /\ wire = {}
    /\ bound = {}
    /\ home = [i \in Ids |-> Nobody]
    /\ killed = FALSE
    /\ late = {}

Alive(p) == proc[p] \notin {"unused", "dead"}
Answers(p) == p \in Pids /\ proc[p] = "listening"

-----------------------------------------------------------------------------
(* The server: New calls Start with a context that never ends.             *)

(* exec.Cmd.Start; when it fails New fails and nothing is left. *)
Start(p) ==
    /\ server = "down"
    /\ proc[p] = "unused"
    /\ \A q \in Pids : proc[q] = "unused" => p <= q
    /\ proc' = [proc EXCEPT ![p] = "booting"]
    /\ child' = p
    /\ server' = "waiting"
    /\ UNCHANGED <<socket, holds, killed, handlers>>

(* waitReady: GET /api/v1/daemon is answered, by whoever listens. *)
Ready ==
    /\ server = "waiting"
    /\ Answers(socket)
    /\ server' = "up"
    /\ UNCHANGED <<lazyd, child, killed, handlers>>

(* Mutants of Timeout: Start fails and leaves its process running; Start   *)
(* waits as long as its process lives.                                     *)
MutantLeavesChild ==
    /\ server = "waiting"
    /\ server' = "down"
    /\ child' = Nobody
    /\ UNCHANGED <<lazyd, killed, handlers>>

MutantWaitsForChild ==
    /\ server = "waiting"
    /\ ~Alive(child)
    /\ server' = "stopping"
    /\ UNCHANGED <<lazyd, child, killed, handlers>>

(* waitReady gives up after defaultLazydStartTimeout: stopLocked. *)
Timeout ==
    /\ server = "waiting"
    /\ server' = "stopping"
    /\ UNCHANGED <<lazyd, child, killed, handlers>>

(* serve returns, from net.Listen or rpc.Serve: the deferred Close calls   *)
(* Stop.                                                                   *)
Close ==
    /\ server = "up"
    /\ server' = "stopping"
    /\ UNCHANGED <<lazyd, child, killed, handlers>>

Dead(p) ==
    /\ proc' = [proc EXCEPT ![p] = "dead"]
    /\ holds' = [holds EXCEPT ![p] = {}]
    /\ UNCHANGED socket

(* A request that nobody waits for any more; of those that are alike one   *)
(* stands for all.                                                         *)
Forsaken(r) == [r EXCEPT !.awaited = FALSE]

(* The server ends: its handlers end with it, what they sent does not. *)
Exit ==
    /\ server' = "down"
    /\ child' = Nobody
    /\ call' = [i \in Ids |-> "none"]
    /\ wire' = {Forsaken(r) : r \in wire}
    /\ UNCHANGED <<bound, home, late>>

(* Mutant of Stopped: LazyDaemon.cmd is not reset. *)
MutantKeepsCmd ==
    /\ server = "stopping"
    /\ Dead(child)
    /\ server' = "down"
    /\ call' = [i \in Ids |-> "none"]
    /\ UNCHANGED <<child, killed, wire, bound, home, late>>

(* stopLocked kills the child and waits for it; then the server exits.     *)
Stopped ==
    /\ server = "stopping"
    /\ Dead(child)
    /\ Exit
    /\ UNCHANGED killed

(* There is no signal handler: Close does not run. *)
ServerKilled ==
    /\ server # "down"
    /\ killed' = TRUE
    /\ Exit
    /\ UNCHANGED lazyd

-----------------------------------------------------------------------------
(* lazyd: ControlPlane::serve. *)

Step(p, from, to) == proc[p] = from /\ proc' = [proc EXCEPT ![p] = to]

(* socket.exists(): the file is there whoever left it. *)
FindSocket(p) ==
    /\ Step(p, "booting", IF socket = Nobody THEN "binding" ELSE "removing")
    /\ UNCHANGED <<socket, holds, server, child, killed, handlers>>

RemoveSocket(p) ==
    /\ socket # Nobody
    /\ Step(p, "removing", "binding")
    /\ socket' = Nobody
    /\ UNCHANGED <<holds, server, child, killed, handlers>>

Bind(p) ==
    /\ socket = Nobody
    /\ Step(p, "binding", "listening")
    /\ socket' = p
    /\ UNCHANGED <<holds, server, child, killed, handlers>>

(* Mutants of ServeFails: main serves again, with a new registry or with   *)
(* the one it has.                                                         *)
MutantServesAfresh(p) ==
    /\ Step(p, "listening", "booting")
    /\ holds' = [holds EXCEPT ![p] = {}]
    /\ UNCHANGED <<socket, server, child, killed, handlers>>

MutantServesAgain(p) ==
    /\ Step(p, "listening", "booting")
    /\ UNCHANGED <<socket, holds, server, child, killed, handlers>>

(* serve returns an error: the file to remove is gone, the path is taken   *)
(* again, or accept fails.  main returns, and the runtime waits for the    *)
(* event loop, which never ends: with fanotify the process stays, deaf,    *)
(* with its marks.                                                         *)
ServeFails(p) ==
    /\ \/ proc[p] = "removing" /\ socket = Nobody
       \/ proc[p] = "binding" /\ socket # Nobody
       \/ proc[p] = "listening"
    /\ proc' = [proc EXCEPT ![p] = "deaf"]
    /\ UNCHANGED <<socket, holds, server, child, killed, handlers>>

(* The process ends, by itself or killed, at any time. *)
LazydDies(p) ==
    /\ Alive(p)
    /\ Dead(p)
    /\ UNCHANGED <<server, child, killed, handlers>>

-----------------------------------------------------------------------------
(* The handlers of the server and their requests. *)

Handling == server \in {"up", "stopping"}

(* A request needs a listener at the path; without one the call fails.     *)
Send(i, op) ==
    IF Answers(socket)
    THEN /\ wire' = wire \cup {[op |-> op, id |-> i, to |-> socket, awaited |-> TRUE]}
         /\ call' = [call EXCEPT ![i] = op]
    ELSE /\ call' = [call EXCEPT ![i] = "none"]
         /\ UNCHANGED wire

(* Prepare of a chain ID nobody has committed: BindLayer. *)
BindLayer(i) ==
    /\ server = "up"
    /\ call[i] = "none"
    /\ i \notin bound
    /\ Send(i, "put")
    /\ UNCHANGED <<lazyd, server, child, killed, bound, home, late>>

(* Remove: the snapshot goes first, then UnbindLayer. *)
UnbindLayer(i) ==
    /\ server = "up"
    /\ call[i] = "none"
    /\ i \in bound
    /\ bound' = bound \ {i}
    /\ Send(i, "delete")
    /\ UNCHANGED <<lazyd, server, child, killed, home, late>>

(* The context of a call ends: its handler returns, the request goes on. *)
GiveUp(r) ==
    /\ r.awaited
    /\ Cardinality({q \in wire : ~q.awaited}) < MaxForsaken
    /\ wire' = (wire \ {r}) \cup {Forsaken(r)}
    /\ call' = [call EXCEPT ![r.id] = "none"]
    /\ UNCHANGED <<lazyd, server, child, killed, bound, home, late>>

(* lazyd handles a request it accepted, even one that nobody waits for, or *)
(* that reaches it by a path it has lost.  A PUT of an id that it holds is *)
(* about another path: 409.  A DELETE of an id that it does not hold is Ok.*)
Handle(r) ==
    LET registers == r.op = "put" /\ r.id \notin holds[r.to]
    IN  /\ proc[r.to] = "listening"
        /\ wire' = wire \ {r}
        /\ holds' = [holds EXCEPT ![r.to] =
                        IF r.op = "put" THEN @ \cup {r.id} ELSE @ \ {r.id}]
        /\ IF r.awaited
           THEN /\ call' = [call EXCEPT ![r.id] = IF registers THEN "commit" ELSE "none"]
                /\ home' = IF registers THEN [home EXCEPT ![r.id] = r.to] ELSE home
                /\ late' = IF registers THEN late \ {r.id} ELSE late
           ELSE /\ late' = IF r.op = "delete" /\ r.to = home[r.id]
                            THEN late \cup {r.id} ELSE late
                /\ UNCHANGED <<call, home>>
        /\ UNCHANGED <<proc, socket, server, child, killed, bound>>

(* The call fails: the process at the other end has closed the connection, *)
(* or it cannot open or mark the file of a PUT, as that of a snapshot that *)
(* is gone.                                                                *)
Refuse(r) ==
    /\ proc[r.to] # "listening" \/ r.op = "put"
    /\ wire' = wire \ {r}
    /\ call' = IF r.awaited THEN [call EXCEPT ![r.id] = "none"] ELSE call
    /\ UNCHANGED <<lazyd, server, child, killed, bound, home, late>>

(* base.Commit publishes the snapshot, or fails and Prepare cleans up. *)
Commit(i) ==
    /\ Handling
    /\ call[i] = "commit"
    /\ bound' = bound \cup {i}
    /\ call' = [call EXCEPT ![i] = "none"]
    /\ UNCHANGED <<lazyd, server, child, killed, wire, home, late>>

(* Mutant of CommitFails: the instance is not unbound. *)
MutantKeepsInstance(i) ==
    /\ Handling
    /\ call[i] = "commit"
    /\ call' = [call EXCEPT ![i] = "none"]
    /\ UNCHANGED <<lazyd, server, child, killed, wire, bound, home, late>>

CommitFails(i) ==
    /\ Handling
    /\ call[i] = "commit"
    /\ Send(i, "delete")
    /\ UNCHANGED <<lazyd, server, child, killed, bound, home, late>>

(* A DELETE is due, in Remove or in the cleanup of a Prepare that fails,   *)
(* but the context has ended: the cleanup runs in the one that failed it.  *)
ContextEnds(i) ==
    /\ \/ server = "up" /\ call[i] = "none" /\ i \in bound
       \/ Handling /\ call[i] = "commit"
    /\ bound' = bound \ {i}
    /\ call' = [call EXCEPT ![i] = "ended"]
    /\ UNCHANGED <<lazyd, server, child, killed, wire, home, late>>

(* d.do fails at once. *)
NeverSent(i) ==
    /\ Handling
    /\ call[i] = "ended"
    /\ call' = [call EXCEPT ![i] = "none"]
    /\ UNCHANGED <<lazyd, server, child, killed, wire, bound, home, late>>

-----------------------------------------------------------------------------
ServerStep == Ready \/ Timeout \/ Close \/ Stopped \/ ServerKilled

LazydStep(p) ==
    \/ Start(p)
    \/ FindSocket(p) \/ RemoveSocket(p) \/ Bind(p)
    \/ ServeFails(p) \/ LazydDies(p)

Handler(i) ==
    \/ BindLayer(i) \/ UnbindLayer(i)
    \/ Commit(i) \/ CommitFails(i)
    \/ ContextEnds(i) \/ NeverSent(i)

Answer(r) == Handle(r) \/ Refuse(r)

Next ==
    \/ ServerStep
    \/ \E p \in Pids : LazydStep(p)
    \/ \E i \in Ids : Handler(i)
    \/ \E r \in wire : Answer(r) \/ GiveUp(r)

Spec == Init /\ [][Next]_vars

(* waitReady polls and has a deadline, Stop waits for a killed process,    *)
(* lazyd runs its tasks and the server its handlers.                       *)
Fairness ==
    /\ WF_vars(Ready \/ Timeout)
    /\ WF_vars(Stopped)
    /\ \A i \in Ids :
          /\ WF_vars(\E r \in wire : r.id = i /\ r.awaited /\ Answer(r))
          /\ WF_vars(Commit(i) \/ CommitFails(i))
          /\ WF_vars(NeverSent(i))

FairSpec == Spec /\ Fairness

-----------------------------------------------------------------------------
Requests == [op : {"put", "delete"}, id : Ids, to : Pids, awaited : BOOLEAN]

(* The type invariant; a server that runs has the command it started. *)
TypeOK ==
    /\ proc \in [Pids -> {"unused", "booting", "removing", "binding", "listening",
                          "deaf", "dead"}]
    /\ socket \in Pids \cup {Nobody}
    /\ holds \in [Pids -> SUBSET Ids]
    /\ server \in {"down", "waiting", "up", "stopping"}
    /\ child \in Pids \cup {Nobody}
    /\ server = "down" <=> child = Nobody
    /\ call \in [Ids -> {"none", "put", "commit", "delete", "ended"}]
    /\ wire \subseteq Requests
    /\ bound \subseteq Ids
    /\ home \in [Ids -> Pids \cup {Nobody}]
    /\ killed \in BOOLEAN
    /\ late \subseteq Ids

(* As long as no server is killed, at most one lazyd is alive: a Start     *)
(* that fails and a Close both take their process with them before the     *)
(* server is gone, also one that never came to listen.                     *)
(* (daemon/lazyd.go Start, stopLocked; snapshotter.go Close)               *)
OneDaemon == ~killed => Cardinality({p \in Pids : Alive(p)}) <= 1

(* A committed lazy layer stays with the lazyd that it was registered      *)
(* with for as long as that process lives: servers that come and go, a new *)
(* lazyd that takes over the path, an accept loop that ended do not revoke *)
(* it.  Only one thing can, and nothing in the code prevents it: a DELETE  *)
(* that nobody waits for any more is handled after the layer was           *)
(* registered again (control.rs:51).                                       *)
Guarded == \A i \in bound \ late : Alive(home[i]) => i \in holds[home[i]]

(* An instance behind the path that nobody is going to unbind: its layer is*)
(* not committed, no handler is about to commit it, no DELETE is under way.*)
LeftOver(i) ==
    /\ Answers(socket)
    /\ i \in holds[socket] \ bound
    /\ call[i] # "commit"
    /\ \A r \in wire : r.id = i /\ r.op = "delete" => r.to # socket

(* Whatever fails, an instance is left over in three ways only: the server *)
(* ends between the PUT and the commit, a context ends before the DELETE   *)
(* is sent (snapshotter.go:120, 205), or lazyd registers for a PUT that    *)
(* nobody waits for any more (snapshotter.go:147).  Else each failed       *)
(* Prepare and each Remove reaches the process that has the instance.      *)
NothingLeft ==
    [][\A i \in Ids : LeftOver(i)' /\ ~LeftOver(i) =>
          \/ Stopped \/ ServerKilled
          \/ call'[i] = "ended"
          \/ \E r \in wire : ~r.awaited /\ r.op = "put" /\ r.id = i /\ Handle(r)]_vars

(* What is behind the path, whichever process it is, is a lazyd service:   *)
(* it never takes up an old registry again.  ProxySnapshotter rests on it. *)
Service == INSTANCE LazydService WITH
    up <- Answers(socket),
    instances <- IF Answers(socket) THEN holds[socket] ELSE {}

ImplementsService == Service!Spec

(* Start, Stop and every call about a layer return, whatever becomes of    *)
(* the processes.                                                          *)
Returns ==
    /\ server \in {"waiting", "stopping"} ~> server \in {"up", "down"}
    /\ \A i \in Ids : call[i] # "none" ~> call[i] = "none"
=============================================================================
