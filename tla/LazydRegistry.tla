--------------------------- MODULE LazydRegistry ---------------------------
(***************************************************************************)
(* lazyd's registry of instances (lazyd/src/instance.rs), the control      *)
(* plane that changes it (control.rs), the fanotify marks kept beside it   *)
(* and the event loop that reads both (fanotify.rs).                       *)
(*                                                                         *)
(* The clients are the calls of LazyDaemon (daemon/lazyd.go) that Prepare  *)
(* and Remove of the proxy snapshotter make.  lazyd serves each request in *)
(* a task of its own, and goes on with it when its client has given up.    *)
(* A reader is a mount of a committed layer.  A file stands for a path and *)
(* its inode: a snapshot's id, and so its path, is never used again.  One  *)
(* range of each file is read; LazyInstance has ensure_range in detail.    *)
(***************************************************************************)
EXTENDS Naturals

CONSTANTS
    Clients,         \* concurrent Prepares and Removes
    Readers,         \* processes that read mounted layers
    Ids,             \* instance ids: chain IDs
    Files,           \* target files
    NoClient, NoReader, NoId, NoFile,
    LostCalls        \* a client may give up on a request that lazyd serves

ASSUME NullAssumption ==
    NoClient \notin Clients /\ NoReader \notin Readers /\ NoId \notin Ids /\ NoFile \notin Files

ASSUME SwitchAssumption == LostCalls \in BOOLEAN

VARIABLES
    path,       \* file |-> "none", "there" or "gone"
    filled,     \* files whose range holds the blob's bytes
    published,  \* chain ID |-> file of the committed snapshot
    instances,  \* RegistryInner.instances: id |-> target file
    writer,     \* the request that holds the write lock of instances
    watched,    \* files with a FAN_PRE_ACCESS mark in the kernel
    marks,      \* FanotifyInner.marks: file |-> id
    client,     \* the calls, with the request lazyd serves for each
    reader,     \* the readers
    loop        \* the event loop: the event it handles

registry == <<instances, writer>>
fanotify == <<watched, marks>>
vars == <<path, filled, published, registry, fanotify, client, reader, loop>>

Idle == [pc |-> "idle", id |-> NoId, file |-> NoFile, removed |-> NoFile,
         gaveUp |-> FALSE]
Resting == [pc |-> "rest", reader |-> NoReader, id |-> NoId, target |-> NoFile]

Init ==
    /\ path = [f \in Files |-> "none"]
    /\ filled = {}
    /\ published = [i \in Ids |-> NoFile]
    /\ instances = [i \in Ids |-> NoFile]
    /\ writer = NoClient
    /\ watched = {}
    /\ marks = [f \in Files |-> NoId]
    /\ client = [c \in Clients |-> Idle]
    /\ reader = [r \in Readers |-> [pc |-> "closed", file |-> NoFile]]
    /\ loop = Resting

At(c, pc) == client[c].pc = pc

(* A request ends: its client sees the outcome, unless it has given up. *)
Answer(c, outcome) ==
    client' = [client EXCEPT ![c] =
                  IF client[c].gaveUp \/ outcome = "idle" THEN Idle
                  ELSE [client[c] EXCEPT !.pc = outcome]]

Goto(c, pc) == client' = [client EXCEPT ![c].pc = pc]

-----------------------------------------------------------------------------
(* PUT /api/v1/instances/<id>: InstanceRegistry::register.                 *)

(* BindLayer: a fresh sparse target, then the PUT. *)
BindLayer(c, i, f) ==
    /\ At(c, "idle")
    /\ path[f] = "none"
    /\ path' = [path EXCEPT ![f] = "there"]
    /\ client' = [client EXCEPT ![c] = [Idle EXCEPT !.pc = "put", !.id = i, !.file = f]]
    /\ UNCHANGED <<filled, published, registry, fanotify, reader, loop>>

(* Mutant of RegisterExisting: a PUT with another config replaces the first.*)
MutantReplaces(c) ==
    /\ At(c, "put")
    /\ writer = NoClient
    /\ instances[client[c].id] # NoFile
    /\ Goto(c, "mark")
    /\ writer' = c
    /\ UNCHANGED <<path, filled, published, instances, fanotify, reader, loop>>

(* The lock is taken; the same config is accepted again, another refused,  *)
(* and the target is opened.  BindLayer is called once for each target, so *)
(* of these clients no one repeats a PUT: only the refusal is taken.       *)
RegisterExisting(c) ==
    LET existing == instances[client[c].id]
    IN  /\ At(c, "put")
        /\ writer = NoClient
        /\ existing # NoFile
        /\ Answer(c, IF existing = client[c].file THEN "bound" ELSE "unbound")
        /\ UNCHANGED <<path, filled, published, registry, fanotify, reader, loop>>

(* Mutant of RegisterOpen: the lock is released before the file is marked. *)
MutantUnlocksEarly(c) ==
    /\ At(c, "put")
    /\ writer = NoClient
    /\ instances[client[c].id] = NoFile
    /\ IF path[client[c].file] = "there" THEN Goto(c, "mark") ELSE Answer(c, "unbound")
    /\ UNCHANGED <<path, filled, published, registry, fanotify, reader, loop>>

RegisterOpen(c) ==
    /\ At(c, "put")
    /\ writer = NoClient
    /\ instances[client[c].id] = NoFile
    /\ IF path[client[c].file] = "there"
       THEN Goto(c, "mark") /\ writer' = c
       ELSE Answer(c, "unbound") /\ UNCHANGED writer
    /\ UNCHANGED <<path, filled, published, instances, fanotify, reader, loop>>

(* FanotifyBackend::mark: the kernel's mark first, then, by the path's     *)
(* inode, the entry the event loop looks up.                               *)
MarkKernel(c) ==
    /\ At(c, "mark")
    /\ IF path[client[c].file] = "there"
       THEN /\ watched' = watched \cup {client[c].file}
            /\ Goto(c, "name")
            /\ UNCHANGED writer
       ELSE /\ Answer(c, "unbound")
            /\ writer' = NoClient
            /\ UNCHANGED watched
    /\ UNCHANGED <<path, filled, published, instances, marks, reader, loop>>

MarkName(c) ==
    /\ At(c, "name")
    /\ IF path[client[c].file] = "there"
       THEN /\ marks' = [marks EXCEPT ![client[c].file] = client[c].id]
            /\ Goto(c, "insert")
            /\ UNCHANGED writer
       ELSE /\ Answer(c, "unbound")
            /\ writer' = NoClient
            /\ UNCHANGED marks
    /\ UNCHANGED <<path, filled, published, instances, watched, reader, loop>>

Insert(c) ==
    /\ At(c, "insert")
    /\ instances' = [instances EXCEPT ![client[c].id] = client[c].file]
    /\ writer' = NoClient
    /\ Answer(c, "bound")
    /\ UNCHANGED <<path, filled, published, fanotify, reader, loop>>

(* Prepare after the PUT: the snapshot is committed, or, on any error, the *)
(* layer is unbound if it was bound, and the snapshot removed.             *)
Commit(c) ==
    /\ At(c, "bound")
    /\ published[client[c].id] = NoFile
    /\ published' = [published EXCEPT ![client[c].id] = client[c].file]
    /\ Answer(c, "idle")
    /\ UNCHANGED <<path, filled, registry, fanotify, reader, loop>>

CommitFails(c) ==
    /\ At(c, "bound")
    /\ Goto(c, "delete")
    /\ UNCHANGED <<path, filled, published, registry, fanotify, reader, loop>>

CleanupRemove(c) ==
    /\ At(c, "unbound")
    /\ path' = [path EXCEPT ![client[c].file] = "gone"]
    /\ Answer(c, "idle")
    /\ UNCHANGED <<filled, published, registry, fanotify, reader, loop>>

-----------------------------------------------------------------------------
(* Remove of a committed layer: the base snapshotter removes the files,    *)
(* also those a reader still has open, then the layer is unbound.          *)
Remove(c, i) ==
    /\ At(c, "idle")
    /\ published[i] # NoFile
    /\ published' = [published EXCEPT ![i] = NoFile]
    /\ path' = [path EXCEPT ![published[i]] = "gone"]
    /\ client' = [client EXCEPT ![c] = [Idle EXCEPT !.pc = "delete", !.id = i]]
    /\ UNCHANGED <<filled, registry, fanotify, reader, loop>>

(* DELETE /api/v1/instances/<id>: InstanceRegistry::unregister takes the   *)
(* instance out under the lock and unmarks its file after it.  Prepare's   *)
(* cleanup ignores the answer, Remove passes it on.                        *)
Removing(c) == client[c].file = NoFile
DeleteDone(c) == Answer(c, IF Removing(c) THEN "idle" ELSE "unbound")
DeleteFails(c) == Answer(c, IF Removing(c) THEN "failed" ELSE "unbound")

(* Mutant of Unregister: the file is unmarked before the instance is out. *)
MutantUnmarksFirst(c) ==
    LET target == instances[client[c].id]
    IN  /\ At(c, "delete")
        /\ writer = NoClient
        /\ IF target = NoFile THEN DeleteDone(c) /\ UNCHANGED fanotify
           ELSE /\ watched' = watched \ {target}
                /\ marks' = [marks EXCEPT ![target] = NoId]
                /\ client' = [client EXCEPT ![c].pc = "unmark", ![c].removed = target]
        /\ UNCHANGED <<path, filled, published, registry, reader, loop>>

Unregister(c) ==
    LET target == instances[client[c].id]
    IN  /\ At(c, "delete")
        /\ writer = NoClient
        /\ instances' = [instances EXCEPT ![client[c].id] = NoFile]
        /\ IF target = NoFile THEN DeleteDone(c)
           ELSE client' = [client EXCEPT ![c].pc = "unmark", ![c].removed = target]
        /\ UNCHANGED <<path, filled, published, writer, fanotify, reader, loop>>

(* FanotifyBackend::unmark: the metadata of the path are read first, for   *)
(* the inode; each of the two lookups fails once the path is gone.         *)
UnmarkStat(c) ==
    /\ At(c, "unmark")
    /\ IF path[client[c].removed] = "there" THEN Goto(c, "unwatch") ELSE DeleteFails(c)
    /\ UNCHANGED <<path, filled, published, registry, fanotify, reader, loop>>

UnmarkKernel(c) ==
    LET f == client[c].removed
    IN  /\ At(c, "unwatch")
        /\ IF path[f] = "there" /\ f \in watched
           THEN watched' = watched \ {f} /\ Goto(c, "unname")
           ELSE DeleteFails(c) /\ UNCHANGED watched
        /\ UNCHANGED <<path, filled, published, registry, marks, reader, loop>>

UnmarkName(c) ==
    /\ At(c, "unname")
    /\ marks' = [marks EXCEPT ![client[c].removed] = NoId]
    /\ DeleteDone(c)
    /\ UNCHANGED <<path, filled, published, registry, watched, reader, loop>>

(* Remove returns the error of the DELETE. *)
RemoveReturns(c) ==
    /\ At(c, "failed")
    /\ Answer(c, "idle")
    /\ UNCHANGED <<path, filled, published, registry, fanotify, reader, loop>>

(* The context of a Prepare ends during its PUT or its DELETE: the deferred*)
(* cleanup goes on to remove the snapshot; lazyd goes on with the request. *)
GiveUp(c) ==
    /\ LostCalls
    /\ client[c].pc \in {"put", "mark", "name", "insert", "delete", "unmark", "unwatch", "unname"}
    /\ ~Removing(c)
    /\ ~client[c].gaveUp
    /\ client' = [client EXCEPT ![c].gaveUp = TRUE]
    /\ path' = [path EXCEPT ![client[c].file] = "gone"]
    /\ UNCHANGED <<filled, published, registry, fanotify, reader, loop>>

-----------------------------------------------------------------------------
(* A reader mounts a committed layer.  A read of a watched file waits for  *)
(* the answer to a pre-access event; another goes straight to the file.    *)
Open(r, i) ==
    /\ reader[r].pc = "closed"
    /\ published[i] # NoFile
    /\ reader' = [reader EXCEPT ![r] = [pc |-> "open", file |-> published[i]]]
    /\ UNCHANGED <<path, filled, published, registry, fanotify, client, loop>>

Access(r) ==
    /\ reader[r].pc = "open"
    /\ reader' = [reader EXCEPT ![r].pc =
                     IF reader[r].file \in watched THEN "queued" ELSE "read"]
    /\ UNCHANGED <<path, filled, published, registry, fanotify, client, loop>>

(* A reader whose event is lost ends only when it is killed. *)
Close(r) ==
    /\ reader[r].pc \in {"open", "read", "denied", "lost"}
    /\ reader' = [reader EXCEPT ![r] = [pc |-> "closed", file |-> NoFile]]
    /\ UNCHANGED <<path, filled, published, registry, fanotify, client, loop>>

(* run_event_loop handles one event at a time. *)
NextEvent(r) ==
    /\ loop = Resting
    /\ reader[r].pc = "queued"
    /\ reader' = [reader EXCEPT ![r].pc = "waits"]
    /\ loop' = [Resting EXCEPT !.pc = "lookup", !.reader = r]
    /\ UNCHANGED <<path, filled, published, registry, fanotify, client>>

(* parse_events breaks off at an event without a range: that one and all   *)
(* behind it in the same read are gone from the queue and never answered.  *)
(* What a read of the queue returns is in FanotifyEvents.                  *)
LoseEvent(r) ==
    /\ loop = Resting
    /\ reader[r].pc = "queued"
    /\ reader' = [reader EXCEPT ![r].pc = "lost"]
    /\ UNCHANGED <<path, filled, published, registry, fanotify, client, loop>>

(* Mutant of Respond: a denial is not sent. *)
MutantAnswersOnlyAllow(answer) ==
    /\ reader' = [reader EXCEPT ![loop.reader].pc = IF answer = "read" THEN answer ELSE @]
    /\ loop' = Resting

Respond(answer) ==
    /\ reader' = [reader EXCEPT ![loop.reader].pc = answer]
    /\ loop' = Resting

(* instance_id_for_fd, by the inode of the event. *)
Lookup ==
    LET i == marks[reader[loop.reader].file]
    IN  /\ loop.pc = "lookup"
        /\ IF i = NoId THEN Respond("denied")
           ELSE loop' = [loop EXCEPT !.pc = "get", !.id = i] /\ UNCHANGED reader
        /\ UNCHANGED <<path, filled, published, registry, fanotify, client>>

(* InstanceRegistry::get, under the read lock. *)
Get ==
    LET target == instances[loop.id]
    IN  /\ loop.pc = "get"
        /\ writer = NoClient
        /\ IF target = NoFile THEN Respond("denied")
           ELSE loop' = [loop EXCEPT !.pc = "ensure", !.target = target] /\ UNCHANGED reader
        /\ UNCHANGED <<path, filled, published, registry, fanotify, client>>

(* Instance::ensure_range, on the instance found: Ok with the range filled,*)
(* or an error; the event is answered FAN_ALLOW or FAN_DENY.               *)
Ensure ==
    /\ loop.pc = "ensure"
    /\ filled' = filled \cup {loop.target}
    /\ Respond("read")
    /\ UNCHANGED <<path, published, registry, fanotify, client>>

(* Mutant of EnsureFails: the reader is let through on an error. *)
MutantAllowsOnError ==
    /\ loop.pc = "ensure"
    /\ Respond("read")
    /\ UNCHANGED <<path, filled, published, registry, fanotify, client>>

EnsureFails ==
    /\ loop.pc = "ensure"
    /\ Respond("denied")
    /\ UNCHANGED <<path, filled, published, registry, fanotify, client>>

Serve(c) ==
    \/ RegisterExisting(c) \/ RegisterOpen(c)
    \/ MarkKernel(c) \/ MarkName(c) \/ Insert(c)
    \/ Unregister(c) \/ UnmarkStat(c) \/ UnmarkKernel(c) \/ UnmarkName(c)

Call(c) ==
    \/ \E i \in Ids, f \in Files : BindLayer(c, i, f)
    \/ Commit(c) \/ CommitFails(c) \/ CleanupRemove(c)
    \/ \E i \in Ids : Remove(c, i)
    \/ RemoveReturns(c)
    \/ GiveUp(c)

Read(r) == (\E i \in Ids : Open(r, i)) \/ Access(r) \/ Close(r)

TakeEvent(r) == NextEvent(r) \/ LoseEvent(r)

Handle == Lookup \/ Get \/ Ensure \/ EnsureFails

Next ==
    \/ \E c \in Clients : Serve(c) \/ Call(c)
    \/ \E r \in Readers : Read(r) \/ TakeEvent(r)
    \/ Handle

(* lazyd runs the requests it has accepted, and its event loop whenever it *)
(* can go on.  Strong fairness stands for two queues: the kernel's queue of*)
(* events and the one of tokio's RwLock, both first in, first out.  There  *)
(* is none for Ensure and EnsureFails: the remote read has no timeout.     *)
Fairness ==
    /\ \A c \in Clients : WF_vars(Serve(c))
    /\ \A r \in Readers : SF_vars(TakeEvent(r))
    /\ WF_vars(Lookup)
    /\ SF_vars(Get)

Spec == Init /\ [][Next]_vars
FairSpec == Spec /\ Fairness

-----------------------------------------------------------------------------
ClientSteps == {"idle", "put", "mark", "name", "insert", "bound", "unbound",
                "delete", "unmark", "unwatch", "unname", "failed"}
ReaderSteps == {"closed", "open", "queued", "waits", "read", "denied", "lost"}
FileOrNone == Files \cup {NoFile}

(* The type invariant; the lock is held from the target's opening to its   *)
(* insertion.                                                              *)
TypeOK ==
    /\ path \in [Files -> {"none", "there", "gone"}]
    /\ filled \subseteq Files
    /\ published \in [Ids -> FileOrNone]
    /\ instances \in [Ids -> FileOrNone]
    /\ writer \in Clients \cup {NoClient}
    /\ watched \subseteq Files
    /\ marks \in [Files -> Ids \cup {NoId}]
    /\ client \in [Clients -> [pc : ClientSteps, id : Ids \cup {NoId}, file : FileOrNone,
                               removed : FileOrNone, gaveUp : BOOLEAN]]
    /\ reader \in [Readers -> [pc : ReaderSteps, file : FileOrNone]]
    /\ loop \in [pc : {"rest", "lookup", "get", "ensure"}, reader : Readers \cup {NoReader},
                  id : Ids \cup {NoId}, target : FileOrNone]
    /\ \A c \in Clients : writer = c <=> client[c].pc \in {"mark", "name", "insert"}

(* No reader gets the zeros of a hole as long as its layer is not removed: *)
(* whichever way a read of a mounted layer went through, the blob's bytes  *)
(* are in its file, however requests for the same chain ID overlap.  (A    *)
(* mount that outlives the Remove of its layer does get them, once the     *)
(* file is unmarked.)                                                      *)
ReadsFilled ==
    \A r \in Readers :
        LET f == reader[r].file
        IN  reader[r].pc = "read" /\ path[f] = "there" => f \in filled

(* The registry and the marks agree, though only the registry is under the *)
(* lock: as long as its path is there, the file of a registered instance   *)
(* is watched and its events lead to that instance.                        *)
RegisteredWatched ==
    \A i \in Ids :
        LET f == instances[i]
        IN  f # NoFile /\ path[f] = "there" => f \in watched /\ marks[f] = i

(* A mounted layer never loses the instance it is filled by. *)
PublishedRegistered == \A i \in Ids : published[i] # NoFile => instances[i] = published[i]

(* A reader that waits for the answer to a pre-access event gets one, or   *)
(* its event was cut off by parse_events (fanotify.rs:268; FanotifyEvents  *)
(* says when), whatever becomes of the instance meanwhile, unless a remote *)
(* read that ensure_range waits for never returns (fanotify.rs:190 sets no *)
(* timeout): then the one event loop answers nobody any more.              *)
EventsAnswered ==
    \/ \A r \in Readers : []<>(reader[r].pc \notin {"queued", "waits"})
    \/ <>[](loop.pc = "ensure")

(* Remove of a proxy snapshot succeeds.                                    *)
(* (snapshotter_test.go:276, Remove of a proxy snapshot returns no error)  *)
RemoveSucceeds == \A c \in Clients : ~At(c, "failed")
=============================================================================
