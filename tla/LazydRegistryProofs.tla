------------------------ MODULE LazydRegistryProofs ------------------------
(***************************************************************************)
(* Proofs about LazydRegistry, for any number of clients, readers, chain   *)
(* IDs and files.                                                          *)
(***************************************************************************)
EXTENDS LazydRegistry, TLAPS

Registering == {"put", "mark", "name", "insert"}
Locked == {"mark", "name", "insert"}
Owning == {"bound", "delete"}
Unmarking == {"unmark", "unwatch", "unname"}

(* A file that anyone knows of has been created: a fresh one is nobody's. *)
FilesUsed ==
    /\ \A c \in Clients : /\ client[c].file \in Files => path[client[c].file] # "none"
                          /\ client[c].removed \in Files => path[client[c].removed] # "none"
    /\ \A i \in Ids : instances[i] \in Files => path[instances[i]] # "none"
    /\ \A r \in Readers : reader[r].file \in Files => path[reader[r].file] # "none"

(* What a request knows at each of its steps.  The file it registers is in *)
(* no instance yet; under the lock its id has no instance; a client that   *)
(* was told Ok, or that is about to unbind, has the instance of its id,    *)
(* which is not published; and the file it unmarks is in no instance.      *)
ClientOK(c) ==
    LET k == client[c]
    IN  /\ k.pc # "idle" => k.id \in Ids
        /\ k.pc \in Registering =>
              k.file \in Files /\ \A i \in Ids : instances[i] # k.file
        /\ k.pc \in Locked => instances[k.id] = NoFile
        /\ k.pc \in {"name", "insert"} /\ path[k.file] = "there" => k.file \in watched
        /\ k.pc = "insert" /\ path[k.file] = "there" => marks[k.file] = k.id
        /\ k.pc = "bound" => k.file \in Files
        /\ k.pc \in Owning =>
              /\ published[k.id] = NoFile
              /\ instances[k.id] # NoFile
              /\ k.file # NoFile => instances[k.id] = k.file
        /\ k.pc \in Unmarking =>
              k.removed \in Files /\ \A i \in Ids : instances[i] # k.removed

(* Two clients do not own one id, register one file, or unmark what the    *)
(* other registers.                                                        *)
ClientsApart ==
    \A c, d \in Clients :
        LET k == client[c]
            l == client[d]
        IN  c # d =>
              /\ k.pc \in Owning /\ l.pc \in Owning => k.id # l.id
              /\ k.pc \in Registering /\ l.pc \in Registering => k.file # l.file
              /\ k.pc \in Registering /\ l.pc \in Unmarking => k.file # l.removed

InstancesApart ==
    \A i, j \in Ids : i # j /\ instances[i] # NoFile => instances[i] # instances[j]

(* A reader's file is published for as long as it is there. *)
ReadersOK ==
    \A r \in Readers :
        LET f == reader[r].file
        IN  reader[r].pc # "closed" =>
                f \in Files /\ (path[f] = "there" => \E i \in Ids : published[i] = f)

(* The event before the loop: as long as its file is there, its id is the  *)
(* one the file is published under, and the target found is that file.     *)
LoopOK ==
    loop.pc # "rest" =>
        /\ loop.reader \in Readers
        /\ reader[loop.reader].pc = "waits"
        /\ loop.pc \in {"get", "ensure"} =>
              /\ loop.id \in Ids
              /\ path[reader[loop.reader].file] = "there" =>
                    published[loop.id] = reader[loop.reader].file
        /\ loop.pc = "ensure" => loop.target \in Files
        /\ loop.pc = "ensure" /\ path[reader[loop.reader].file] = "there" =>
                  loop.target = reader[loop.reader].file

ClientsOK == (\A c \in Clients : ClientOK(c)) /\ ClientsApart
InstancesOK == InstancesApart /\ RegisteredWatched /\ PublishedRegistered
ReadsOK == ReadersOK /\ LoopOK /\ ReadsFilled

IndInv == TypeOK /\ FilesUsed /\ ClientsOK /\ InstancesOK /\ ReadsOK

-----------------------------------------------------------------------------
(* Nobody does anything at the start. *)
LEMMA InitIndInv == Init => IndInv
<1> SUFFICES ASSUME Init PROVE IndInv
  OBVIOUS
<1> USE NullAssumption DEF Init, Idle, Resting
<1>1. TypeOK
  BY DEF TypeOK, ClientSteps, FileOrNone, ReaderSteps
<1>2. FilesUsed
  BY DEF FilesUsed
<1>3. ClientsOK
  BY DEF ClientsOK, ClientOK, ClientsApart, Registering, Locked, Owning, Unmarking
<1>4. InstancesOK
  BY DEF InstancesOK, InstancesApart, RegisteredWatched, PublishedRegistered
<1>5. ReadsOK
  BY DEF ReadsOK, ReadersOK, LoopOK, ReadsFilled
<1> QED
  BY <1>1, <1>2, <1>3, <1>4, <1>5 DEF IndInv

(* A call moves on, or ends; the others stay where they are. *)
Calls == [pc : ClientSteps, id : Ids \cup {NoId}, file : FileOrNone,
          removed : FileOrNone, gaveUp : BOOLEAN]

LEMMA MoveTyped ==
    ASSUME TypeOK, NEW c \in Clients, NEW pc \in ClientSteps, Goto(c, pc) \/ Answer(c, pc)
    PROVE  /\ client' \in [Clients -> Calls]
           /\ client'[c].pc \in {pc, "idle"}
           /\ Goto(c, pc) => client'[c].pc = pc
           /\ \/ client'[c] = Idle
              \/ /\ client'[c].id = client[c].id
                 /\ client'[c].file = client[c].file
                 /\ client'[c].removed = client[c].removed
           /\ \A d \in Clients : d # c => client'[d] = client[d]
<1>1. client \in [Clients -> Calls] /\ client[c] \in Calls
  BY DEF TypeOK, Calls
<1>2. Idle \in Calls
  BY DEF Idle, Calls, ClientSteps, FileOrNone
<1>3. /\ [client[c] EXCEPT !.pc = pc] \in Calls
      /\ [client[c] EXCEPT !.pc = pc].pc = pc
      /\ [client[c] EXCEPT !.pc = pc].id = client[c].id
      /\ [client[c] EXCEPT !.pc = pc].file = client[c].file
      /\ [client[c] EXCEPT !.pc = pc].removed = client[c].removed
  BY <1>1 DEF Calls
<1>4. Idle.pc = "idle"
  BY DEF Idle
<1>5. CASE Goto(c, pc)
  BY <1>1, <1>3, <1>5 DEF Goto
<1>6. CASE Answer(c, pc)
  <2>1. CASE client[c].gaveUp \/ pc = "idle"
    <3>1. client' = [client EXCEPT ![c] = Idle]
      BY <1>6, <2>1 DEF Answer
    <3>2. ~Goto(c, pc) \/ client'[c].pc = pc
      BY <1>1, <1>3 DEF Goto
    <3> QED
      BY <1>1, <1>2, <1>4, <3>1, <3>2
  <2>2. CASE ~(client[c].gaveUp \/ pc = "idle")
    <3>1. client' = [client EXCEPT ![c] = [client[c] EXCEPT !.pc = pc]]
      BY <1>6, <2>2 DEF Answer
    <3> QED
      BY <1>1, <1>3, <3>1
  <2> QED
    BY <2>1, <2>2
<1> QED
  BY <1>5, <1>6

(* The lock is with the client between its lock and its unlock. *)
LEMMA LockStep ==
    ASSUME TypeOK, NEW c \in Clients, writer \in {c, NoClient},
           \/ writer' = c /\ client'[c].pc \in {"mark", "name", "insert"}
           \/ writer' = NoClient /\ client'[c].pc \notin {"mark", "name", "insert"},
           \A d \in Clients : d # c => client'[d] = client[d]
    PROVE  /\ writer' \in Clients \cup {NoClient}
           /\ \A d \in Clients : writer' = d <=> client'[d].pc \in {"mark", "name", "insert"}
<1>1. ASSUME NEW d \in Clients, d # c
      PROVE  writer' # d /\ client'[d].pc \notin {"mark", "name", "insert"}
  <2>1. writer # d
    BY <1>1, NullAssumption
  <2>2. client[d].pc \notin {"mark", "name", "insert"}
    BY <2>1 DEF TypeOK
  <2> QED
    BY <1>1, <2>2, NullAssumption
<1> QED
  BY <1>1, NullAssumption

(* A call that moves on, or ends, knows no file that it did not know.      *)
LEMMA FilesFrame ==
    ASSUME FilesUsed, UNCHANGED <<path, instances, reader>>, NEW c \in Clients,
           \/ client'[c].file = NoFile /\ client'[c].removed = NoFile
           \/ client'[c].file = client[c].file /\ client'[c].removed = client[c].removed,
           \A d \in Clients : d # c => client'[d] = client[d]
    PROVE  FilesUsed'
<1>1. ASSUME NEW d \in Clients
      PROVE  /\ client'[d].file \in Files => path'[client'[d].file] # "none"
             /\ client'[d].removed \in Files => path'[client'[d].removed] # "none"
  BY NullAssumption DEF FilesUsed
<1> QED
  BY <1>1 DEF FilesUsed

(* What clients do does not reach the readers, as long as no file comes    *)
(* back and what is published stays so as long as it is there.             *)
LEMMA ReadsFrame ==
    ASSUME IndInv, UNCHANGED <<filled, reader, loop>>,
           \A f \in Files : path'[f] = "there" => path[f] \in {"none", "there"},
           \A i \in Ids : published[i] # NoFile /\ path'[published[i]] = "there" =>
              published'[i] = published[i]
    PROVE  ReadsOK'
<1> USE NullAssumption DEF IndInv, FilesUsed, ReadsOK
<1>1. ReadersOK'
  BY DEF ReadersOK
<1>2. LoopOK'
  BY DEF ReadersOK, LoopOK
<1>3. ReadsFilled'
  BY DEF ReadersOK, ReadsFilled
<1> QED
  BY <1>1, <1>2, <1>3

(* What readers and the event loop do does not reach the clients. *)
LEMMA ClientsFrame ==
    ASSUME IndInv, UNCHANGED <<path, published, registry, fanotify, client>>
    PROVE  ClientsOK' /\ InstancesOK'
  BY DEF IndInv, ClientsOK, ClientOK, ClientsApart, InstancesOK, InstancesApart,
         RegisteredWatched, PublishedRegistered, registry, fanotify

(* The loop answers the reader it is at. *)
LEMMA RespondTyped ==
    ASSUME IndInv, loop.pc # "rest", NEW answer \in {"read", "denied"}, Respond(answer)
    PROVE  /\ loop' \in [pc : {"rest", "lookup", "get", "ensure"},
                         reader : Readers \cup {NoReader},
                         id : Ids \cup {NoId}, target : FileOrNone]
           /\ reader' \in [Readers -> [pc : ReaderSteps, file : FileOrNone]]
           /\ loop'.pc = "rest"
           /\ \A r \in Readers : reader'[r].file = reader[r].file
           /\ \A r \in Readers : reader'[r].pc =
                 IF r = loop.reader THEN answer ELSE reader[r].pc
<1>1. loop' = Resting /\ reader' = [reader EXCEPT ![loop.reader].pc = answer]
  BY DEF Respond
<1>2. \A r \in Readers : reader[r] \in [pc : ReaderSteps, file : FileOrNone]
  BY DEF IndInv, TypeOK
<1>3. \A r \in Readers : reader'[r] = IF r = loop.reader THEN [reader[r] EXCEPT !.pc = answer]
                                                         ELSE reader[r]
  BY <1>1 DEF IndInv, TypeOK
<1>4. loop.reader \in Readers
  BY DEF IndInv, ReadsOK, LoopOK
<1> QED
  BY <1>1, <1>2, <1>3, <1>4 DEF Resting, FileOrNone, IndInv, TypeOK, ReaderSteps

(* The lock is taken for a file that is in no instance and an id that has  *)
(* none.                                                                   *)
LEMMA RegisterOpenStep ==
    ASSUME IndInv, NEW c \in Clients, RegisterOpen(c)
    PROVE  IndInv'
<1>1. TypeOK'
  <2>1. /\ client' \in [Clients -> Calls]
        /\ client'[c].pc \in {"idle", "mark", "unbound"}
        /\ \A d \in Clients : d # c => client'[d] = client[d]
    BY MoveTyped DEF IndInv, RegisterOpen, ClientSteps
  <2>2. \/ writer' = c /\ client'[c].pc = "mark"
        \/ writer' = NoClient /\ client'[c].pc \in {"idle", "unbound"}
    <3>1. CASE path[client[c].file] = "there"
      BY <3>1, MoveTyped DEF IndInv, RegisterOpen, At, TypeOK, ClientSteps
    <3>2. CASE path[client[c].file] # "there"
      <4>1. Answer(c, "unbound") /\ writer' = NoClient
        BY <3>2 DEF RegisterOpen
      <4> QED
        BY <4>1, MoveTyped DEF IndInv, ClientSteps
    <3> QED
      BY <3>1, <3>2
  <2>3. writer \in {c, NoClient}
    BY DEF RegisterOpen, IndInv, TypeOK, At
  <2>4. /\ writer' \in Clients \cup {NoClient}
        /\ \A d \in Clients : writer' = d <=> client'[d].pc \in {"mark", "name", "insert"}
    BY <2>1, <2>2, <2>3, LockStep DEF IndInv
  <2> QED
    BY <2>1, <2>4 DEF RegisterOpen, IndInv, TypeOK, Calls, registry, fanotify
<1> USE NullAssumption DEF RegisterOpen, At, Goto, Answer, Idle, registry, fanotify
<1>2. FilesUsed'
  <2>1. \/ client'[c] = Idle
        \/ client'[c].file = client[c].file /\ client'[c].removed = client[c].removed
    BY MoveTyped DEF IndInv, ClientSteps
  <2>2. \A d \in Clients : d # c => client'[d] = client[d]
    BY DEF IndInv, TypeOK
  <2>3. UNCHANGED <<path, instances, reader>>
    OBVIOUS
  <2>4. Idle.file = NoFile /\ Idle.removed = NoFile
    OBVIOUS
  <2> QED
    BY <2>1, <2>2, <2>3, <2>4, FilesFrame DEF IndInv
<1>3. \A d \in Clients : ClientOK(d)'
  <2>1. ASSUME NEW d \in Clients, d # c PROVE ClientOK(d)'
    <3>1. client'[d] = client[d] /\ ClientOK(d)
      BY <2>1 DEF IndInv, TypeOK, ClientsOK
    <3> QED
      BY <3>1 DEF ClientOK
  <2>2. ClientOK(c)'
    <3>1. ClientOK(c) /\ client[c].pc = "put" /\ client[c].id \in Ids
      BY DEF IndInv, ClientsOK, ClientOK
    <3>2. \/ client'[c].pc = "idle"
          \/ client'[c] = [client[c] EXCEPT !.pc = "unbound"]
          \/ client'[c] = [client[c] EXCEPT !.pc = "mark"]
      BY DEF IndInv, TypeOK
    <3>3. instances[client[c].id] = NoFile
      OBVIOUS
    <3> QED
      BY <3>1, <3>2, <3>3
         DEF IndInv, TypeOK, ClientOK, Registering, Locked, Owning, Unmarking
  <2> QED
    BY <2>1, <2>2
<1>4. ClientsApart'
  <2>1. /\ client[c].pc = "put"
        /\ \/ client'[c].pc \notin Registering
           \/ client'[c].file = client[c].file
        /\ client'[c].pc \in {"idle", "mark", "unbound"}
    BY DEF IndInv, TypeOK, Registering
  <2>2. \A d \in Clients : d # c => client'[d] = client[d]
    BY DEF IndInv, TypeOK
  <2> QED
    BY <2>1, <2>2 DEF IndInv, ClientsOK, ClientsApart, Registering, Owning, Unmarking
<1>5. InstancesOK'
  <2>1. InstancesApart'
    BY DEF IndInv, TypeOK, FileOrNone, ClientsOK, ClientOK, InstancesOK, InstancesApart,
           Registering, Locked
  <2>2. RegisteredWatched'
    BY DEF IndInv, TypeOK, FileOrNone, FilesUsed, ClientsOK, ClientOK, InstancesOK,
           InstancesApart, RegisteredWatched, Registering, Locked, Unmarking
  <2>3. PublishedRegistered'
    BY DEF IndInv, TypeOK, FileOrNone, ClientsOK, ClientOK, InstancesOK,
           PublishedRegistered, Registering, Locked, Owning
  <2> QED
    BY <2>1, <2>2, <2>3 DEF InstancesOK
<1>6. ReadsOK'
  BY ReadsFrame DEF IndInv, TypeOK, FileOrNone, ClientsOK, ClientOK, Owning
<1> QED
  BY <1>1, <1>2, <1>3, <1>4, <1>5, <1>6 DEF IndInv, ClientsOK

(* An id that has an instance has another one: the file of a PUT is in     *)
(* none.                                                                   *)
LEMMA RegisterExistingStep ==
    ASSUME IndInv, NEW c \in Clients, RegisterExisting(c)
    PROVE  IndInv'
<1>1. TypeOK'
  <2>1. /\ client' \in [Clients -> Calls]
        /\ client'[c].pc \in {"idle", "bound", "unbound"}
        /\ \A d \in Clients : d # c => client'[d] = client[d]
    BY MoveTyped DEF IndInv, RegisterExisting, ClientSteps
  <2>2. UNCHANGED <<loop, reader, filled>>
    BY DEF RegisterExisting, registry, fanotify
  <2> QED
    BY <2>1, <2>2, NullAssumption
       DEF RegisterExisting, IndInv, TypeOK, Calls, At, registry, fanotify, FileOrNone
<1> USE NullAssumption DEF RegisterExisting, At, Goto, Answer, Idle, registry, fanotify
<1>2. FilesUsed'
  BY <1>1 DEF IndInv, TypeOK, FileOrNone, FilesUsed, ClientsOK, ClientOK, InstancesOK,
              PublishedRegistered
<1>3. \A d \in Clients : ClientOK(d)'
  BY <1>1 DEF IndInv, TypeOK, FileOrNone, FilesUsed, ClientsOK, ClientOK, ClientsApart,
              InstancesOK, PublishedRegistered, Registering, Locked, Owning, Unmarking
<1>4. ClientsApart'
  BY <1>1 DEF IndInv, TypeOK, FileOrNone, FilesUsed, ClientsOK, ClientOK, ClientsApart,
              InstancesOK, PublishedRegistered, Registering, Locked, Owning, Unmarking
<1>5. InstancesOK'
  <2>1. InstancesApart'
    BY DEF IndInv, TypeOK, FileOrNone, ClientsOK, ClientOK, InstancesOK, InstancesApart,
           Registering, Locked
  <2>2. RegisteredWatched'
    BY DEF IndInv, TypeOK, FileOrNone, FilesUsed, ClientsOK, ClientOK, InstancesOK,
           InstancesApart, RegisteredWatched, Registering, Locked, Unmarking
  <2>3. PublishedRegistered'
    BY DEF IndInv, TypeOK, FileOrNone, ClientsOK, ClientOK, InstancesOK,
           PublishedRegistered, Registering, Locked, Owning
  <2> QED
    BY <2>1, <2>2, <2>3 DEF InstancesOK
<1>6. ReadsOK'
  BY ReadsFrame DEF IndInv, TypeOK, FileOrNone, ClientsOK, ClientOK, Owning
<1> QED
  BY <1>1, <1>2, <1>3, <1>4, <1>5, <1>6 DEF IndInv, ClientsOK

(* The kernel's mark. *)
LEMMA MarkKernelStep ==
    ASSUME IndInv, NEW c \in Clients, MarkKernel(c)
    PROVE  IndInv'
<1>1. TypeOK'
  <2>1. /\ client' \in [Clients -> Calls]
        /\ client'[c].pc \in {"idle", "name", "unbound"}
        /\ \A d \in Clients : d # c => client'[d] = client[d]
    BY MoveTyped DEF IndInv, MarkKernel, ClientSteps
  <2>2. \/ writer' = c /\ client'[c].pc = "name"
        \/ writer' = NoClient /\ client'[c].pc \in {"idle", "unbound"}
    <3>1. CASE path[client[c].file] = "there"
      BY <3>1, MoveTyped DEF IndInv, MarkKernel, At, TypeOK, ClientSteps
    <3>2. CASE path[client[c].file] # "there"
      <4>1. Answer(c, "unbound") /\ writer' = NoClient
        BY <3>2 DEF MarkKernel
      <4> QED
        BY <4>1, MoveTyped DEF IndInv, ClientSteps
    <3> QED
      BY <3>1, <3>2
  <2>3. writer \in {c, NoClient}
    BY DEF MarkKernel, IndInv, TypeOK, At
  <2>4. /\ writer' \in Clients \cup {NoClient}
        /\ \A d \in Clients : writer' = d <=> client'[d].pc \in {"mark", "name", "insert"}
    BY <2>1, <2>2, <2>3, LockStep DEF IndInv
  <2>5. watched' \subseteq Files /\ marks' \in [Files -> Ids \cup {NoId}]
    <3>1. client[c].file \in Files
      BY DEF MarkKernel, At, IndInv, ClientsOK, ClientOK, Registering
    <3> QED
      BY <3>1 DEF MarkKernel, IndInv, TypeOK
  <2> QED
    BY <2>1, <2>4, <2>5 DEF MarkKernel, IndInv, TypeOK, Calls
<1> USE NullAssumption DEF MarkKernel, At, Goto, Answer, Idle, registry, fanotify
<1>2. FilesUsed'
  BY <1>1 DEF IndInv, TypeOK, FileOrNone, FilesUsed, ClientsOK, ClientOK, InstancesOK,
              PublishedRegistered
<1>3. \A d \in Clients : ClientOK(d)'
  BY <1>1 DEF IndInv, TypeOK, FileOrNone, FilesUsed, ClientsOK, ClientOK, ClientsApart,
              InstancesOK, PublishedRegistered, Registering, Locked, Owning, Unmarking
<1>4. ClientsApart'
  BY <1>1 DEF IndInv, TypeOK, FileOrNone, FilesUsed, ClientsOK, ClientOK, ClientsApart,
              InstancesOK, PublishedRegistered, Registering, Locked, Owning, Unmarking
<1>5. InstancesOK'
  <2>1. InstancesApart'
    BY DEF IndInv, TypeOK, FileOrNone, ClientsOK, ClientOK, InstancesOK, InstancesApart,
           Registering, Locked
  <2>2. RegisteredWatched'
    BY DEF IndInv, TypeOK, FileOrNone, FilesUsed, ClientsOK, ClientOK, InstancesOK,
           InstancesApart, RegisteredWatched, Registering, Locked, Unmarking
  <2>3. PublishedRegistered'
    BY DEF IndInv, TypeOK, FileOrNone, ClientsOK, ClientOK, InstancesOK,
           PublishedRegistered, Registering, Locked, Owning
  <2> QED
    BY <2>1, <2>2, <2>3 DEF InstancesOK
<1>6. ReadsOK'
  BY ReadsFrame DEF IndInv, TypeOK, FileOrNone, ClientsOK, ClientOK, Owning
<1> QED
  BY <1>1, <1>2, <1>3, <1>4, <1>5, <1>6 DEF IndInv, ClientsOK

(* The entry the event loop looks up; the file is in no instance yet. *)
LEMMA MarkNameStep ==
    ASSUME IndInv, NEW c \in Clients, MarkName(c)
    PROVE  IndInv'
<1>1. TypeOK'
  <2>1. /\ client' \in [Clients -> Calls]
        /\ client'[c].pc \in {"idle", "insert", "unbound"}
        /\ \A d \in Clients : d # c => client'[d] = client[d]
    BY MoveTyped DEF IndInv, MarkName, ClientSteps
  <2>2. \/ writer' = c /\ client'[c].pc = "insert"
        \/ writer' = NoClient /\ client'[c].pc \in {"idle", "unbound"}
    <3>1. CASE path[client[c].file] = "there"
      BY <3>1, MoveTyped DEF IndInv, MarkName, At, TypeOK, ClientSteps
    <3>2. CASE path[client[c].file] # "there"
      <4>1. Answer(c, "unbound") /\ writer' = NoClient
        BY <3>2 DEF MarkName
      <4> QED
        BY <4>1, MoveTyped DEF IndInv, ClientSteps
    <3> QED
      BY <3>1, <3>2
  <2>3. writer \in {c, NoClient}
    BY DEF MarkName, IndInv, TypeOK, At
  <2>4. /\ writer' \in Clients \cup {NoClient}
        /\ \A d \in Clients : writer' = d <=> client'[d].pc \in {"mark", "name", "insert"}
    BY <2>1, <2>2, <2>3, LockStep DEF IndInv
  <2>5. watched' \subseteq Files /\ marks' \in [Files -> Ids \cup {NoId}]
    <3>1. client[c].id \in Ids \cup {NoId}
      BY DEF IndInv, TypeOK
    <3> QED
      BY <3>1 DEF MarkName, IndInv, TypeOK
  <2> QED
    BY <2>1, <2>4, <2>5 DEF MarkName, IndInv, TypeOK, Calls
<1> USE NullAssumption DEF MarkName, At, Goto, Answer, Idle, registry, fanotify
<1>2. FilesUsed'
  BY <1>1 DEF IndInv, TypeOK, FileOrNone, FilesUsed, ClientsOK, ClientOK, InstancesOK,
              PublishedRegistered
<1>3. \A d \in Clients : ClientOK(d)'
  <2> SUFFICES ASSUME NEW d \in Clients PROVE ClientOK(d)'
    OBVIOUS
  <2>1. CASE path[client[c].file] = "there" /\ d = c
    BY <1>1, <2>1 DEF IndInv, TypeOK, FileOrNone, FilesUsed, ClientsOK, ClientOK, ClientsApart,
               InstancesOK, PublishedRegistered, Registering, Locked, Owning, Unmarking
  <2>2. CASE path[client[c].file] = "there" /\ d # c
    BY <1>1, <2>2 DEF IndInv, TypeOK, FileOrNone, FilesUsed, ClientsOK, ClientOK, ClientsApart,
               InstancesOK, PublishedRegistered, Registering, Locked, Owning, Unmarking
  <2>3. CASE path[client[c].file] # "there"
    BY <1>1, <2>3 DEF IndInv, TypeOK, FileOrNone, FilesUsed, ClientsOK, ClientOK, ClientsApart,
               InstancesOK, PublishedRegistered, Registering, Locked, Owning, Unmarking
  <2> QED
    BY <2>1, <2>2, <2>3
<1>4. ClientsApart'
  BY <1>1 DEF IndInv, TypeOK, FileOrNone, FilesUsed, ClientsOK, ClientOK, ClientsApart,
              InstancesOK, PublishedRegistered, Registering, Locked, Owning, Unmarking
<1>5. InstancesOK'
  <2>1. InstancesApart'
    BY DEF IndInv, TypeOK, FileOrNone, ClientsOK, ClientOK, InstancesOK, InstancesApart,
           Registering, Locked
  <2>2. RegisteredWatched'
    BY DEF IndInv, TypeOK, FileOrNone, FilesUsed, ClientsOK, ClientOK, InstancesOK,
           InstancesApart, RegisteredWatched, Registering, Locked, Unmarking
  <2>3. PublishedRegistered'
    BY DEF IndInv, TypeOK, FileOrNone, ClientsOK, ClientOK, InstancesOK,
           PublishedRegistered, Registering, Locked, Owning
  <2> QED
    BY <2>1, <2>2, <2>3 DEF InstancesOK
<1>6. ReadsOK'
  BY ReadsFrame DEF IndInv, TypeOK, FileOrNone, ClientsOK, ClientOK, Owning
<1> QED
  BY <1>1, <1>2, <1>3, <1>4, <1>5, <1>6 DEF IndInv, ClientsOK

(* The file becomes the instance of an id that had none: its marks are set. *)
LEMMA InsertStep ==
    ASSUME IndInv, NEW c \in Clients, Insert(c)
    PROVE  IndInv'
<1>1. TypeOK'
  <2>1. /\ client' \in [Clients -> Calls]
        /\ client'[c].pc \in {"idle", "bound"}
        /\ \A d \in Clients : d # c => client'[d] = client[d]
    BY MoveTyped DEF IndInv, Insert, ClientSteps
  <2>2. UNCHANGED <<loop, reader, filled>>
    BY DEF Insert, registry, fanotify
  <2> QED
    BY <2>1, <2>2, NullAssumption
       DEF Insert, IndInv, TypeOK, Calls, At, registry, fanotify, FileOrNone
<1> USE NullAssumption DEF Insert, At, Goto, Answer, Idle, registry, fanotify
<1>2. FilesUsed'
  BY <1>1 DEF IndInv, TypeOK, FileOrNone, FilesUsed, ClientsOK, ClientOK, InstancesOK,
              PublishedRegistered
<1>3. \A d \in Clients : ClientOK(d)'
  BY <1>1 DEF IndInv, TypeOK, FileOrNone, FilesUsed, ClientsOK, ClientOK, ClientsApart,
              InstancesOK, PublishedRegistered, Registering, Locked, Owning, Unmarking
<1>4. ClientsApart'
  BY <1>1 DEF IndInv, TypeOK, FileOrNone, FilesUsed, ClientsOK, ClientOK, ClientsApart,
              InstancesOK, PublishedRegistered, Registering, Locked, Owning, Unmarking
<1>5. InstancesOK'
  <2>1. InstancesApart'
    BY DEF IndInv, TypeOK, FileOrNone, ClientsOK, ClientOK, InstancesOK, InstancesApart,
           Registering, Locked
  <2>2. RegisteredWatched'
    BY DEF IndInv, TypeOK, FileOrNone, FilesUsed, ClientsOK, ClientOK, InstancesOK,
           InstancesApart, RegisteredWatched, Registering, Locked, Unmarking
  <2>3. PublishedRegistered'
    BY DEF IndInv, TypeOK, FileOrNone, ClientsOK, ClientOK, InstancesOK,
           PublishedRegistered, Registering, Locked, Owning
  <2> QED
    BY <2>1, <2>2, <2>3 DEF InstancesOK
<1>6. ReadsOK'
  BY ReadsFrame DEF IndInv, TypeOK, FileOrNone, ClientsOK, ClientOK, Owning
<1> QED
  BY <1>1, <1>2, <1>3, <1>4, <1>5, <1>6 DEF IndInv, ClientsOK

(* What is published is what its client was told to be registered. *)
LEMMA CommitStep ==
    ASSUME IndInv, NEW c \in Clients, Commit(c)
    PROVE  IndInv'
<1>1. TypeOK'
  <2>1. /\ client' \in [Clients -> Calls]
        /\ client'[c].pc \in {"idle"}
        /\ \A d \in Clients : d # c => client'[d] = client[d]
    BY MoveTyped DEF IndInv, Commit, ClientSteps
  <2>2. UNCHANGED <<loop, reader, filled>>
    BY DEF Commit, registry, fanotify
  <2> QED
    BY <2>1, <2>2, NullAssumption
       DEF Commit, IndInv, TypeOK, Calls, At, registry, fanotify, FileOrNone
<1> USE NullAssumption DEF Commit, At, Goto, Answer, Idle, registry, fanotify
<1>2. FilesUsed'
  BY <1>1 DEF IndInv, TypeOK, FileOrNone, FilesUsed, ClientsOK, ClientOK, InstancesOK,
              PublishedRegistered
<1>3. \A d \in Clients : ClientOK(d)'
  BY <1>1 DEF IndInv, TypeOK, FileOrNone, FilesUsed, ClientsOK, ClientOK, ClientsApart,
              InstancesOK, PublishedRegistered, Registering, Locked, Owning, Unmarking
<1>4. ClientsApart'
  BY <1>1 DEF IndInv, TypeOK, FileOrNone, FilesUsed, ClientsOK, ClientOK, ClientsApart,
              InstancesOK, PublishedRegistered, Registering, Locked, Owning, Unmarking
<1>5. InstancesOK'
  <2>1. InstancesApart'
    BY DEF IndInv, TypeOK, FileOrNone, ClientsOK, ClientOK, InstancesOK, InstancesApart,
           Registering, Locked
  <2>2. RegisteredWatched'
    BY DEF IndInv, TypeOK, FileOrNone, FilesUsed, ClientsOK, ClientOK, InstancesOK,
           InstancesApart, RegisteredWatched, Registering, Locked, Unmarking
  <2>3. PublishedRegistered'
    BY DEF IndInv, TypeOK, FileOrNone, ClientsOK, ClientOK, InstancesOK,
           PublishedRegistered, Registering, Locked, Owning
  <2> QED
    BY <2>1, <2>2, <2>3 DEF InstancesOK
<1>6. ReadsOK'
  BY ReadsFrame DEF IndInv, TypeOK, FileOrNone, ClientsOK, ClientOK, Owning
<1> QED
  BY <1>1, <1>2, <1>3, <1>4, <1>5, <1>6 DEF IndInv, ClientsOK

(* A client that fails to commit goes to unbind what it owns. *)
LEMMA CommitFailsStep ==
    ASSUME IndInv, NEW c \in Clients, CommitFails(c)
    PROVE  IndInv'
<1>1. TypeOK'
  <2>1. /\ client' \in [Clients -> Calls]
        /\ client'[c].pc \in {"idle", "delete"}
        /\ \A d \in Clients : d # c => client'[d] = client[d]
    BY MoveTyped DEF IndInv, CommitFails, ClientSteps
  <2>2. UNCHANGED <<loop, reader, filled>>
    BY DEF CommitFails, registry, fanotify
  <2> QED
    BY <2>1, <2>2, NullAssumption
       DEF CommitFails, IndInv, TypeOK, Calls, At, registry, fanotify, FileOrNone
<1> USE NullAssumption DEF CommitFails, At, Goto, Answer, Idle, registry, fanotify
<1>2. FilesUsed'
  BY <1>1 DEF IndInv, TypeOK, FileOrNone, FilesUsed, ClientsOK, ClientOK, InstancesOK,
              PublishedRegistered
<1>3. \A d \in Clients : ClientOK(d)'
  BY <1>1 DEF IndInv, TypeOK, FileOrNone, FilesUsed, ClientsOK, ClientOK, ClientsApart,
              InstancesOK, PublishedRegistered, Registering, Locked, Owning, Unmarking
<1>4. ClientsApart'
  BY <1>1 DEF IndInv, TypeOK, FileOrNone, FilesUsed, ClientsOK, ClientOK, ClientsApart,
              InstancesOK, PublishedRegistered, Registering, Locked, Owning, Unmarking
<1>5. InstancesOK'
  <2>1. InstancesApart'
    BY DEF IndInv, TypeOK, FileOrNone, ClientsOK, ClientOK, InstancesOK, InstancesApart,
           Registering, Locked
  <2>2. RegisteredWatched'
    BY DEF IndInv, TypeOK, FileOrNone, FilesUsed, ClientsOK, ClientOK, InstancesOK,
           InstancesApart, RegisteredWatched, Registering, Locked, Unmarking
  <2>3. PublishedRegistered'
    BY DEF IndInv, TypeOK, FileOrNone, ClientsOK, ClientOK, InstancesOK,
           PublishedRegistered, Registering, Locked, Owning
  <2> QED
    BY <2>1, <2>2, <2>3 DEF InstancesOK
<1>6. ReadsOK'
  BY ReadsFrame DEF IndInv, TypeOK, FileOrNone, ClientsOK, ClientOK, Owning
<1> QED
  BY <1>1, <1>2, <1>3, <1>4, <1>5, <1>6 DEF IndInv, ClientsOK

(* The file of a failed Prepare goes. *)
LEMMA CleanupRemoveStep ==
    ASSUME IndInv, NEW c \in Clients, CleanupRemove(c)
    PROVE  IndInv'
<1>1. TypeOK'
  <2>1. /\ client' \in [Clients -> Calls]
        /\ client'[c].pc \in {"idle"}
        /\ \A d \in Clients : d # c => client'[d] = client[d]
    BY MoveTyped DEF IndInv, CleanupRemove, ClientSteps
  <2>2. UNCHANGED <<loop, reader, filled>>
    BY DEF CleanupRemove, registry, fanotify
  <2> QED
    BY <2>1, <2>2, NullAssumption
       DEF CleanupRemove, IndInv, TypeOK, Calls, At, registry, fanotify, FileOrNone
<1> USE NullAssumption DEF CleanupRemove, At, Goto, Answer, Idle, registry, fanotify
<1>2. FilesUsed'
  BY <1>1 DEF IndInv, TypeOK, FileOrNone, FilesUsed, ClientsOK, ClientOK, InstancesOK,
              PublishedRegistered
<1>3. \A d \in Clients : ClientOK(d)'
  BY <1>1 DEF IndInv, TypeOK, FileOrNone, FilesUsed, ClientsOK, ClientOK, ClientsApart,
              InstancesOK, PublishedRegistered, Registering, Locked, Owning, Unmarking
<1>4. ClientsApart'
  BY <1>1 DEF IndInv, TypeOK, FileOrNone, FilesUsed, ClientsOK, ClientOK, ClientsApart,
              InstancesOK, PublishedRegistered, Registering, Locked, Owning, Unmarking
<1>5. InstancesOK'
  <2>1. InstancesApart'
    BY DEF IndInv, TypeOK, FileOrNone, ClientsOK, ClientOK, InstancesOK, InstancesApart,
           Registering, Locked
  <2>2. RegisteredWatched'
    BY DEF IndInv, TypeOK, FileOrNone, FilesUsed, ClientsOK, ClientOK, InstancesOK,
           InstancesApart, RegisteredWatched, Registering, Locked, Unmarking
  <2>3. PublishedRegistered'
    BY DEF IndInv, TypeOK, FileOrNone, ClientsOK, ClientOK, InstancesOK,
           PublishedRegistered, Registering, Locked, Owning
  <2> QED
    BY <2>1, <2>2, <2>3 DEF InstancesOK
<1>6. ReadsOK'
  BY ReadsFrame DEF IndInv, TypeOK, FileOrNone, ClientsOK, ClientOK, Owning
<1> QED
  BY <1>1, <1>2, <1>3, <1>4, <1>5, <1>6 DEF IndInv, ClientsOK

(* The instance goes out; its id was not published and its file is its own. *)
LEMMA UnregisterStep ==
    ASSUME IndInv, NEW c \in Clients, Unregister(c)
    PROVE  IndInv'
<1> DEFINE target == instances[client[c].id]
<1>0. /\ client[c].pc = "delete" /\ client[c].id \in Ids
      /\ target \in Files /\ target # NoFile
      /\ published[client[c].id] = NoFile
  BY DEF Unregister, At, IndInv, TypeOK, FileOrNone, ClientsOK, ClientOK, Owning
<1> USE NullAssumption DEF registry, fanotify
<1>1. TypeOK'
  <2>1. client[c] \in Calls /\ client \in [Clients -> Calls]
    BY DEF IndInv, TypeOK, Calls
  <2>2. /\ client' \in [Clients -> Calls] /\ client'[c].pc = "unmark"
        /\ \A d \in Clients : d # c => client'[d] = client[d]
    BY <1>0, <2>1 DEF Unregister, Calls, ClientSteps, FileOrNone
  <2> QED
    BY <1>0, <2>2 DEF Unregister, IndInv, TypeOK, Calls, FileOrNone
<1>2. /\ client'[c].pc = "unmark" /\ client'[c].removed = target
      /\ client'[c].id = client[c].id /\ client'[c].file = client[c].file
      /\ \A d \in Clients : d # c => client'[d] = client[d]
      /\ instances' = [instances EXCEPT ![client[c].id] = NoFile]
      /\ UNCHANGED <<path, filled, published, writer, watched, marks, reader, loop>>
  BY <1>0 DEF Unregister, IndInv, TypeOK
<1>3. /\ instances'[client[c].id] = NoFile
      /\ \A i \in Ids : i # client[c].id => instances'[i] = instances[i]
  BY <1>0, <1>2 DEF IndInv, TypeOK
<1>4. FilesUsed'
  BY <1>0, <1>2, <1>3 DEF IndInv, FilesUsed
<1>5. ASSUME NEW d \in Clients PROVE ClientOK(d)'
  <2>1. CASE d = c
    BY <1>0, <1>2, <1>3, <2>1 DEF IndInv, ClientOK, InstancesOK, InstancesApart,
                                  Registering, Locked, Owning, Unmarking
  <2>2. CASE d # c
    <3>1. client'[d] = client[d] /\ (client[d].pc \in Owning => client[d].id # client[c].id)
      BY <1>0, <1>2, <2>2 DEF IndInv, ClientsOK, ClientsApart, Owning
    <3>2. \A i \in Ids : instances'[i] \in {instances[i], NoFile}
      BY <1>3
    <3>3. ClientOK(d)
      BY DEF IndInv, ClientsOK
    <3> QED
      BY <1>2, <1>3, <3>1, <3>2, <3>3 DEF ClientOK, Registering, Locked, Owning, Unmarking
  <2> QED
    BY <2>1, <2>2
<1>6. ClientsApart'
  BY <1>0, <1>1, <1>2 DEF IndInv, TypeOK, FileOrNone, FilesUsed, ClientsOK, ClientOK, ClientsApart,
              InstancesOK, PublishedRegistered, Registering, Locked, Owning, Unmarking
<1>7. InstancesOK'
  <2>1. InstancesApart'
    BY <1>0, <1>2 DEF IndInv, TypeOK, FileOrNone, ClientsOK, ClientOK, InstancesOK, InstancesApart,
           Registering, Locked
  <2>2. RegisteredWatched'
    BY <1>0, <1>2 DEF IndInv, TypeOK, FileOrNone, FilesUsed, ClientsOK, ClientOK, InstancesOK,
           InstancesApart, RegisteredWatched, Registering, Locked, Unmarking
  <2>3. PublishedRegistered'
    BY <1>0, <1>2 DEF IndInv, TypeOK, FileOrNone, ClientsOK, ClientOK, InstancesOK,
           PublishedRegistered, Registering, Locked, Owning
  <2> QED
    BY <2>1, <2>2, <2>3 DEF InstancesOK
<1>8. ReadsOK'
  BY <1>0, <1>2, ReadsFrame DEF IndInv, TypeOK, FileOrNone, ClientsOK, ClientOK, Owning
<1> QED
  BY <1>1, <1>4, <1>5, <1>6, <1>7, <1>8 DEF IndInv, ClientsOK

(* Unmarking begins. *)
LEMMA UnmarkStatStep ==
    ASSUME IndInv, NEW c \in Clients, UnmarkStat(c)
    PROVE  IndInv'
<1>1. TypeOK'
  <2>1. /\ client' \in [Clients -> Calls]
        /\ client'[c].pc \in {"idle", "unwatch", "failed", "unbound"}
        /\ \A d \in Clients : d # c => client'[d] = client[d]
    BY MoveTyped DEF IndInv, UnmarkStat, Removing, DeleteDone, DeleteFails, ClientSteps
  <2>2. UNCHANGED <<loop, reader, filled>>
    BY DEF UnmarkStat, registry, fanotify
  <2> QED
    BY <2>1, <2>2, NullAssumption
       DEF UnmarkStat, IndInv, TypeOK, Calls, At, registry, fanotify, FileOrNone
<1> USE NullAssumption DEF UnmarkStat, At, Goto, Answer, Idle, Removing, DeleteDone, DeleteFails, registry, fanotify
<1>2. FilesUsed'
  BY <1>1 DEF IndInv, TypeOK, FileOrNone, FilesUsed, ClientsOK, ClientOK, InstancesOK,
              PublishedRegistered
<1>3. \A d \in Clients : ClientOK(d)'
  BY <1>1 DEF IndInv, TypeOK, FileOrNone, FilesUsed, ClientsOK, ClientOK, ClientsApart,
              InstancesOK, PublishedRegistered, Registering, Locked, Owning, Unmarking
<1>4. ClientsApart'
  BY <1>1 DEF IndInv, TypeOK, FileOrNone, FilesUsed, ClientsOK, ClientOK, ClientsApart,
              InstancesOK, PublishedRegistered, Registering, Locked, Owning, Unmarking
<1>5. InstancesOK'
  <2>1. InstancesApart'
    BY DEF IndInv, TypeOK, FileOrNone, ClientsOK, ClientOK, InstancesOK, InstancesApart,
           Registering, Locked
  <2>2. RegisteredWatched'
    BY DEF IndInv, TypeOK, FileOrNone, FilesUsed, ClientsOK, ClientOK, InstancesOK,
           InstancesApart, RegisteredWatched, Registering, Locked, Unmarking
  <2>3. PublishedRegistered'
    BY DEF IndInv, TypeOK, FileOrNone, ClientsOK, ClientOK, InstancesOK,
           PublishedRegistered, Registering, Locked, Owning
  <2> QED
    BY <2>1, <2>2, <2>3 DEF InstancesOK
<1>6. ReadsOK'
  BY ReadsFrame DEF IndInv, TypeOK, FileOrNone, ClientsOK, ClientOK, Owning
<1> QED
  BY <1>1, <1>2, <1>3, <1>4, <1>5, <1>6 DEF IndInv, ClientsOK

(* The mark goes of a file that is in no instance. *)
LEMMA UnmarkKernelStep ==
    ASSUME IndInv, NEW c \in Clients, UnmarkKernel(c)
    PROVE  IndInv'
<1>1. TypeOK'
  <2>1. /\ client' \in [Clients -> Calls]
        /\ client'[c].pc \in {"idle", "unname", "failed", "unbound"}
        /\ \A d \in Clients : d # c => client'[d] = client[d]
    BY MoveTyped DEF IndInv, UnmarkKernel, Removing, DeleteDone, DeleteFails, ClientSteps
  <2>2. UNCHANGED <<loop, reader, filled>>
    BY DEF UnmarkKernel, registry, fanotify
  <2> QED
    BY <2>1, <2>2, NullAssumption
       DEF UnmarkKernel, IndInv, TypeOK, Calls, At, registry, fanotify, FileOrNone
<1> USE NullAssumption DEF UnmarkKernel, At, Goto, Answer, Idle, Removing, DeleteDone, DeleteFails, registry, fanotify
<1>2. FilesUsed'
  BY <1>1 DEF IndInv, TypeOK, FileOrNone, FilesUsed, ClientsOK, ClientOK, InstancesOK,
              PublishedRegistered
<1>3. \A d \in Clients : ClientOK(d)'
  BY <1>1 DEF IndInv, TypeOK, FileOrNone, FilesUsed, ClientsOK, ClientOK, ClientsApart,
              InstancesOK, PublishedRegistered, Registering, Locked, Owning, Unmarking
<1>4. ClientsApart'
  BY <1>1 DEF IndInv, TypeOK, FileOrNone, FilesUsed, ClientsOK, ClientOK, ClientsApart,
              InstancesOK, PublishedRegistered, Registering, Locked, Owning, Unmarking
<1>5. InstancesOK'
  <2>1. InstancesApart'
    BY DEF IndInv, TypeOK, FileOrNone, ClientsOK, ClientOK, InstancesOK, InstancesApart,
           Registering, Locked
  <2>2. RegisteredWatched'
    BY DEF IndInv, TypeOK, FileOrNone, FilesUsed, ClientsOK, ClientOK, InstancesOK,
           InstancesApart, RegisteredWatched, Registering, Locked, Unmarking
  <2>3. PublishedRegistered'
    BY DEF IndInv, TypeOK, FileOrNone, ClientsOK, ClientOK, InstancesOK,
           PublishedRegistered, Registering, Locked, Owning
  <2> QED
    BY <2>1, <2>2, <2>3 DEF InstancesOK
<1>6. ReadsOK'
  BY ReadsFrame DEF IndInv, TypeOK, FileOrNone, ClientsOK, ClientOK, Owning
<1> QED
  BY <1>1, <1>2, <1>3, <1>4, <1>5, <1>6 DEF IndInv, ClientsOK

(* The entry goes of a file that is in no instance. *)
LEMMA UnmarkNameStep ==
    ASSUME IndInv, NEW c \in Clients, UnmarkName(c)
    PROVE  IndInv'
<1>1. TypeOK'
  <2>1. /\ client' \in [Clients -> Calls]
        /\ client'[c].pc \in {"idle", "unbound"}
        /\ \A d \in Clients : d # c => client'[d] = client[d]
    BY MoveTyped DEF IndInv, UnmarkName, Removing, DeleteDone, DeleteFails, ClientSteps
  <2>2. UNCHANGED <<loop, reader, filled>>
    BY DEF UnmarkName, registry, fanotify
  <2> QED
    BY <2>1, <2>2, NullAssumption
       DEF UnmarkName, IndInv, TypeOK, Calls, At, registry, fanotify, FileOrNone
<1> USE NullAssumption DEF UnmarkName, At, Goto, Answer, Idle, Removing, DeleteDone, DeleteFails, registry, fanotify
<1>2. FilesUsed'
  BY <1>1 DEF IndInv, TypeOK, FileOrNone, FilesUsed, ClientsOK, ClientOK, InstancesOK,
              PublishedRegistered
<1>3. \A d \in Clients : ClientOK(d)'
  BY <1>1 DEF IndInv, TypeOK, FileOrNone, FilesUsed, ClientsOK, ClientOK, ClientsApart,
              InstancesOK, PublishedRegistered, Registering, Locked, Owning, Unmarking
<1>4. ClientsApart'
  BY <1>1 DEF IndInv, TypeOK, FileOrNone, FilesUsed, ClientsOK, ClientOK, ClientsApart,
              InstancesOK, PublishedRegistered, Registering, Locked, Owning, Unmarking
<1>5. InstancesOK'
  <2>1. InstancesApart'
    BY DEF IndInv, TypeOK, FileOrNone, ClientsOK, ClientOK, InstancesOK, InstancesApart,
           Registering, Locked
  <2>2. RegisteredWatched'
    BY DEF IndInv, TypeOK, FileOrNone, FilesUsed, ClientsOK, ClientOK, InstancesOK,
           InstancesApart, RegisteredWatched, Registering, Locked, Unmarking
  <2>3. PublishedRegistered'
    BY DEF IndInv, TypeOK, FileOrNone, ClientsOK, ClientOK, InstancesOK,
           PublishedRegistered, Registering, Locked, Owning
  <2> QED
    BY <2>1, <2>2, <2>3 DEF InstancesOK
<1>6. ReadsOK'
  BY ReadsFrame DEF IndInv, TypeOK, FileOrNone, ClientsOK, ClientOK, Owning
<1> QED
  BY <1>1, <1>2, <1>3, <1>4, <1>5, <1>6 DEF IndInv, ClientsOK

(* Remove returns its error. *)
LEMMA RemoveReturnsStep ==
    ASSUME IndInv, NEW c \in Clients, RemoveReturns(c)
    PROVE  IndInv'
<1>1. TypeOK'
  <2>1. /\ client' \in [Clients -> Calls]
        /\ client'[c].pc \in {"idle"}
        /\ \A d \in Clients : d # c => client'[d] = client[d]
    BY MoveTyped DEF IndInv, RemoveReturns, ClientSteps
  <2>2. UNCHANGED <<loop, reader, filled>>
    BY DEF RemoveReturns, registry, fanotify
  <2> QED
    BY <2>1, <2>2, NullAssumption
       DEF RemoveReturns, IndInv, TypeOK, Calls, At, registry, fanotify, FileOrNone
<1> USE NullAssumption DEF RemoveReturns, At, Goto, Answer, Idle, registry, fanotify
<1>2. FilesUsed'
  BY <1>1 DEF IndInv, TypeOK, FileOrNone, FilesUsed, ClientsOK, ClientOK, InstancesOK,
              PublishedRegistered
<1>3. \A d \in Clients : ClientOK(d)'
  BY <1>1 DEF IndInv, TypeOK, FileOrNone, FilesUsed, ClientsOK, ClientOK, ClientsApart,
              InstancesOK, PublishedRegistered, Registering, Locked, Owning, Unmarking
<1>4. ClientsApart'
  BY <1>1 DEF IndInv, TypeOK, FileOrNone, FilesUsed, ClientsOK, ClientOK, ClientsApart,
              InstancesOK, PublishedRegistered, Registering, Locked, Owning, Unmarking
<1>5. InstancesOK'
  <2>1. InstancesApart'
    BY DEF IndInv, TypeOK, FileOrNone, ClientsOK, ClientOK, InstancesOK, InstancesApart,
           Registering, Locked
  <2>2. RegisteredWatched'
    BY DEF IndInv, TypeOK, FileOrNone, FilesUsed, ClientsOK, ClientOK, InstancesOK,
           InstancesApart, RegisteredWatched, Registering, Locked, Unmarking
  <2>3. PublishedRegistered'
    BY DEF IndInv, TypeOK, FileOrNone, ClientsOK, ClientOK, InstancesOK,
           PublishedRegistered, Registering, Locked, Owning
  <2> QED
    BY <2>1, <2>2, <2>3 DEF InstancesOK
<1>6. ReadsOK'
  BY ReadsFrame DEF IndInv, TypeOK, FileOrNone, ClientsOK, ClientOK, Owning
<1> QED
  BY <1>1, <1>2, <1>3, <1>4, <1>5, <1>6 DEF IndInv, ClientsOK

(* A client gives up: its file goes, its request goes on. *)
LEMMA GiveUpStep ==
    ASSUME IndInv, NEW c \in Clients, GiveUp(c)
    PROVE  IndInv'
<1> USE NullAssumption DEF GiveUp, At, Goto, Answer, Idle, Removing, registry, fanotify
<1>1. TypeOK'
  <2>1. client[c] \in Calls /\ client \in [Clients -> Calls]
    BY DEF IndInv, TypeOK, Calls
  <2>2. client' \in [Clients -> Calls] /\ \A d \in Clients : client'[d].pc = client[d].pc
    BY <2>1 DEF Calls
  <2> QED
    BY <2>2 DEF IndInv, TypeOK, Calls
<1>2. FilesUsed'
  BY <1>1 DEF IndInv, TypeOK, FileOrNone, FilesUsed, ClientsOK, ClientOK, InstancesOK,
              PublishedRegistered
<1>3. \A d \in Clients : ClientOK(d)'
  BY <1>1 DEF IndInv, TypeOK, FileOrNone, FilesUsed, ClientsOK, ClientOK, ClientsApart,
              InstancesOK, PublishedRegistered, Registering, Locked, Owning, Unmarking
<1>4. ClientsApart'
  BY <1>1 DEF IndInv, TypeOK, FileOrNone, FilesUsed, ClientsOK, ClientOK, ClientsApart,
              InstancesOK, PublishedRegistered, Registering, Locked, Owning, Unmarking
<1>5. InstancesOK'
  <2>1. InstancesApart'
    BY DEF IndInv, TypeOK, FileOrNone, ClientsOK, ClientOK, InstancesOK, InstancesApart,
           Registering, Locked
  <2>2. RegisteredWatched'
    BY DEF IndInv, TypeOK, FileOrNone, FilesUsed, ClientsOK, ClientOK, InstancesOK,
           InstancesApart, RegisteredWatched, Registering, Locked, Unmarking
  <2>3. PublishedRegistered'
    BY DEF IndInv, TypeOK, FileOrNone, ClientsOK, ClientOK, InstancesOK,
           PublishedRegistered, Registering, Locked, Owning
  <2> QED
    BY <2>1, <2>2, <2>3 DEF InstancesOK
<1>6. ReadsOK'
  BY ReadsFrame DEF IndInv, TypeOK, FileOrNone, ClientsOK, ClientOK, Owning
<1> QED
  BY <1>1, <1>2, <1>3, <1>4, <1>5, <1>6 DEF IndInv, ClientsOK

(* A published layer is removed; its instance stays, and this client owns  *)
(* it.                                                                     *)
LEMMA RemoveStep ==
    ASSUME IndInv, NEW c \in Clients, NEW i \in Ids, Remove(c, i)
    PROVE  IndInv'
<1> USE NullAssumption DEF Remove, At, Goto, Answer, Idle, registry, fanotify
<1>1. TypeOK'
  BY DEF IndInv, TypeOK, ClientSteps, FileOrNone
<1>2. FilesUsed'
  BY <1>1 DEF IndInv, TypeOK, FileOrNone, FilesUsed, ClientsOK, ClientOK, InstancesOK,
              PublishedRegistered
<1>3. \A d \in Clients : ClientOK(d)'
  BY <1>1 DEF IndInv, TypeOK, FileOrNone, FilesUsed, ClientsOK, ClientOK, ClientsApart,
              InstancesOK, PublishedRegistered, Registering, Locked, Owning, Unmarking
<1>4. ClientsApart'
  BY <1>1 DEF IndInv, TypeOK, FileOrNone, FilesUsed, ClientsOK, ClientOK, ClientsApart,
              InstancesOK, PublishedRegistered, Registering, Locked, Owning, Unmarking
<1>5. InstancesOK'
  <2>1. InstancesApart'
    BY DEF IndInv, TypeOK, FileOrNone, ClientsOK, ClientOK, InstancesOK, InstancesApart,
           Registering, Locked
  <2>2. RegisteredWatched'
    BY DEF IndInv, TypeOK, FileOrNone, FilesUsed, ClientsOK, ClientOK, InstancesOK,
           InstancesApart, RegisteredWatched, Registering, Locked, Unmarking
  <2>3. PublishedRegistered'
    BY DEF IndInv, TypeOK, FileOrNone, ClientsOK, ClientOK, InstancesOK,
           PublishedRegistered, Registering, Locked, Owning
  <2> QED
    BY <2>1, <2>2, <2>3 DEF InstancesOK
<1>6. ReadsOK'
  BY ReadsFrame DEF IndInv, TypeOK, FileOrNone, ClientsOK, ClientOK, Owning
<1> QED
  BY <1>1, <1>2, <1>3, <1>4, <1>5, <1>6 DEF IndInv, ClientsOK

(* A file is created that nobody knows. *)
LEMMA BindLayerStep ==
    ASSUME IndInv, NEW c \in Clients, NEW i \in Ids, NEW f \in Files, BindLayer(c, i, f)
    PROVE  IndInv'
<1> USE NullAssumption DEF BindLayer, At, Goto, Answer, Idle, registry, fanotify
<1>1. TypeOK'
  BY DEF IndInv, TypeOK, ClientSteps, FileOrNone
<1>2. FilesUsed'
  BY <1>1 DEF IndInv, TypeOK, FileOrNone, FilesUsed, ClientsOK, ClientOK, InstancesOK,
              PublishedRegistered
<1>3. \A d \in Clients : ClientOK(d)'
  BY <1>1 DEF IndInv, TypeOK, FileOrNone, FilesUsed, ClientsOK, ClientOK, ClientsApart,
              InstancesOK, PublishedRegistered, Registering, Locked, Owning, Unmarking
<1>4. ClientsApart'
  BY <1>1 DEF IndInv, TypeOK, FileOrNone, FilesUsed, ClientsOK, ClientOK, ClientsApart,
              InstancesOK, PublishedRegistered, Registering, Locked, Owning, Unmarking
<1>5. InstancesOK'
  <2>1. InstancesApart'
    BY DEF IndInv, TypeOK, FileOrNone, ClientsOK, ClientOK, InstancesOK, InstancesApart,
           Registering, Locked
  <2>2. RegisteredWatched'
    BY DEF IndInv, TypeOK, FileOrNone, FilesUsed, ClientsOK, ClientOK, InstancesOK,
           InstancesApart, RegisteredWatched, Registering, Locked, Unmarking
  <2>3. PublishedRegistered'
    BY DEF IndInv, TypeOK, FileOrNone, ClientsOK, ClientOK, InstancesOK,
           PublishedRegistered, Registering, Locked, Owning
  <2> QED
    BY <2>1, <2>2, <2>3 DEF InstancesOK
<1>6. ReadsOK'
  BY ReadsFrame DEF IndInv, TypeOK, FileOrNone, ClientsOK, ClientOK, Owning
<1> QED
  BY <1>1, <1>2, <1>3, <1>4, <1>5, <1>6 DEF IndInv, ClientsOK

(* A file that is there is watched, so that its reads wait. *)
LEMMA AccessStep ==
    ASSUME IndInv, NEW r \in Readers, Access(r)
    PROVE  IndInv'
<1> USE NullAssumption DEF Access, registry, fanotify
<1>1. TypeOK'
  BY DEF IndInv, TypeOK, ReadsOK, LoopOK, FileOrNone, ReaderSteps
<1>2. FilesUsed'
  BY DEF IndInv, TypeOK, FilesUsed, ReadsOK, LoopOK, InstancesOK, PublishedRegistered
<1>3. ClientsOK' /\ InstancesOK'
  BY ClientsFrame
<1>4. ReadersOK'
  BY DEF IndInv, TypeOK, FileOrNone, ReadsOK, ReadersOK, LoopOK
<1>5. LoopOK'
  BY DEF IndInv, TypeOK, ReadsOK, ReadersOK, LoopOK, InstancesOK, PublishedRegistered,
         RegisteredWatched
<1>6. ReadsFilled'
  <2> SUFFICES ASSUME NEW q \in Readers, reader'[q].pc = "read",
                      path[reader'[q].file] = "there"
               PROVE  reader'[q].file \in filled
    BY DEF ReadsFilled
  <2>1. CASE q = r
    <3>1. reader[r].pc = "open" /\ reader'[r].file = reader[r].file
      BY DEF IndInv, TypeOK
    <3>2. reader[r].file \in Files /\ \E i \in Ids : published[i] = reader[r].file
      BY <2>1, <3>1 DEF IndInv, ReadsOK, ReadersOK
    <3>3. reader[r].file \in watched
      BY <2>1, <3>1, <3>2
         DEF IndInv, InstancesOK, PublishedRegistered, RegisteredWatched
    <3> QED
      BY <2>1, <3>3 DEF IndInv, TypeOK
  <2>2. CASE q # r
    BY <2>2 DEF IndInv, TypeOK, ReadsOK, ReadsFilled
  <2> QED
    BY <2>1, <2>2
<1> QED
  BY <1>1, <1>2, <1>3, <1>4, <1>5, <1>6 DEF IndInv, ReadsOK

(* A reader closes its file. *)
LEMMA CloseStep ==
    ASSUME IndInv, NEW r \in Readers, Close(r)
    PROVE  IndInv'
<1> USE NullAssumption DEF Close, registry, fanotify
<1>1. TypeOK'
  BY DEF IndInv, TypeOK, ReadsOK, LoopOK, FileOrNone, ReaderSteps
<1>2. FilesUsed'
  BY DEF IndInv, TypeOK, FilesUsed, ReadsOK, LoopOK, InstancesOK, PublishedRegistered
<1>3. ClientsOK' /\ InstancesOK'
  BY ClientsFrame
<1>4. ReadersOK'
  BY DEF IndInv, TypeOK, FileOrNone, ReadsOK, ReadersOK, LoopOK
<1>5. LoopOK'
  BY DEF IndInv, TypeOK, ReadsOK, ReadersOK, LoopOK, InstancesOK, PublishedRegistered,
         RegisteredWatched
<1>6. ReadsFilled'
  BY DEF IndInv, TypeOK, ReadsOK, ReadersOK, LoopOK, ReadsFilled, InstancesOK,
         PublishedRegistered, RegisteredWatched
<1> QED
  BY <1>1, <1>2, <1>3, <1>4, <1>5, <1>6 DEF IndInv, ReadsOK

(* The loop takes an event. *)
LEMMA NextEventStep ==
    ASSUME IndInv, NEW r \in Readers, NextEvent(r)
    PROVE  IndInv'
<1> USE NullAssumption DEF NextEvent, Respond, Resting, registry, fanotify
<1>1. TypeOK'
  <2>1. reader' \in [Readers -> [pc : ReaderSteps, file : FileOrNone]]
    BY DEF IndInv, TypeOK, ReaderSteps
  <2> QED
    BY <2>1 DEF IndInv, TypeOK, FileOrNone
<1>2. FilesUsed'
  BY DEF IndInv, TypeOK, FilesUsed, ReadsOK, LoopOK, InstancesOK, PublishedRegistered
<1>3. ClientsOK' /\ InstancesOK'
  BY ClientsFrame
<1>4. ReadersOK'
  BY DEF IndInv, TypeOK, FileOrNone, ReadsOK, ReadersOK, LoopOK
<1>5. LoopOK'
  BY DEF IndInv, TypeOK, ReadsOK, ReadersOK, LoopOK, InstancesOK, PublishedRegistered,
         RegisteredWatched
<1>6. ReadsFilled'
  BY DEF IndInv, TypeOK, ReadsOK, ReadersOK, LoopOK, ReadsFilled, InstancesOK,
         PublishedRegistered, RegisteredWatched
<1> QED
  BY <1>1, <1>2, <1>3, <1>4, <1>5, <1>6 DEF IndInv, ReadsOK

(* An event is cut off: its reader waits for nobody. *)
LEMMA LoseEventStep ==
    ASSUME IndInv, NEW r \in Readers, LoseEvent(r)
    PROVE  IndInv'
<1> USE NullAssumption DEF LoseEvent, registry, fanotify
<1>1. TypeOK'
  <2>1. reader' \in [Readers -> [pc : ReaderSteps, file : FileOrNone]]
    BY DEF IndInv, TypeOK, ReaderSteps
  <2> QED
    BY <2>1 DEF IndInv, TypeOK, FileOrNone
<1>2. FilesUsed'
  BY DEF IndInv, TypeOK, FilesUsed, ReadsOK, LoopOK, InstancesOK, PublishedRegistered
<1>3. ClientsOK' /\ InstancesOK'
  BY ClientsFrame
<1>4. ReadersOK'
  BY DEF IndInv, TypeOK, FileOrNone, ReadsOK, ReadersOK, LoopOK
<1>5. LoopOK'
  BY DEF IndInv, TypeOK, ReadsOK, ReadersOK, LoopOK, InstancesOK, PublishedRegistered,
         RegisteredWatched
<1>6. ReadsFilled'
  BY DEF IndInv, TypeOK, ReadsOK, ReadersOK, LoopOK, ReadsFilled, InstancesOK,
         PublishedRegistered, RegisteredWatched
<1> QED
  BY <1>1, <1>2, <1>3, <1>4, <1>5, <1>6 DEF IndInv, ReadsOK

(* A reader mounts what is published. *)
LEMMA OpenStep ==
    ASSUME IndInv, NEW r \in Readers, NEW i \in Ids, Open(r, i)
    PROVE  IndInv'
<1> USE NullAssumption DEF Open, registry, fanotify
<1>1. TypeOK'
  BY DEF IndInv, TypeOK, ReadsOK, LoopOK, FileOrNone, ReaderSteps
<1>2. FilesUsed'
  BY DEF IndInv, TypeOK, FilesUsed, ReadsOK, LoopOK, InstancesOK, PublishedRegistered
<1>3. ClientsOK' /\ InstancesOK'
  BY ClientsFrame
<1>4. ReadersOK'
  BY DEF IndInv, TypeOK, FileOrNone, ReadsOK, ReadersOK, LoopOK
<1>5. LoopOK'
  BY DEF IndInv, TypeOK, ReadsOK, ReadersOK, LoopOK, InstancesOK, PublishedRegistered,
         RegisteredWatched
<1>6. ReadsFilled'
  BY DEF IndInv, TypeOK, ReadsOK, ReadersOK, LoopOK, ReadsFilled, InstancesOK,
         PublishedRegistered, RegisteredWatched
<1> QED
  BY <1>1, <1>2, <1>3, <1>4, <1>5, <1>6 DEF IndInv, ReadsOK

(* A reader that is denied has read nothing. *)
LEMMA DenyStep ==
    ASSUME IndInv, loop.pc # "rest", Respond("denied"),
           UNCHANGED <<path, filled, published, registry, fanotify, client>>
    PROVE  IndInv'
<1>0. /\ loop'.pc = "rest"
      /\ \A r \in Readers : reader'[r].file = reader[r].file
      /\ \A r \in Readers : reader'[r].pc =
            IF r = loop.reader THEN "denied" ELSE reader[r].pc
  BY RespondTyped
<1>1. TypeOK'
  BY RespondTyped DEF IndInv, TypeOK, registry, fanotify
<1>2. FilesUsed'
  BY <1>0 DEF IndInv, FilesUsed, registry
<1>3. ClientsOK' /\ InstancesOK'
  BY ClientsFrame
<1>4. ReadersOK'
  BY <1>0 DEF IndInv, ReadsOK, ReadersOK, LoopOK
<1>5. LoopOK'
  BY <1>0 DEF LoopOK
<1>6. ReadsFilled'
  BY <1>0 DEF IndInv, ReadsOK, ReadsFilled
<1> QED
  BY <1>1, <1>2, <1>3, <1>4, <1>5, <1>6 DEF IndInv, ReadsOK

(* The entry of a file that is there is the id it is published under. *)
LEMMA LookupStep ==
    ASSUME IndInv, Lookup
    PROVE  IndInv'
<1> USE NullAssumption DEF registry, fanotify
<1> DEFINE i == marks[reader[loop.reader].file]
<1>1. CASE i = NoId
  BY <1>1, DenyStep DEF Lookup
<1>2. CASE i # NoId
  <2>1. loop' = [loop EXCEPT !.pc = "get", !.id = i] /\ UNCHANGED reader
    BY <1>2 DEF Lookup
  <2>2. /\ loop.reader \in Readers /\ reader[loop.reader].pc = "waits"
        /\ reader[loop.reader].file \in Files
    BY DEF Lookup, IndInv, ReadsOK, ReadersOK, LoopOK
  <2>3. i \in Ids
    BY <1>2, <2>2 DEF Lookup, IndInv, TypeOK, FileOrNone, ReadsOK, LoopOK
  <2>4. path[reader[loop.reader].file] = "there" => published[i] = reader[loop.reader].file
    BY <1>2, <2>2, <2>3 DEF Lookup, IndInv, ReadsOK, ReadersOK, LoopOK, InstancesOK,
                            PublishedRegistered, RegisteredWatched
  <2>5. TypeOK'
    BY <2>1, <2>3 DEF Lookup, IndInv, TypeOK, FileOrNone
  <2>6. FilesUsed' /\ ReadersOK' /\ ReadsFilled'
    BY <2>1 DEF Lookup, IndInv, FilesUsed, ReadsOK, ReadersOK, ReadsFilled
  <2>7. ClientsOK' /\ InstancesOK'
    BY ClientsFrame DEF Lookup
  <2>8. LoopOK'
    BY <2>1, <2>2, <2>3, <2>4 DEF Lookup, IndInv, TypeOK, ReadsOK, LoopOK
  <2> QED
    BY <2>5, <2>6, <2>7, <2>8 DEF IndInv, ReadsOK
<1> QED
  BY <1>1, <1>2

(* The instance of that id is the file. *)
LEMMA GetStep ==
    ASSUME IndInv, Get
    PROVE  IndInv'
<1> USE NullAssumption DEF registry, fanotify
<1> DEFINE target == instances[loop.id]
<1>1. CASE target = NoFile
  BY <1>1, DenyStep DEF Get
<1>2. CASE target # NoFile
  <2>1. loop' = [loop EXCEPT !.pc = "ensure", !.target = target] /\ UNCHANGED reader
    BY <1>2 DEF Get
  <2>2. /\ loop.reader \in Readers /\ reader[loop.reader].pc = "waits"
        /\ reader[loop.reader].file \in Files
    BY DEF Get, IndInv, ReadsOK, ReadersOK, LoopOK
  <2>3. loop.id \in Ids /\ target \in Files
    BY <1>2, <2>2 DEF Get, IndInv, TypeOK, FileOrNone, ReadsOK, LoopOK
  <2>4. path[reader[loop.reader].file] = "there" => target = reader[loop.reader].file
    BY <1>2, <2>2, <2>3 DEF Get, IndInv, ReadsOK, ReadersOK, LoopOK, InstancesOK,
                            PublishedRegistered, RegisteredWatched
  <2>5. TypeOK'
    BY <2>1, <2>3 DEF Get, IndInv, TypeOK, FileOrNone
  <2>6. FilesUsed' /\ ReadersOK' /\ ReadsFilled'
    BY <2>1 DEF Get, IndInv, FilesUsed, ReadsOK, ReadersOK, ReadsFilled
  <2>7. ClientsOK' /\ InstancesOK'
    BY ClientsFrame DEF Get
  <2>8. LoopOK'
    BY <2>1, <2>2, <2>3, <2>4 DEF Get, IndInv, TypeOK, ReadsOK, LoopOK
  <2> QED
    BY <2>5, <2>6, <2>7, <2>8 DEF IndInv, ReadsOK
<1> QED
  BY <1>1, <1>2

(* The file that is filled is the reader's own, if it is still there. *)
LEMMA EnsureStep ==
    ASSUME IndInv, Ensure
    PROVE  IndInv'
<1> USE DEF registry, fanotify
<1>0. /\ loop'.pc = "rest" /\ loop.reader \in Readers
      /\ loop.target \in Files /\ filled' = filled \cup {loop.target}
      /\ \A r \in Readers : reader'[r].file = reader[r].file
      /\ \A r \in Readers : reader'[r].pc = IF r = loop.reader THEN "read" ELSE reader[r].pc
  BY RespondTyped DEF Ensure, IndInv, ReadsOK, LoopOK
<1>1. TypeOK'
  BY <1>0, RespondTyped DEF Ensure, IndInv, TypeOK
<1>2. FilesUsed'
  BY <1>0 DEF Ensure, IndInv, FilesUsed
<1>3. ClientsOK' /\ InstancesOK'
  BY ClientsFrame DEF Ensure
<1>4. ReadersOK'
  BY <1>0 DEF Ensure, IndInv, ReadsOK, ReadersOK, LoopOK
<1>5. LoopOK'
  BY <1>0 DEF LoopOK
<1>6. ReadsFilled'
  BY <1>0 DEF Ensure, IndInv, ReadsOK, LoopOK, ReadsFilled
<1> QED
  BY <1>1, <1>2, <1>3, <1>4, <1>5, <1>6 DEF IndInv, ReadsOK

(* An error denies the reader. *)
LEMMA EnsureFailsStep ==
    ASSUME IndInv, EnsureFails
    PROVE  IndInv'
  BY DenyStep DEF EnsureFails

-----------------------------------------------------------------------------
(* Every step preserves the invariant. *)
LEMMA NextIndInv == IndInv /\ [Next]_vars => IndInv'
<1> SUFFICES ASSUME IndInv, [Next]_vars PROVE IndInv'
  OBVIOUS
<1>1. ASSUME NEW c \in Clients, Serve(c) PROVE IndInv'
  BY <1>1, RegisterExistingStep, RegisterOpenStep, MarkKernelStep, MarkNameStep, InsertStep,
     UnregisterStep, UnmarkStatStep, UnmarkKernelStep, UnmarkNameStep DEF Serve
<1>2. ASSUME NEW c \in Clients, Call(c) PROVE IndInv'
  BY <1>2, BindLayerStep, CommitStep, CommitFailsStep, CleanupRemoveStep, RemoveStep,
     RemoveReturnsStep, GiveUpStep DEF Call
<1>3. ASSUME NEW r \in Readers, Read(r) \/ TakeEvent(r) PROVE IndInv'
  BY <1>3, OpenStep, AccessStep, CloseStep, NextEventStep, LoseEventStep
     DEF Read, TakeEvent
<1>4. CASE Handle
  BY <1>4, LookupStep, GetStep, EnsureStep, EnsureFailsStep DEF Handle
<1>5. CASE UNCHANGED vars
  <2>1. UNCHANGED <<path, filled, published, instances, writer, watched, marks, client,
                    reader, loop>>
    BY <1>5 DEF vars, registry, fanotify
  <2>2. TypeOK' /\ FilesUsed'
    BY <2>1 DEF IndInv, TypeOK, FilesUsed
  <2>3. ClientsOK' /\ InstancesOK'
    BY <2>1, ClientsFrame DEF registry, fanotify
  <2>4. ReadsOK'
    BY <2>1 DEF IndInv, ReadsOK, ReadersOK, LoopOK, ReadsFilled
  <2> QED
    BY <2>2, <2>3, <2>4 DEF IndInv
<1> QED
  BY <1>1, <1>2, <1>3, <1>4, <1>5 DEF Next

(* The inductive invariant holds however requests, removals and reads      *)
(* overlap (instance.rs, control.rs, fanotify.rs).                         *)
THEOREM Invariance == Spec => []IndInv
<1> QED
  BY InitIndInv, NextIndInv, PTL DEF Spec

(* All state is of its type, and the lock is held from the opening of a    *)
(* target to its insertion (instance.rs:95-118).                           *)
THEOREM TypeCorrect == Spec => []TypeOK
<1>1. IndInv => TypeOK
  BY DEF IndInv
<1> QED
  BY <1>1, Invariance, PTL

(* No reader gets the zeros of a hole as long as its layer is not removed  *)
(* (fanotify.rs:162-222).                                                  *)
THEOREM ReadsAreFilled == Spec => []ReadsFilled
<1>1. IndInv => ReadsFilled
  BY DEF IndInv, ReadsOK
<1> QED
  BY <1>1, Invariance, PTL

(* The file of a registered instance is watched, and its events lead to    *)
(* that instance, as long as its path is there, though marks are changed   *)
(* outside the registry's lock (instance.rs:127).                          *)
THEOREM RegisteredAreWatched == Spec => []RegisteredWatched
<1>1. IndInv => RegisteredWatched
  BY DEF IndInv, InstancesOK
<1> QED
  BY <1>1, Invariance, PTL

(* A committed layer never loses its instance to another's request         *)
(* (snapshotter.go:118, 205; instance.rs:95-128).                         *)
THEOREM PublishedAreRegistered == Spec => []PublishedRegistered
<1>1. IndInv => PublishedRegistered
  BY DEF IndInv, InstancesOK
<1> QED
  BY <1>1, Invariance, PTL
=============================================================================
