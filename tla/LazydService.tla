---------------------------- MODULE LazydService ----------------------------
(***************************************************************************)
(* What a client of lazyd may count on at the path of its socket: a daemon *)
(* that answers or does not, and that knows the instances registered with  *)
(* it since it began to answer.  It forgets all of them at once, when it   *)
(* stops answering or another takes its place, and never remembers one it  *)
(* forgot.                                                                 *)
(***************************************************************************)
CONSTANT Ids

VARIABLES up, instances

Init == up \in BOOLEAN /\ instances = {}

Appear == up' /\ instances' = {}

Vanish == up /\ ~up' /\ instances' = {}

Register(i) == up /\ up' /\ instances' = instances \cup {i}

Unregister(i) == up /\ up' /\ instances' = instances \ {i}

Next == Appear \/ Vanish \/ \E i \in Ids : Register(i) \/ Unregister(i)

Spec == Init /\ [][Next]_<<up, instances>>
=============================================================================
