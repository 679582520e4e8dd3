----------------------------- MODULE LayerStore -----------------------------
(***************************************************************************)
(* What containerd is promised of a snapshotter: a store of committed      *)
(* layers.  A layer is published under its chain ID, complete, with the    *)
(* content the chain ID stands for, on top of a parent that is published;  *)
(* it stays published, unchanged, until it is dropped, and it is dropped   *)
(* only when nothing published rests on it.                                *)
(*                                                                         *)
(* A chain ID is the sequence of the layers it hashes, bottom first.       *)
(***************************************************************************)
EXTENDS Sequences, Naturals

CONSTANT Chains

VARIABLE published    \* function: chain ID |-> the layer its data unpacks to

Top(c) == c[Len(c)]
Parent(c) == SubSeq(c, 1, Len(c) - 1)

Init == published = [c \in {} |-> c]

Publish(c) ==
    /\ c \notin DOMAIN published
    /\ Len(c) = 1 \/ Parent(c) \in DOMAIN published
    /\ published' = [d \in DOMAIN published \cup {c} |->
                        IF d = c THEN Top(c) ELSE published[d]]

Drop(c) ==
    /\ c \in DOMAIN published
    /\ \A d \in DOMAIN published : Parent(d) # c
    /\ published' = [d \in DOMAIN published \ {c} |-> published[d]]

Next == \E c \in Chains : Publish(c) \/ Drop(c)

Spec == Init /\ [][Next]_published
=============================================================================
