-------------------------- MODULE MCFanotifyEvents --------------------------
(***************************************************************************)
(* An instance of FanotifyEvents for TLC: three readers, a queue of two, a *)
(* buffer of two and three descriptors, so that the queue overflows, a     *)
(* batch has an event behind a short one, and lost descriptors run out.    *)
(***************************************************************************)
EXTENDS FanotifyEvents

CONSTANTS r1, r2, r3

MCReaders == {r1, r2, r3}
=============================================================================
