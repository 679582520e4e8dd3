------------------------- MODULE MCProxySnapshotter -------------------------
(***************************************************************************)
(* Instances of ProxySnapshotter for TLC.  Image "a" is native; "b" is a   *)
(* plain image; the two share their first layer or more.                   *)
(***************************************************************************)
EXTENDS ProxySnapshotter, TLC

CONSTANTS w1, w2, k1, k2

MCWorkers == {w1, w2}
MCKeys == {k1, k2}
MCLayers == {"l0", "l1", "x1"}
MCImages == {"a", "b"}
MCNative == {"a"}

(* "b" is built on "a": its layers go on where those of "a" end. *)
MCDerived == [a |-> <<"l0", "l1">>, b |-> <<"l0", "l1", "x1">>]

(* "a" and "b" are built on the same base image and differ from there. *)
MCSiblings == [a |-> <<"l0", "l1">>, b |-> <<"l0", "x1">>]

MCSymmetry == Permutations(MCWorkers) \cup Permutations(MCKeys)
=============================================================================
