----------------------- MODULE MCLazyDaemonLifecycle -----------------------
(***************************************************************************)
(* An instance of LazyDaemonLifecycle for TLC: one layer, and as many      *)
(* starts of the server as the cfg gives.                                  *)
(***************************************************************************)
EXTENDS LazyDaemonLifecycle

CONSTANT i1

MCIds == {i1}
=============================================================================
