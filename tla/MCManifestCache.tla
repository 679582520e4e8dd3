-------------------------- MODULE MCManifestCache --------------------------
(***************************************************************************)
(* An instance of ManifestCache for TLC: three calls at a time, about more *)
(* digests than the cache holds.                                           *)
(***************************************************************************)
EXTENDS ManifestCache, TLC

CONSTANTS g1, g2, g3, d1, d2, d3, d4

MCGetters == {g1, g2, g3}
MCDigests == {d1, d2, d3, d4}

MCSymmetry == Permutations(MCGetters) \cup Permutations(MCDigests)
=============================================================================
