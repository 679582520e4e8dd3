-------------------------- MODULE MCLazydRegistry --------------------------
(***************************************************************************)
(* Instances of LazydRegistry for TLC: two calls at a time, about one chain*)
(* ID or two, each with a fresh file; two readers.                         *)
(***************************************************************************)
EXTENDS LazydRegistry, TLC

CONSTANTS c1, c2, r1, r2, i1, i2, f1, f2, f3

MCClients == {c1, c2}
MCReaders == {r1, r2}
MCOneReader == {r1}
MCIds == {i1, i2}
MCOneId == {i1}
MCFiles == {f1, f2, f3}
MCTwoFiles == {f1, f2}

MCSymmetry == Permutations(MCClients) \cup Permutations(MCReaders)
                 \cup Permutations(MCIds) \cup Permutations(MCFiles)
=============================================================================
