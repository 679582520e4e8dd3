--------------------------- MODULE MCLazyInstance ---------------------------
(***************************************************************************)
(* Instances of LazyInstance for TLC: a blob of five bytes in blocks of    *)
(* two, the last block short.                                              *)
(***************************************************************************)
EXTENDS LazyInstance, TLC

CONSTANTS t1, t2, t3

MCTwo == {t1, t2}
MCThree == {t1, t2, t3}

R(offset, len) == [offset |-> offset, len |-> len]

(* Whole blocks, overlapping and nested; the empty range; one past the end.*)
MCAligned == {R(0, 2), R(0, 4), R(2, 3), R(3, 0), R(4, 2)}

(* Two halves of one block, as ensure_range(8, 4) in a test. *)
MCUnaligned == {R(0, 1), R(1, 1), R(0, 2)}
=============================================================================
