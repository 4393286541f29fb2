------------------------------ MODULE MCAscAbi ------------------------------
(***************************************************************************)
(* AscAbi for TLC: byte arrays of length 4 and 20 with two contents, two  *)
(* U256 values and one string, so that every variant, both lengths the     *)
(* decoders tell apart and arrays of mixed elements occur.                 *)
(***************************************************************************)
EXTENDS AscAbi, TLC

CONSTANTS t1, t2, u1, u2, s1

MCTags == {t1, t2}
MCLens == {4, 20}
MCU256s == {u1, u2}
MCStrs == {s1}

MCSymmetry == Permutations(MCTags) \cup Permutations(MCU256s)
=============================================================================
