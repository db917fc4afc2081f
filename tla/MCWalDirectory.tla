--------------------------- MODULE MCWalDirectory ---------------------------
(* WalDirectory for TLC: two processes, numbers of three ternary digits in *)
(* groups of two ("0_00"), and three stray files: offset 0 spelt another   *)
(* way, a number too large, and a name that is too short.                  *)
EXTENDS WalDirectory, TLC

MCStrays ==
    {[prefix |-> "r-", body |-> <<0, Other, 0, 0>>, suffix |-> ".wal"],
     [prefix |-> "r-", body |-> <<2, 2, 2, 2>>, suffix |-> ".wal"],
     [prefix |-> "r-", body |-> <<1>>, suffix |-> ".wal"]}

Symmetry == Permutations(Procs)
=============================================================================
