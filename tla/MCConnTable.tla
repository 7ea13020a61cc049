---------------------------- MODULE MCConnTable ----------------------------
(***************************************************************************)
(* A small instance of ConnTable for TLC: four slots, four descriptors,    *)
(* two addresses.                                                          *)
(***************************************************************************)
EXTENDS ConnTable, TLC

CONSTANTS a1, a2

AddrSymmetry == Permutations({a1, a2})
=============================================================================
