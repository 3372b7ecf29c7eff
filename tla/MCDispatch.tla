----------------------------- MODULE MCDispatch -----------------------------
(***************************************************************************)
(* An instance of Dispatch: one opcode, registered any number of times, two *)
(* calls by an allowed caller and another one.                              *)
(***************************************************************************)
EXTENDS Dispatch

CONSTANTS k1, k2, admin, guest

Symmetry == Permutations(Calls)

=============================================================================
