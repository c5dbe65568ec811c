------------------------ MODULE MCControllerContract ------------------------
(***************************************************************************)
(* An instance of ControllerContract for TLC.                              *)
(***************************************************************************)
EXTENDS ControllerContract

Symmetry == Permutations(Fd)
=============================================================================
