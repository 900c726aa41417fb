------------------------------ MODULE MCEvm ------------------------------
(***************************************************************************)
(* Model-checking instance of Evm: accounts and written contents are     *)
(* model values.                                                          *)
(***************************************************************************)
EXTENDS Evm, TLC

CONSTANTS a1, g

MCAccts == {g, a1}
=============================================================================
