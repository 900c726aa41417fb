--------------------------- MODULE MCBlockchainDB ---------------------------
(***************************************************************************)
(* Model-checking instances of BlockchainDB: tasks, accounts and the      *)
(* reserved genesis account are model values.                            *)
(***************************************************************************)
EXTENDS BlockchainDB, TLC

CONSTANTS t1, t2, a1, g

MCTasksOne == {t1}
MCTasksTwo == {t1, t2}
MCAccts == {g, a1}
=============================================================================
