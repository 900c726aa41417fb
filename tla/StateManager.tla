---------------------------- MODULE StateManager ----------------------------
(***************************************************************************)
(* The account state of the embedded EVM: a Merkle trie of accounts with  *)
(* a stack of checkpoint layers (ethereumjs DefaultStateManager, used by  *)
(* BlockchainDB and extended by IronfishStateManager).                    *)
(*                                                                         *)
(* A trie is abstracted to its contents, a function Accts -> Vals; the    *)
(* state root is a collision-free digest of it, so two roots are equal    *)
(* iff the contents are.  A checkpoint layer is represented by the        *)
(* contents it would restore on revert.  'disk' is what the trie has      *)
(* persisted to the underlying database.                                  *)
(***************************************************************************)
EXTENDS Naturals, Sequences

CONSTANTS
    Accts,          \* account addresses
    Vals,           \* account contents written by callers
    NoAccount,      \* the value of an address with no account
    GLOBAL_CONTRACT_ADDRESS,
    GenesisAccount  \* the reserved account installed by initializeState

ASSUME GLOBAL_CONTRACT_ADDRESS \in Accts
ASSUME NoAccount \notin Vals /\ GenesisAccount \notin Vals

AccountValues == Vals \cup {NoAccount, GenesisAccount}

VARIABLES
    trie,       \* the live trie contents
    layers,     \* checkpoint layers, oldest first: contents to restore
    disk        \* contents persisted by the trie

smVars == <<trie, layers, disk>>

\* The canonical empty-trie root (NULL_STATE_ROOT in evm.ts).
NULL_STATE_ROOT == [a \in Accts |-> NoAccount]

TypeOK ==
    /\ trie \in [Accts -> AccountValues]
    /\ layers \in Seq([Accts -> AccountValues])
    /\ disk \in [Accts -> AccountValues]

\* A fresh database: nothing persisted, nothing checkpointed.
Init ==
    /\ trie = NULL_STATE_ROOT
    /\ layers = <<>>
    /\ disk = NULL_STATE_ROOT

\* The contents that reverting every open layer would leave.
Base == IF layers = <<>> THEN trie ELSE layers[1]

(***************************************************************************)
(* checkpoint(): push a layer.                                            *)
(***************************************************************************)
Checkpoint ==
    /\ layers' = Append(layers, trie)
    /\ UNCHANGED <<trie, disk>>

(***************************************************************************)
(* commit(): fold the newest layer into its parent; when it was the last  *)
(* layer the trie persists its contents.  Committing with no layer        *)
(* throws, so the step is not enabled.                                    *)
(***************************************************************************)
Commit ==
    /\ layers # <<>>
    /\ layers' = SubSeq(layers, 1, Len(layers) - 1)
    /\ disk' = IF Len(layers) = 1 THEN trie ELSE disk
    /\ UNCHANGED trie

(***************************************************************************)
(* revert(): discard the newest layer, restoring the contents it saved.   *)
(***************************************************************************)
Revert ==
    /\ layers # <<>>
    /\ trie' = layers[Len(layers)]
    /\ layers' = SubSeq(layers, 1, Len(layers) - 1)
    /\ UNCHANGED disk

(***************************************************************************)
(* putAccount(a, v): write the live trie; with no layer open the write    *)
(* goes straight to the trie's database.                                  *)
(***************************************************************************)
PutAccount(a, v) ==
    /\ trie' = [trie EXCEPT ![a] = v]
    /\ disk' = IF layers = <<>> THEN trie' ELSE disk
    /\ UNCHANGED layers

(***************************************************************************)
(* IronfishStateManager.initializeState(): when the root is the null      *)
(* root, checkpoint, install the reserved account (nonce 0, fixed         *)
(* balance, fixed code) and commit.  Otherwise nothing happens.           *)
(***************************************************************************)
InitializeState ==
    /\ trie = NULL_STATE_ROOT
    /\ trie' = [trie EXCEPT ![GLOBAL_CONTRACT_ADDRESS] = GenesisAccount]
    /\ disk' = IF layers = <<>> THEN trie' ELSE disk
    /\ UNCHANGED layers
=============================================================================
