-------------------------------- MODULE Evm --------------------------------
(***************************************************************************)
(* IronfishEvm (evm/evm.ts): runTx on the live StateManager, and          *)
(* simulateTx on a copy().  A copy is a shallow copy of the VM and of its *)
(* StateManager: its own trie object and checkpoint stack over the same   *)
(* database, so whatever the copy persists lands in the database the live *)
(* trie persists to.  copy(revert = true) pushes one extra checkpoint so   *)
(* the copy's own commits never empty its stack.                         *)
(*                                                                         *)
(* Readers: getAccount/getBalance and the eth_getCode route fork a view   *)
(* with withStateRoot (a shallow copy, rewound to the root when one is    *)
(* given) and read it at a later await.  A state root is abstracted to    *)
(* the contents it digests, so the roots a caller can pass are the        *)
(* contents the live trie has persisted.                                  *)
(***************************************************************************)
EXTENDS Naturals, Sequences

CONSTANTS
    Accts,
    NoAccount,
    GLOBAL_CONTRACT_ADDRESS,
    GenesisAccount,
    LiveVal,        \* contents written by a live transaction
    SimVal,         \* contents written by a simulated transaction
    NoRoot,         \* stateRoot undefined: no root, or no block for the ref
    MaxLiveTx,      \* bound on live runTx calls
    MaxSims,        \* bound on simulateTx calls
    MaxReads        \* bound on getAccount/getBalance/eth_getCode calls

ASSUME MaxLiveTx \in Nat /\ MaxSims \in Nat /\ MaxReads \in Nat

VARIABLES
    trie, layers, disk,     \* the live StateManager and the shared database
    forkTrie, forkLayers,   \* the copy's trie object and checkpoint stack
    livePc,                 \* "idle" or "running" (inside vm.runTx)
    simPc,                  \* "idle", "copied", "running"
    liveTxs, sims,          \* calls made so far
    liveDisk,               \* (ghost) what the live trie last persisted
    roots,                  \* (ghost) every root the live trie persisted
    readPc,                 \* "idle", "account" or "code" (view forked)
    view, answer, reads     \* the forked view, the last value read, calls

vars == <<trie, layers, disk, forkTrie, forkLayers, livePc, simPc, liveTxs,
          sims, liveDisk, roots, readPc, view, answer, reads>>

Live == INSTANCE StateManager WITH Vals <- {LiveVal, SimVal}
Fork == INSTANCE StateManager
            WITH Vals <- {LiveVal, SimVal}, trie <- forkTrie,
                 layers <- forkLayers

liveVars == <<trie, layers, livePc, liveTxs>>
forkVars == <<forkTrie, forkLayers, simPc, sims>>
readVars == <<roots, readPc, view, answer, reads>>

TypeOK ==
    /\ Live!TypeOK
    /\ forkTrie \in [Accts -> Live!AccountValues]
    /\ forkLayers \in Seq([Accts -> Live!AccountValues])
    /\ livePc \in {"idle", "running"}
    /\ simPc \in {"idle", "copied", "running"}
    /\ liveTxs \in 0..MaxLiveTx
    /\ sims \in 0..MaxSims
    /\ liveDisk \in [Accts -> Live!AccountValues]
    /\ roots \subseteq [Accts -> Live!AccountValues]
    /\ readPc \in {"idle", "account", "code"}
    /\ view \in [Accts -> Live!AccountValues]
    /\ answer \in Live!AccountValues
    /\ reads \in 0..MaxReads

\* The node has loaded: initializeState installed the reserved account.
Init ==
    /\ LET g == [Live!NULL_STATE_ROOT EXCEPT
                    ![GLOBAL_CONTRACT_ADDRESS] = GenesisAccount]
       IN trie = g /\ disk = g /\ liveDisk = g /\ forkTrie = g
             /\ roots = {g} /\ view = g
    /\ layers = <<>>
    /\ forkLayers = <<>>
    /\ livePc = "idle"
    /\ simPc = "idle"
    /\ liveTxs = 0
    /\ sims = 0
    /\ readPc = "idle"
    /\ answer = NoAccount
    /\ reads = 0

-----------------------------------------------------------------------------
(***************************************************************************)
(* runTx on the live VM: vm.runTx checkpoints, executes (writing account  *)
(* a), then commits on success or reverts on an execution failure.        *)
(***************************************************************************)
LiveRunTxStart(a) ==
    /\ livePc = "idle"
    /\ liveTxs < MaxLiveTx
    /\ layers' = Append(layers, trie)
    /\ trie' = [trie EXCEPT ![a] = LiveVal]
    /\ livePc' = "running"
    /\ liveTxs' = liveTxs + 1
    /\ UNCHANGED <<disk, liveDisk, forkVars, readVars>>

LiveRunTxFinish ==
    /\ livePc = "running"
    /\ Live!Commit \/ Live!Revert
    /\ livePc' = "idle"
    /\ liveDisk' = disk'
    /\ roots' = roots \cup {disk'}
    /\ UNCHANGED <<liveTxs, forkVars, readPc, view, answer, reads>>

(***************************************************************************)
(* simulateTx, first step: copy() -> vm.shallowCopy() forks the live      *)
(* trie's contents onto a fresh stack, and with revert = true (the        *)
(* default simulateTx uses) pushes one checkpoint on the copy.            *)
(***************************************************************************)
\* Mutant: copy() without the extra checkpoint.
CopyWithoutCheckpoint ==
    /\ simPc = "idle"
    /\ sims < MaxSims
    /\ forkTrie' = trie
    /\ forkLayers' = <<>>
    /\ simPc' = "copied"
    /\ UNCHANGED <<disk, liveDisk, liveVars, sims, readVars>>

Copy ==
    /\ simPc = "idle"
    /\ sims < MaxSims
    /\ forkTrie' = trie
    /\ forkLayers' = <<trie>>
    /\ simPc' = "copied"
    /\ UNCHANGED <<disk, liveDisk, liveVars, sims, readVars>>

\* copy.runTx: vm.runTx on the copy checkpoints and writes account a.
SimRunTxStart(a) ==
    /\ simPc = "copied"
    /\ forkLayers' = Append(forkLayers, forkTrie)
    /\ forkTrie' = [forkTrie EXCEPT ![a] = SimVal]
    /\ simPc' = "running"
    /\ UNCHANGED <<disk, liveDisk, liveVars, sims, readVars>>

\* vm.runTx on the copy commits or reverts its checkpoint; simulateTx then
\* returns the result or throws the EvmError, and the copy is dropped.
SimRunTxFinish ==
    /\ simPc = "running"
    /\ Fork!Commit \/ Fork!Revert
    /\ simPc' = "idle"
    /\ sims' = sims + 1
    /\ UNCHANGED <<liveDisk, liveVars, readVars>>

(***************************************************************************)
(* withStateRoot(root) (stateManager.ts): shallowCopy() the live manager, *)
(* then, when a root is given, setStateRoot(root) on the copy.  The view  *)
(* is the copy's contents; the live trie is left alone.                   *)
(***************************************************************************)
WithStateRoot(root) ==
    /\ view' = IF root = NoRoot THEN trie ELSE root
    /\ UNCHANGED trie

\* A reader's first await: the view of getAccount(address, stateRoot), or
\* of eth_getCode for the block the request names (NoRoot when
\* ethBlockRefToBlock finds none).  Roots are those the chain persisted.
StartRead(kind, root) ==
    /\ readPc = "idle"
    /\ reads < MaxReads
    /\ root \in roots \cup {NoRoot}
    /\ WithStateRoot(root)
    /\ readPc' = kind
    /\ UNCHANGED <<layers, disk, livePc, liveTxs, liveDisk, forkVars, roots,
                   answer, reads>>

\* Its second await reads the view forked at the first.
FinishRead(kind, a) ==
    /\ readPc = kind
    /\ answer' = view[a]
    /\ readPc' = "idle"
    /\ reads' = reads + 1
    /\ UNCHANGED <<liveVars, disk, liveDisk, forkVars, roots, view>>

\* getAccount, and getBalance, which returns that account's balance.
GetAccount(a) == FinishRead("account", a)

\* eth_getCode: stateManager.getContractCode on the view.
GetContractCode(a) == FinishRead("code", a)

\* Every call was made and has returned.
Finished == livePc = "idle" /\ simPc = "idle" /\ readPc = "idle"
              /\ liveTxs = MaxLiveTx /\ sims = MaxSims /\ reads = MaxReads

-----------------------------------------------------------------------------
Next ==
    \/ \E a \in Accts : LiveRunTxStart(a)
    \/ LiveRunTxFinish
    \/ Copy
    \/ \E a \in Accts : SimRunTxStart(a)
    \/ SimRunTxFinish
    \/ \E kind \in {"account", "code"}, root \in roots \cup {NoRoot} :
            StartRead(kind, root)
    \/ \E a \in Accts : GetAccount(a) \/ GetContractCode(a)
    \/ (Finished /\ UNCHANGED vars)

Spec == Init /\ [][Next]_vars

-----------------------------------------------------------------------------
\* simulateTx never reaches the database: what the trie has persisted is
\* always what the live StateManager last persisted, however simulations
\* and live transactions interleave.
SimulationNeverPersists == disk = liveDisk
=============================================================================
