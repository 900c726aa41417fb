---------------------------- MODULE BlockchainDB ----------------------------
(***************************************************************************)
(* BlockchainDB.withTransaction and BlockchainDBTransaction               *)
(* (blockchain/database/blockchaindb.ts): one key-value store transaction *)
(* bound to one checkpoint of the shared StateManager, so that chain      *)
(* metadata and EVM account state commit or abort together.              *)
(*                                                                         *)
(* Each task is an async caller of transaction(handler), i.e.             *)
(* withTransaction(null, handler).  Tasks interleave at every await.      *)
(* The store (storage/, spec-modelled) is a lock, a committed set of unit *)
(* records and one pending write batch per transaction.                   *)
(*                                                                         *)
(* A handler writes its own task id into accounts (PutAccount) and its    *)
(* record into the store, and may run an EVM transaction (vm.runTx,       *)
(* which checkpoints the same StateManager and commits it on success or   *)
(* reverts it on an execution failure), call update(), re-acquire the     *)
(* lock, and finally return or throw.                                     *)
(***************************************************************************)
EXTENDS Naturals, Sequences, FiniteSets

CONSTANTS
    Tasks,              \* concurrent callers of withTransaction
    Accts,
    NoAccount,
    NoTask,
    GLOBAL_CONTRACT_ADDRESS,
    GenesisAccount,
    MaxHandlerSteps,    \* bound on the steps of one handler
    StoreCommitMayFail, \* TRUE: tx.commit() may throw (I/O error)
    UnprotectedWrites   \* TRUE: a handler may write after update()
                        \*       without calling acquireLock() again

ASSUME NoTask \notin Tasks
ASSUME MaxHandlerSteps \in Nat
ASSUME StoreCommitMayFail \in BOOLEAN /\ UnprotectedWrites \in BOOLEAN

VARIABLES
    trie, layers, disk,     \* StateManager
    lock,                   \* store: holder of the transaction lock
    kv,                     \* store: tasks whose record is committed
    pending,                \* store: tasks with an unflushed record
    checkpoint,             \* BlockchainDBTransaction.checkpoint
    pc,                     \* where each task is in withTransaction
    steps,                  \* handler steps taken by each task
    txAcct,                 \* account written by an in-flight runTx
    loaded,                 \* IronfishEvm.load() has run
    dirty,                  \* (ghost) accounts a task wrote since its
                            \*   last store flush
    expected                \* (ghost) the trie the flushed units make

vars == <<trie, layers, disk, lock, kv, pending, checkpoint, pc, steps,
          txAcct, loaded, dirty, expected>>

SM == INSTANCE StateManager WITH Vals <- Tasks

AccountValues == SM!AccountValues

PCs == {"idle", "locking", "handler", "runtx", "committing", "aborting",
        "done"}

TypeOK ==
    /\ SM!TypeOK
    /\ lock \in Tasks \cup {NoTask}
    /\ kv \subseteq Tasks
    /\ pending \subseteq Tasks
    /\ checkpoint \in [Tasks -> BOOLEAN]
    /\ pc \in [Tasks -> PCs]
    /\ steps \in [Tasks -> 0..MaxHandlerSteps]
    /\ txAcct \in [Tasks -> Accts \cup {NoAccount}]
    /\ dirty \in [Tasks -> SUBSET Accts]
    /\ loaded \in BOOLEAN
    /\ expected \in [Accts -> AccountValues]

\* A fresh database; the node has not yet loaded the EVM.
Init ==
    /\ SM!Init
    /\ expected = SM!NULL_STATE_ROOT
    /\ loaded = FALSE
    /\ lock = NoTask
    /\ kv = {}
    /\ pending = {}
    /\ checkpoint = [t \in Tasks |-> FALSE]
    /\ pc = [t \in Tasks |-> "idle"]
    /\ steps = [t \in Tasks |-> 0]
    /\ txAcct = [t \in Tasks |-> NoAccount]
    /\ dirty = [t \in Tasks |-> {}]

\* expected after the units' writes in 'dirty[t]' are flushed.
Flushed(t) == [a \in Accts |-> IF a \in dirty[t] THEN t ELSE expected[a]]

-----------------------------------------------------------------------------
(***************************************************************************)
(* IronfishEvm.load() at node start, before the chain accepts work:       *)
(* initializeState() installs the reserved account when the root is the  *)
(* null root, in a checkpoint of its own that it commits.                 *)
(***************************************************************************)
Load ==
    /\ ~loaded
    /\ loaded' = TRUE
    /\ IF trie = SM!NULL_STATE_ROOT
         THEN SM!InitializeState
         ELSE UNCHANGED <<trie, layers, disk>>
    /\ expected' = trie'
    /\ UNCHANGED <<lock, kv, pending, checkpoint, pc, steps, txAcct, dirty>>

(***************************************************************************)
(* acquireLock(), first half: if no checkpoint is outstanding, checkpoint *)
(* the shared StateManager and set the flag; then wait for the store      *)
(* lock.                                                                  *)
(***************************************************************************)
AcquireCheckpoint(t) ==
    /\ loaded
    /\ pc[t] = "idle"
    /\ IF checkpoint[t]
         THEN UNCHANGED <<trie, layers, disk, checkpoint>>
         ELSE /\ SM!Checkpoint
              /\ checkpoint' = [checkpoint EXCEPT ![t] = TRUE]
    /\ pc' = [pc EXCEPT ![t] = "locking"]
    /\ UNCHANGED <<loaded, lock, kv, pending, steps, txAcct, dirty, expected>>

\* acquireLock(), second half: tx.acquireLock() returns once the store
\* lock is free; the handler then starts.
AcquireStoreLock(t) ==
    /\ pc[t] = "locking"
    /\ lock \in {NoTask, t}
    /\ lock' = t
    /\ pc' = [pc EXCEPT ![t] = "handler"]
    /\ UNCHANGED <<loaded, trie, layers, disk, kv, pending, checkpoint, steps,
                   txAcct, dirty, expected>>

\* A handler may write state while its own checkpoint protects it.
MayWrite(t) == checkpoint[t] \/ UnprotectedWrites

HandlerStep(t) ==
    /\ pc[t] = "handler"
    /\ steps[t] < MaxHandlerSteps
    /\ steps' = [steps EXCEPT ![t] = @ + 1]

\* The handler writes account a in the trie and its record in the store.
HandlerWrite(t, a) ==
    /\ HandlerStep(t)
    /\ MayWrite(t)
    /\ SM!PutAccount(a, t)
    /\ pending' = pending \cup {t}
    /\ dirty' = [dirty EXCEPT ![t] = @ \cup {a}]
    /\ UNCHANGED <<loaded, lock, kv, checkpoint, pc, txAcct, expected>>

(***************************************************************************)
(* IronfishEvm.runTx -> vm.runTx: checkpoint the StateManager and execute *)
(* the transaction, which writes account a.                               *)
(***************************************************************************)
RunTxStart(t, a) ==
    /\ HandlerStep(t)
    /\ MayWrite(t)
    /\ layers' = Append(layers, trie)
    /\ trie' = [trie EXCEPT ![a] = t]
    /\ txAcct' = [txAcct EXCEPT ![t] = a]
    /\ pc' = [pc EXCEPT ![t] = "runtx"]
    /\ UNCHANGED <<loaded, disk, lock, kv, pending, checkpoint, dirty, expected>>

\* Mutant: records the runTx account after clearing it.
RunTxFinishReadsCleared(t) ==
    /\ pc[t] = "runtx"
    /\ txAcct' = [txAcct EXCEPT ![t] = NoAccount]
    /\ \/ /\ SM!Commit
          /\ dirty' = [dirty EXCEPT ![t] = @ \cup {txAcct'[t]}]
       \/ /\ SM!Revert
          /\ UNCHANGED dirty
    /\ pc' = [pc EXCEPT ![t] = "handler"]
    /\ UNCHANGED <<loaded, lock, kv, pending, checkpoint, steps, expected>>

\* vm.runTx ends: commit its checkpoint on success, revert it when the
\* execution fails (runTx then returns a tagged EvmError).
RunTxFinish(t) ==
    /\ pc[t] = "runtx"
    /\ \/ /\ SM!Commit
          /\ dirty' = [dirty EXCEPT ![t] = @ \cup {txAcct[t]}]
       \/ /\ SM!Revert
          /\ UNCHANGED dirty
    /\ txAcct' = [txAcct EXCEPT ![t] = NoAccount]
    /\ pc' = [pc EXCEPT ![t] = "handler"]
    /\ UNCHANGED <<loaded, lock, kv, pending, checkpoint, steps, expected>>

\* Mutant: update() commits the checkpoint but leaves the flag set.
UpdateKeepsFlag(t) ==
    /\ HandlerStep(t)
    /\ IF checkpoint[t] THEN SM!Commit
                        ELSE UNCHANGED <<trie, layers, disk>>
    /\ kv' = kv \cup (pending \cap {t})
    /\ pending' = pending \ {t}
    /\ expected' = Flushed(t)
    /\ dirty' = [dirty EXCEPT ![t] = {}]
    /\ UNCHANGED <<loaded, lock, pc, txAcct, checkpoint>>

(***************************************************************************)
(* update(): commit the outstanding checkpoint and clear the flag, then   *)
(* tx.update() flushes the store batch and keeps the transaction open.    *)
(***************************************************************************)
Update(t) ==
    /\ HandlerStep(t)
    /\ IF checkpoint[t]
         THEN /\ SM!Commit
              /\ checkpoint' = [checkpoint EXCEPT ![t] = FALSE]
         ELSE UNCHANGED <<trie, layers, disk, checkpoint>>
    /\ kv' = kv \cup (pending \cap {t})
    /\ pending' = pending \ {t}
    /\ expected' = Flushed(t)
    /\ dirty' = [dirty EXCEPT ![t] = {}]
    /\ UNCHANGED <<loaded, lock, pc, txAcct>>

\* acquireLock() again from the handler: the store lock is already held.
Reacquire(t) ==
    /\ HandlerStep(t)
    /\ ~checkpoint[t]
    /\ SM!Checkpoint
    /\ checkpoint' = [checkpoint EXCEPT ![t] = TRUE]
    /\ UNCHANGED <<loaded, lock, kv, pending, pc, txAcct, dirty, expected>>

\* The handler resolves: it returns (commit follows) or throws (abort).
HandlerEnd(t) ==
    /\ pc[t] = "handler"
    /\ \E next \in {"committing", "aborting"} :
          pc' = [pc EXCEPT ![t] = next]
    /\ UNCHANGED <<loaded, trie, layers, disk, lock, kv, pending, checkpoint, steps,
                   txAcct, dirty, expected>>

(***************************************************************************)
(* commit(): commit the outstanding checkpoint and clear the flag, then   *)
(* tx.commit() writes the batch and releases the lock.  If tx.commit()   *)
(* throws, withTransaction catches it and calls abort().                  *)
(***************************************************************************)
Commit(t) ==
    /\ pc[t] = "committing"
    /\ IF checkpoint[t]
         THEN /\ SM!Commit
              /\ checkpoint' = [checkpoint EXCEPT ![t] = FALSE]
         ELSE UNCHANGED <<trie, layers, disk, checkpoint>>
    /\ \/ /\ kv' = kv \cup (pending \cap {t})
          /\ pending' = pending \ {t}
          /\ lock' = NoTask
          /\ expected' = Flushed(t)
          /\ dirty' = [dirty EXCEPT ![t] = {}]
          /\ pc' = [pc EXCEPT ![t] = "done"]
       \/ /\ StoreCommitMayFail
          /\ pc' = [pc EXCEPT ![t] = "aborting"]
          /\ UNCHANGED <<lock, kv, pending, expected, dirty>>
    /\ UNCHANGED <<loaded, steps, txAcct>>

\* Mutant: abort() commits the checkpoint instead of reverting it.
AbortCommits(t) ==
    /\ pc[t] = "aborting"
    /\ IF checkpoint[t]
         THEN /\ SM!Commit
              /\ checkpoint' = [checkpoint EXCEPT ![t] = FALSE]
         ELSE UNCHANGED <<trie, layers, disk, checkpoint>>
    /\ pending' = pending \ {t}
    /\ lock' = NoTask
    /\ dirty' = [dirty EXCEPT ![t] = {}]
    /\ pc' = [pc EXCEPT ![t] = "done"]
    /\ UNCHANGED <<loaded, kv, steps, txAcct, expected>>

\* Mutant: after abort() the caller retries the whole transaction.
AbortRetries(t) ==
    /\ pc[t] = "aborting"
    /\ IF checkpoint[t]
         THEN /\ SM!Revert
              /\ checkpoint' = [checkpoint EXCEPT ![t] = FALSE]
         ELSE UNCHANGED <<trie, layers, disk, checkpoint>>
    /\ pending' = pending \ {t}
    /\ lock' = NoTask
    /\ dirty' = [dirty EXCEPT ![t] = {}]
    /\ pc' = [pc EXCEPT ![t] = "idle"]
    /\ UNCHANGED <<loaded, kv, steps, txAcct, expected>>

\* Mutant: abort() never reaches tx.abort(), so the lock stays held.
AbortKeepsLock(t) ==
    /\ pc[t] = "aborting"
    /\ IF checkpoint[t]
         THEN /\ SM!Revert
              /\ checkpoint' = [checkpoint EXCEPT ![t] = FALSE]
         ELSE UNCHANGED <<trie, layers, disk, checkpoint>>
    /\ dirty' = [dirty EXCEPT ![t] = {}]
    /\ pc' = [pc EXCEPT ![t] = "done"]
    /\ UNCHANGED <<loaded, kv, pending, lock, steps, txAcct, expected>>

(***************************************************************************)
(* abort(): revert the outstanding checkpoint and clear the flag, then    *)
(* tx.abort() discards the batch and releases the lock; withTransaction   *)
(* rethrows the handler's error.                                          *)
(***************************************************************************)
Abort(t) ==
    /\ pc[t] = "aborting"
    /\ IF checkpoint[t]
         THEN /\ SM!Revert
              /\ checkpoint' = [checkpoint EXCEPT ![t] = FALSE]
         ELSE UNCHANGED <<trie, layers, disk, checkpoint>>
    /\ pending' = pending \ {t}
    /\ lock' = NoTask
    /\ dirty' = [dirty EXCEPT ![t] = {}]
    /\ pc' = [pc EXCEPT ![t] = "done"]
    /\ UNCHANGED <<loaded, kv, steps, txAcct, expected>>

(***************************************************************************)
(* abort() when stateManager.revert() throws (an I/O error while the      *)
(* StateManager writes back): the error leaves abort() at its first       *)
(* await, so the flag stays set, tx.abort() is never called and the lock  *)
(* stays held; withTransaction's catch rethrows it to the caller.         *)
(***************************************************************************)
AbortRevertFails(t) ==
    /\ pc[t] = "aborting"
    /\ checkpoint[t]
    /\ pc' = [pc EXCEPT ![t] = "done"]
    /\ UNCHANGED <<trie, layers, disk, lock, kv, pending, checkpoint, steps,
                   txAcct, loaded, dirty, expected>>

(***************************************************************************)
(* The process dies and the node restarts with persisted trie d.  Only    *)
(* what is on disk survives: the trie (EvmStateDB writes straight to the  *)
(* database, outside any store transaction) and the committed store       *)
(* records.  The live trie, the checkpoint stack, the unflushed batches, *)
(* the lock and every in-flight call are lost; the trie is reopened at    *)
(* its persisted root and load() runs again.                              *)
(***************************************************************************)
Restart(d) ==
    /\ trie' = d
    /\ disk' = d
    /\ layers' = <<>>
    /\ lock' = NoTask
    /\ pending' = {}
    /\ checkpoint' = [t \in Tasks |-> FALSE]
    /\ pc' = [t \in Tasks |-> "done"]
    /\ txAcct' = [t \in Tasks |-> NoAccount]
    /\ dirty' = [t \in Tasks |-> {}]
    /\ loaded' = FALSE
    /\ UNCHANGED <<kv, steps, expected>>

\* A crash at an await where nothing is half-persisted.
Crash == (\E t \in Tasks : pc[t] # "done") /\ Restart(disk)

(***************************************************************************)
(* A crash inside commit() (or update()) after its first await,           *)
(* stateManager.commit(), resolved and before tx.commit() (tx.update())   *)
(* wrote the store batch.  At depth one the StateManager commit has       *)
(* already persisted the trie.                                            *)
(***************************************************************************)
CrashAfterTrieCommit(t) ==
    /\ \/ pc[t] = "committing"
       \/ pc[t] = "handler" /\ steps[t] < MaxHandlerSteps
    /\ checkpoint[t]
    /\ Restart(IF Len(layers) = 1 THEN trie ELSE disk)

-----------------------------------------------------------------------------
\* The steps of one task.
TaskNext(t) ==
    \/ AcquireCheckpoint(t)
    \/ AcquireStoreLock(t)
    \/ \E a \in Accts : HandlerWrite(t, a)
    \/ \E a \in Accts : RunTxStart(t, a)
    \/ RunTxFinish(t)
    \/ Update(t)
    \/ Reacquire(t)
    \/ HandlerEnd(t)
    \/ Commit(t)
    \/ Abort(t)

\* Every withTransaction call has returned or thrown.
AllDone == \A t \in Tasks : pc[t] = "done"

\* The callers run once; when all have finished the system stops.
Terminated == AllDone /\ UNCHANGED vars

Next == Load \/ (\E t \in Tasks : TaskNext(t)) \/ Terminated

\* Node start runs load(), and each task is an async continuation that the
\* event loop keeps running: a step that stays enabled is eventually taken.
Fairness == WF_vars(Load) /\ \A t \in Tasks : WF_vars(TaskNext(t))

Spec == Init /\ [][Next]_vars /\ Fairness

\* The same callers, where any revert inside abort() may throw.
NextRevertMayFail == Next \/ \E t \in Tasks : AbortRevertFails(t)

SpecRevertMayFail == Init /\ [][NextRevertMayFail]_vars /\ Fairness

\* The same callers, where the process may crash at any await.
NextWithCrash ==
    Next \/ Crash \/ \E t \in Tasks : CrashAfterTrieCommit(t)

SpecWithCrash == Init /\ [][NextWithCrash]_vars /\ Fairness

-----------------------------------------------------------------------------
(***************************************************************************)
(* Properties                                                             *)
(***************************************************************************)

\* The coordinator makes the trie and the store resolve together: the
\* trie that the trie has persisted, and the trie that reverting every
\* open checkpoint layer would leave, are both exactly the writes of the
\* units whose store batch was committed (by commit() or update()), so no
\* write of an aborted unit survives and no write of a committed one is
\* lost.
TrieMatchesCommittedUnits ==
    /\ disk = expected
    /\ SM!Base = expected

\* The shared StateManager holds as many checkpoint layers as there are
\* outstanding BlockchainDBTransaction checkpoint flags and in-flight
\* vm.runTx calls, so every commit()/revert() of the coordinator and of
\* runTx finds a layer (the StateManager throws on an empty stack, which
\* would leave the store lock held).  With one caller the layers nest, so
\* the count also means each layer is its owner's; with two it does not.
LayersAccounted ==
    Len(layers) = Cardinality({t \in Tasks : checkpoint[t]})
                    + Cardinality({t \in Tasks : pc[t] = "runtx"})

\* The abstract unit-of-work store, seen through the StateManager's
\* persisted trie and the store: a unit's staged writes are the accounts
\* it wrote since its last flush, its batch is its pending store record.
AU == INSTANCE AtomicUnits
        WITH Units <- Tasks, state <- disk, records <- kv, staged <- dirty,
             batched <- pending

(***************************************************************************)
(* BlockchainDB implements AtomicUnits: the persisted trie changes only   *)
(* when a caller's commit() or update() also persists its store batch,    *)
(* and then by exactly that caller's writes; abort(), runTx and the       *)
(* checkpoint bookkeeping never change what is persisted.                 *)
(***************************************************************************)
RefinesAtomicUnits == AU!Spec

\* Every withTransaction call eventually returns or throws, and the store
\* lock is then free: no caller is left waiting in acquireLock().
EveryCallFinishes ==
    /\ \A t \in Tasks : <>(pc[t] = "done")
    /\ <>[](lock = NoTask)
=============================================================================
