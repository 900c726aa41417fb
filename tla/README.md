# TLA+ models of the Iron Fish EVM state bridge

These modules model the part of the node that keeps two stores in step. One is
the chain's key-value store. The other is the Merkle trie of EVM accounts. The
code is `src/ironfish/src/blockchain/database/blockchaindb.ts`,
`src/ironfish/src/evm/evm.ts` and `src/ironfish/src/evm/stateManager.ts`. The
other source files are covered too. All runs are TLC runs listed in
`PROJECT.json`.

## 1. Inventory

### Components

| Component | Source | State it keeps | Operations |
|---|---|---|---|
| StateManager | ethereumjs `DefaultStateManager` (built in `BlockchainDB` constructor, blockchaindb.ts:124-130); `IronfishStateManager` (stateManager.ts) | live trie, a stack of checkpoint layers, the trie's persisted nodes and root | `checkpoint`, `commit`, `revert`, `putAccount`, `getAccount`, `withStateRoot` (fork), `initializeState` (genesis), `open` |
| TransactionCoordinator | `BlockchainDBTransaction`, `BlockchainDB.transaction`, `withTransaction` (blockchaindb.ts:364-448) | the store transaction, the `checkpoint` flag, the write cache | `acquireLock`, `update`, `commit`, `abort`, `put`/`get`/`del`/`add`/`has` |
| Store (storage/, not in src) | `IDatabase`, `IDatabaseTransaction` | committed key-values, one write batch per transaction, one lock | `acquireLock`, `commit`, `abort`, `update`, reads and writes |
| ExecutionEngine | `IronfishEvm` (evm.ts) | the VM bound to the shared StateManager | `open`, `load`, `runTx`, `runDesc`, `simulateTx`, `copy`, `call`, `getAccount`, `getBalance` |
| EventDecoder / AssetIdentity | `IronfishEvm.decodeLogs`, `getAssetId` (evm.ts:116-168) | none | decode each log as Shield, else UnShield, else skip; derive asset ids |
| BlockchainDB stores | blockchaindb.ts:143-362 | headers, meta, transactions, sequence-to-hash(es), next-hash, assets, tx-hash index | get/put/del pass-throughs; `addHashAtSequence` and `removeHashAtSequence` read then write |
| AccountValueEncoding | accountValue.ts | none | `serialize`/`deserialize`/`getSize` of encrypted and decrypted account records |
| Account import | encoder/account.ts | none | `encodeAccount` by format, `decodeAccount` trying each encoder in turn |
| RPC routes | rpc/routes/eth/getCode.ts, route index files | none | `eth_getCode`: a `withStateRoot` view at the block's root, then `getContractCode`; the index files re-export |
| CLI commands | ironfish-cli/... | none | one-shot RPC and console I/O |

### How they interact

- One `StateManager` object belongs to `BlockchainDB`. Every `BlockchainDBTransaction`
  shares it, and so does the VM that `IronfishEvm.open` creates.
- `acquireLock()` first pushes a checkpoint layer on that shared StateManager.
  Only then does it wait for the store's transaction lock.
- `commit()` and `abort()` resolve "the newest layer". They do not resolve a
  layer belonging to their own coordinator.
- `vm.runTx` pushes its own layer on the same StateManager. It commits that
  layer on success and reverts it on failure.
- `simulateTx` works on a `copy()`: a shallow copy of the VM and StateManager
  that shares the database. It adds an extra checkpoint so that nothing it does
  reaches depth zero and persists.
- The consensus verifier, outside src, calls `runTx`/`simulateTx`. It compares
  the decoded Shield/Unshield events with a transaction's mints and burns.

### What is hard

- **Interleaving.** Callers are async tasks, and they interleave at every
  `await`. The store lock serialises the handlers. The checkpoint is taken
  *before* the lock, on a stack every caller shares.
- **Partial failure.** The trie commit and the store commit are two steps.
  Either one can fail, or the process can crash between them.
- **Nested layers.** `runTx` layers nest inside coordinator layers. `update()`
  commits a layer without opening a new one.
- **Isolation.** Forks (`copy`, `withStateRoot`) share the database with the
  live trie.
- **Decoding.** Logs are decoded by data shape alone.

### Properties that make each component correct

- Coordinator: the trie holds exactly the writes of the units whose store batch
  committed. Every checkpoint layer is owned by one open coordinator or one
  `runTx`. Every call finishes and releases the lock.
- StateManager: nested checkpoint/commit/revert is LIFO-symmetric.
  `initializeState` is idempotent, and once run the live root is never the null
  root.
- ExecutionEngine: a failed `runTx` leaves the state as it was. `simulateTx`
  never changes the live trie or what is persisted.
- EventDecoder: every decoded event comes from a matching log of the reserved
  contract. `getAssetId` is injective on (caller, tokenId) apart from the
  native case.
- AccountValueEncoding: `deserialize(serialize(v)) = v`, and
  `getSize(v) = len(serialize(v))`.

The hazards, each at its source line, are listed under `hazards` in
`PROJECT.json`.

## 2. Plan

Modules, in order of importance:

1. `StateManager`: done. The trie and its checkpoint stack, plus `initializeState`.
2. `BlockchainDB` with `MCBlockchainDB`: done. This is the coordinator. It uses
   `StateManager` through `INSTANCE`, adds the store, runs any number of
   `withTransaction` callers, and nests `runTx` inside them.
3. `Evm` with `MCEvm`: done for `copy`/`simulateTx` interleaved with live
   `runTx`, and for the readers `getAccount`/`getBalance` and `eth_getCode`
   through `withStateRoot`. Without a root a reader sees the live trie,
   uncommitted writes included, which the spec allows; that is recorded as a
   hazard (evm.ts:171). `call()` is not modelled (section 5).
4. `AtomicUnits`: done. This abstract specification is implemented by
   `BlockchainDB` with one caller (`RefinesAtomicUnits` in `txn_single`).
5. Crash and restart in `BlockchainDB`: done (`txn_partial_commit`). A crash loses the live trie, the
   layers, the batches and the lock, and keeps `disk` and `kv`. The property
   is that the persisted trie and store agree after any crash.
6. `EventDecoder` with `MCEventDecoder`: done. `decodeLogs` and `getAssetId`
   are operators over receipts of bounded length.
7. `ChainIndex` with `MCChainIndex`: done. It covers all eight stores and
   every method that reads or writes them, with writers and readers
   interleaved, with and without a store transaction (`chain_index`,
   `chain_index_direct`). `SerialChainStore` is its abstract
   specification, and the refinement is checked in `chain_index`.
8. `AccountValueEncoding` with `MCAccountValueEncoding`: done.
   `decodeAccount` is not modelled. The spec puts account import out of
   scope, and every encoder it tries lives outside src.
9. `BlockchainDB` abort with a failing revert: done (`txn_revert_failure`).

## 3. Modules and how they map to the code

### StateManager.tla

- **Variables.** `trie` is the live account contents. A trie is abstracted to
  its contents, and the root is treated as a collision-free digest of them.
  `layers` holds one entry per checkpoint: the contents a revert restores.
  `disk` is what the trie has persisted.
- **Checkpoint, Commit, Revert, PutAccount.** These follow the ethereumjs
  contract in spec section 4.1. A commit that empties the stack persists. A
  write with no layer open goes straight to the database. Commit and revert
  are not enabled on an empty stack, because the library throws there.
- **InitializeState** is `IronfishStateManager.initializeState`. It runs
  checkpoint, put, put and commit as one step, guarded by the null root.

### BlockchainDB.tla (MC: MCBlockchainDB.tla)

Every action below, except `Load`, belongs to one task. A task is one async
caller of `BlockchainDB.transaction(handler)`.

| Action | Code |
|---|---|
| `Load` | `IronfishEvm.load` → `initializeState`, at node start |
| `AcquireCheckpoint` | `acquireLock` lines 419-422: checkpoint if the flag is clear |
| `AcquireStoreLock` | `acquireLock` line 423: `await tx.acquireLock()` |
| `HandlerWrite` | a handler's `putAccount` and `tx.put` |
| `RunTxStart`, `RunTxFinish` | `IronfishEvm.runTx` → `vm.runTx`: checkpoint, execute, then commit, or revert and return an `EvmError` |
| `Update` | `update()`: commit the checkpoint if flagged, then `tx.update()` |
| `Reacquire` | `acquireLock()` called again from the handler |
| `HandlerEnd` | the handler returns or throws (`withTransaction`) |
| `Commit` | `commit()`. When `tx.commit()` throws, the next step is `withTransaction`'s catch → `abort()` |
| `Abort` | `abort()`: revert if flagged, then `tx.abort()` |
| `Crash`, `Restart` | the process dies at any await; the live trie, layers, batches, lock and calls are lost, the trie reopens at its persisted root and `load()` runs again. Only in `SpecWithCrash` |
| `CrashAfterTrieCommit` | a crash in `update()` or `commit()` after `await stateManager.commit()` and before `tx.update()`/`tx.commit()` (lines 426-440) |
| `AbortRevertFails` | `abort()` when `stateManager.revert()` throws: `tx.abort()` is never reached. It is only in `SpecRevertMayFail`, the spec the `txn_revert_failure` run checks |

- **The store.** It is modelled from the spec. `lock` is the holder. `pending`
  is the set of transactions with an unwritten batch. `kv` holds the committed
  unit records.
- **Ghost variables.** `dirty[t]` is the set of accounts that t wrote since its
  last flush. It includes runTx writes that committed and excludes reverted
  ones. `expected` is the trie that the flushed units produce. It is updated
  at the same step as the store's commit or update.

### AtomicUnits.tla: the abstract specification

- **What it promises.** This is what `transaction(handler)` promises a caller.
  A unit stages account writes (`Stage`), with or without a store record.
  Then it either commits, so that its writes and its record persist in one
  step (`CommitUnit`), or it discards them (`Discard`).
- **Refinement mapping.** `BlockchainDB` instantiates it as `AU` with
  `state <- disk`, `records <- kv`, `staged <- dirty` and
  `batched <- pending`. `RefinesAtomicUnits == AU!Spec` is checked as a
  PROPERTY.
- **Step correspondence.** Every concrete step is either a stutter of the
  abstract spec or one abstract step:
  - `Load` is `Genesis`;
  - a handler write, or a committed `runTx`, is `Stage`;
  - `commit()` or `update()` is `CommitUnit`;
  - `abort()` is `Discard`.
- **Where it holds.** It holds for one caller. With two callers it fails on the
  same interleaving as `txn_concurrent`.

### Evm.tla (MC: MCEvm.tla)

Two `StateManager` instances share `disk`: `Live` is the VM's own, and `Fork`
(over `forkTrie`, `forkLayers`) is the StateManager of a `copy()`.

| Action | Code |
|---|---|
| `LiveRunTxStart`, `LiveRunTxFinish` | `runTx` on the live VM: checkpoint and write, then commit or revert |
| `Copy` | `copy()` (evm.ts:43-54): shallow copy of the VM; with `revert` true, one extra checkpoint on the copy |
| `SimRunTxStart`, `SimRunTxFinish` | `simulateTx` → `copy.runTx`: checkpoint, write, commit or revert; the copy is then dropped |
| `StartRead("account", root)`, `GetAccount(a)` | `getAccount`/`getBalance` (evm.ts:170-178): `withStateRoot(root)`, then read the view at the next await |
| `StartRead("code", root)`, `GetContractCode(a)` | the `eth_getCode` handler (getCode.ts:26-40): the view at the block's root, `NoRoot` when the block ref resolves to none, then `getContractCode` |

- The copy starts from the live trie's contents. How `shallowCopy` shares the
  trie's database is library behaviour, taken from the spec: the copy's trie
  persists to the same database.
- Live `runTx` here runs without a coordinator; `BlockchainDB` covers the
  nesting under one.
- `liveDisk` is a ghost: what the live trie last persisted. `roots` is a
  ghost too: every state the live trie persisted, which stands for the state
  roots of blocks a reader can name.
- `WithStateRoot` (stateManager.ts:32-38) makes `view` the live contents
  (`shallowCopy`) or the root's contents (`setStateRoot` on the copy), and
  leaves the live trie alone.

### EventDecoder.tla (MC: MCEventDecoder.tla)

- **Data.** A log is `[address, topic, data]`, and `data` a sequence of ABI
  words, each abstracted to a small natural. An offset or length word counts
  words, not bytes. Words above `AddrMax` stand for values wider than 160 bits.
- **Decoding.** `ShieldDecodes`/`UnShieldDecodes` say when ethers'
  `decodeEventLog(name, data)` returns rather than throws: an address word
  must fit in 160 bits, and a `bytes` offset and length must stay inside the
  data. Trailing words are ignored. No topic is passed, so none is checked.
- **`DecodeLog`** is one iteration of the loop (evm.ts:121-154): Shield, else
  UnShield, else skip. `decodeLogs` concatenates the iterations.
- **`getAssetId`.** The name `lowercase(caller) + "_" + tokenId` is kept as the
  pair it is built from. This is injective, because an address has a fixed
  width and no `_`. The asset id derivation lives outside src, so it follows
  the spec: a collision-free digest, represented by the triple
  (creator, name, metadata).
- **Receipts.** `EmitShield`, `EmitUnShield` and `EmitOther` stand for
  contracts run by the VM appending logs. The ghost `intents` records which
  domain event each log was emitted as.

### AccountValueEncoding.tla (MC: MCAccountValueEncoding.tla)

- **Operators.** `serialize`, `deserialize` and `getSize` are operators with the
  code's names. The variable `value` is one stored record, and `Init`
  enumerates the records. `EncryptedAccountValue` and `DecryptedAccountValue`
  are the two interfaces as record sets over given field domains. A
  `| null` field also takes `Null`, and the optional `multisigKeys` also
  takes `Undefined`.
- **Buffers.** A buffer is a sequence of bytes, and bufio is modelled by what
  it does:
  - little-endian integers;
  - varints, without the 8-byte form, since no JS string is 2^32 bytes long;
  - strings as UTF-8 behind a varint byte length, with `DecodeUtf8` recursive;
  - hex keys through `Buffer.from(_, 'hex')` and `toString('hex')`.
- **Static writer.** `bufio.write(getSize(v))` throws unless the bytes fill it
  exactly, so `serialize` yields `Throw` when `getSize` disagrees with what is
  written.
- **Reading.** Each read of `deserializeDecrypted` takes the offset that the
  previous read left. Offsets only grow, so a read past the end (which throws
  in bufio) shows as a final offset beyond the buffer.
- **Integers.** TLC integers are 32-bit. Multi-byte integers are read exactly
  below 2^16, and any larger one stands for "longer than every buffer here".
- **Delegated encodings.** `createdAt` and `multisigKeys` are encoded by
  `headValue.ts` and `multisigKeys.ts`, which are not under src. They are
  modelled as a fixed-size integer and as a hex secret's bytes.

### ChainIndex.tla (MC: MCChainIndex.tla)

This models the eight `BlockchainDB` stores (blockchaindb.ts:47-122,
143-354): headers and transaction lists by block hash, the list of hashes at
each sequence, the main-chain hash at each sequence, the next-hash links, the
`head` and `latest` meta hashes, assets, and the transaction-hash index. They
refer to one another by block hash. Each process runs a fixed
program of `BlockchainDB` calls (`Prog[p]`), inside one store transaction when
`UseTx[p]` holds and without one otherwise.

- **Variables.** `db` is the committed store, one function over the keys
  `<<store, key>>` of every store (`StoreKeys`; `Absent` for a missing key).
  A header and a transaction list are abstracted to their block hash, an
  asset to the transaction that created it. `lock` is the store lock's holder. Per process,
  `cache` is its transaction's writes, `pc` the call it is at, `phase` where
  it is inside that call, `local` the value it last read and `waiting` the
  header reads still pending. The ghost `committed` records the commit
  order. The ghost `reads[p]` collects the `<<key, value>>` pairs p read
  through its transaction, and `snapshots` every committed state of the
  store.
- **Store.** The store transaction (storage/, not in src) is modelled from the
  spec in `TxAccess`, `Get`, `Put` and `Commit`. The first read or write takes
  the lock. Writes go to a cache that the transaction's own reads see. Commit
  writes the cache and releases the lock. A call without a transaction reads
  and writes `db` directly.

| Action | Code |
|---|---|
| `putBlockHeader`, `deleteHeader`, `putMetaHash`, `putTransaction`, `deleteTransaction`, `putSequenceToHash`, `deleteSequenceToHash`, `putNextHash`, `deleteNextHash`, `putAsset`, `deleteAsset`, `putTransactionHashToBlockHash`, `deleteTransactionHashToBlockHash` | one `put`/`del` on one store (`SingleWrite`) |
| `addTransaction` | `transactions.add`: throws when the block already has a list, and the caller aborts |
| `clearSequenceToHash`, `clearHashToNextHash` | `clear` of the whole store (`Clear`) |
| `getMetaHash`, `getBlockHeaderByHash` (`getBlockHeader`), `getTransactions`, `getBlockHashAtSequence`, `getNextHash`, `getAsset`, `getBlockHashByTransactionHash`, `transactionHashHasBlock` | one `get`/`has` of one store (`Lookup`). A call that leaves out its argument uses what the process's previous call returned (`Arg`), and a reader stops following a reference it did not find |
| `ReadHashes` | the first await of `addHashAtSequence`/`removeHashAtSequence`: `getBlockHashesAtSequence(sequence, tx)`, a missing key reads as `[]` |
| `addHashAtSequence` | `put(sequence, {hashes: [...hashes, hash]}, tx)` |
| `removeHashAtSequence` | filter out the hash, then `del` if nothing is left, else `put` |
| `getBlockHeadersAtSequence` | read the list; an empty list returns `[]` at once |
| `getBlockHeader` | one of the `Promise.all` header reads, in any order; a missing header fails the `Assert.isNotUndefined` and the transaction aborts (phase `threw`) |
| `getBlockHeaderAtSequence`, `getBlockHeaderAtSequenceHeader` | read the main-chain hash (with no transaction: the code passes none), then that header |
| `Commit` | the caller's `tx.commit()` |

### SerialChainStore.tla: the abstract specification of the stores

- **What it promises.** This is what the stores promise a caller that passes
  one store transaction to every call. `store` is the committed store and
  `finished` the callers that are done. `Run(p)` applies p's whole program
  to the store in one step, and `Fail(p)` leaves the store unchanged when a
  call of the program, run alone, throws: a duplicate `addTransaction`, or a
  listed header that is missing.
- **Serial semantics.** `Step` is each method's effect on the store when it
  runs alone. The keys each call touches come from `CallKey`, and `Effect`
  folds `Step` over a program.
- **Refinement mapping.** `ChainIndex` instantiates it as `Serial`, with
  `store <- db` and `finished <-` the processes in phase `done` or `threw`.
  `RefinesSerialStore == Serial!Spec` is checked as a PROPERTY in
  `chain_index`.
- **Step correspondence.** A `Commit` is `Run`, and a throw is `Fail`. Every
  other step of `ChainIndex` stutters, since it changes only a cache, the
  lock or a reader's state.

## 4. Runs

| Run | Bounds | Checks | Result |
|---|---|---|---|
| `txn_single` | 1 task, accounts {g, a1}, 4 handler steps | TypeOK, TrieMatchesCommittedUnits, LayersAccounted, EveryCallFinishes, RefinesAtomicUnits | pass: one caller keeps trie and store in step, through nested runTx failures, update and re-acquire, and implements `AtomicUnits` |
| `txn_lock` | 2 tasks, 3 steps, store commits may fail | EveryCallFinishes | pass: every call ends and frees the lock. Layer ownership is not checked here: with two callers one caller's `update()` resolves the other's layer (`txn_concurrent`), and a layer count would still balance |
| `txn_concurrent` | 2 tasks, 2 steps | TrieMatchesCommittedUnits | **violation** (code_bug) |
| `txn_update_gap` | 1 task, writes after update allowed | TrieMatchesCommittedUnits | **violation** (spec_gap) |
| `txn_revert_failure` | 1 task, 2 steps, `SpecRevertMayFail` | EveryCallFinishes | **violation** (spec_code_divergence) |
| `txn_partial_commit` | 1 task, store commit may fail, `SpecWithCrash` | TrieMatchesCommittedUnits | **violation** (spec_code_divergence) |
| `account_value` | all 5208 records of the two record types over: versions {1, 258}; id/name in {"", "i", "é"}; two keys of 1 byte for spending, proof-authorizing, incoming and outgoing view keys, each nullable field null or set; encrypted records with optional salt/data; view key of 2 bytes | SerializeFits, RoundTrip | pass: every record fills its getSize buffer exactly and reads back equal |
| `evm_simulate` | 2 live runTx, 2 simulations, 2 reads, accounts {g, a1} | SimulationNeverPersists | pass: no commit of a copy reaches the shared database, whatever the interleaving with live transactions and reads; without the extra checkpoint of `copy()` a simulation persists |
| `decode_roundtrip` | receipts of up to 2 logs, 2 emitters, callers {reserved, other}, amounts {small, wide}, 4 unrelated data layouts | DecodeRoundTrip | pass: every Shield and UnShield is recovered with its fields and asset id, and unrelated events are dropped; trying UnShield first reads every Shield as an UnShield |
| `decode_authentic` | same | EventsAuthentic | **violation** (code_bug): a Shield-shaped log from another contract decodes as a Shield |
| `chain_index` | main chain h0, h1; writer w1 adds fork block h2 as latest; writer w2 reorgs to h3, removing h1 from all eight stores in 16 calls; writer w3 reads the head, clears and rebuilds the main-chain index; readers r, r2 call both header reads in either order; reader r3 follows t1 to its block, header and transactions, a1 to its creating transaction, h0 to its child, and reads the main-chain hash; all in transactions | HeadersAtSequenceFound, RefinesSerialStore, StoresConsistent, ReadsFromOneSnapshot | pass: every header the index lists is found; the transactions implement `SerialChainStore`, so every store is what the programs, each run alone at its commit, would leave; no committed store ever refers to a missing block; and everything a transaction reads from the store is one committed state. A list read outside the transaction loses an update and breaks the refinement, a `deleteHeader` that drops its `tx` leaves the main chain pointing at a deleted header, and a `getBlockHashByTransactionHash` that drops its `tx` reads a block and then finds its header gone |
| `chain_index_direct` | same, readers without a transaction | HeadersAtSequenceFound | **violation** (code_bug) |

**txn_concurrent** fails in six steps:

1. t1 holds the lock and writes a1.
2. t2's `acquireLock()` pushes its checkpoint and waits for the lock.
3. t1's `update()` commits the newest layer, which is t2's.
4. t1's store batch is flushed, but its trie write now sits in a layer that t2
   will later commit or revert.

With `commit()` in place of `update()`, a t2 abort reverts t1's committed
writes. With t1 aborting instead, t2 later commits t1's aborted writes.

**txn_update_gap.** After `update()` there is no layer, so the next write
persists at once.

**txn_revert_failure.** The handler throws, `abort()` calls
`stateManager.revert()`, and that throws. `tx.abort()` never runs, so the lock
stays with a finished caller forever. Spec section 4 says that both steps are
attempted.

**txn_partial_commit** fails in six states. The node loads, and one caller
takes the lock and writes an account. It then calls `update()` or `commit()`,
whose `stateManager.commit()` at depth one persists the trie. Then either
`tx.commit()` throws, and the `abort()` that follows has nothing to revert, or
the process dies before the store batch is written. Either way the persisted
trie holds the write and the store has no record of the unit. The trie
persists through `EvmStateDB`, straight to the database and outside the store
transaction, so no order of the two awaits makes them atomic; only a shared
write batch could.

**chain_index_direct.** Reader r reads the list `[h1]` at sequence 1 without a
transaction. Writer w2 then commits its reorg, which removes h1 from the list
and deletes header h1. r's header read for h1 finds nothing, and
`Assert.isNotUndefined` at blockchaindb.ts:229 throws. `getBlockHeadersAtSequence`
takes an optional `tx`, and without one the two awaits see two versions of the
store.

**decode_authentic** fails in one step: contract 2 emits a Shield-layout log,
and `decodeLogs` returns a Shield event for it. The emitter check is commented
out at evm.ts:122-125, and spec section 9 names the gap.

### Why the bounds are enough

- Two accounts (the reserved one and one more) separate "the unit's write"
  from "untouched".
- Two tasks are the smallest number for the interleaving.
- Three or four handler steps cover write, runTx and update followed by
  re-acquire, in every order.
- In `evm_simulate`, two live calls and two simulations give every order of a
  simulation's commit against a live commit at depth one. Two reads let one
  read name a root persisted before a live commit and run after it, with or
  without a live `runTx` in progress.
- In the decoder runs, a receipt of two logs puts an event before and after
  another one. The words 0..5 give both a reserved caller and another one,
  an amount wider than an address, and unrelated layouts of 0-3 words. One of
  these is a 3-word layout that the UnShield shape rejects only because its
  first word is wide.
- In `account_value`, keys of 1 and 2 bytes keep every field at a distinct
  offset. A misread flag or a miscounted field therefore shifts a later
  field and shows. Version 258 has two different bytes, so byte order shows.
  "é" takes two UTF-8 bytes, so a string's byte length differs from its
  length.
- In `chain_index`, w3 rebuilds from whichever head it reads, before or after
  w2's reorg, so both of its outcomes are checked against the stores' other
  references. w2 deletes h1 from each store before it writes h3's
  replacements, so any one of its writes made visible early leaves a
  reference dangling.
- r3 starts with a lookup, so in some orders w2's whole reorg commits between
  its first and second reads. Every lookup method is one step of its chain.
- Also in `chain_index`, w2's reorg adds h3 and then removes h1 at the same
  sequence, so its removal must read its own earlier write; w1's add of h2
  and w2's calls tell commit orders apart. Two readers, calling the list read
  and the main-chain read in both orders, put a read before, between and after
  each writer's commit, and w2 deletes a header a reader may still be about to
  read.
- No two writers in `chain_index` connect the same block, so the throwing
  branch of `addTransaction` is not reached there.
- Every action and every branch (runTx commit and revert, store commit success
  and failure, abort with and without a flag) fires in the passing runs.

### Fairness

- Weak fairness holds for `Load`, because node start runs it.
- Weak fairness holds for each task's steps. A pending async continuation is
  always eventually run by the event loop, and no step of a task is disabled
  by anything other than the store lock.
- Callers run once, so when all have finished the system stops. `Terminated`
  is the explicit stuttering step that marks this.

## 5. Not modelled, and why

- **Trie internals and data.** Node hashing, RLP and the cache are replaced by
  a trie-contents abstraction. Balances, nonces and code are abstracted to
  "which unit wrote this account".
- **EVM opcode semantics and gas.** These are non-goals of the spec. `runTx`
  writes one account, then succeeds or fails nondeterministically.
- **Restoring the root on open.** The code that restores the state root when
  the node opens is outside src. Hazard at blockchaindb.ts:125.
- **`IronfishEvm.load` and `BlockchainDB.stateManager`.** `load` calls
  `blockchainDb.stateManager.initializeState()`, but `BlockchainDB` constructs
  a plain `DefaultStateManager` and not an `IronfishStateManager`. The model
  assumes the method the spec describes.
- **`IronfishEvm.call`.** It calls `vm.evm.runCall` on the live VM. Whether
  that checkpoints and commits on the live StateManager, and so can persist,
  is ethereumjs behaviour that is not in this repository.
- **`IronfishStateManager.open`.** It only builds the trie object; whether
  `Trie.create` restores the persisted root is trie-library behaviour.
- **`getBlockHeaderAtSequence` inside a caller's transaction.** The method
  takes no transaction, so a caller that has just written a new main-chain
  block reads the committed one (hazard blockchaindb.ts:268). No caller of it
  is under src, and nothing says which answer it should give, so no property
  judges it; `chain_index` reaches both reads.
- **CLI, index files and tests.** These have no state of their own. The
  CLI commands are one-shot RPC and console I/O. The tests (the EVM
  verifier, account value encoding, note decryption performance) drive code
  outside src (the consensus verifier, the wallet, the worker pool) and are
  read for the behaviour they expect.
