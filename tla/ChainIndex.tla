----------------------------- MODULE ChainIndex -----------------------------
(***************************************************************************)
(* The eight stores of BlockchainDB (blockchaindb.ts), which refer to    *)
(* one another by block hash: headers, transactions (a block's           *)
(* transaction list), sequenceToHashes (every block hash at a height),   *)
(* sequenceToHash (the main-chain hash at a height), hashToNextHash (the *)
(* main-chain link to a block's child), meta (the head and latest        *)
(* hashes), assets and transactionHashToBlockHash.                       *)
(*                                                                         *)
(* Each process makes a fixed list of BlockchainDB calls, one action per  *)
(* await.  A process with a transaction passes it to every call (a        *)
(* BlockchainDBTransaction, whose get/put/del hand the key to the store   *)
(* transaction) and commits it after its last call; one without passes   *)
(* none.  The store (storage/, not in src) is modelled from the spec: a  *)
(* transaction takes the store lock at its first access, sees its own    *)
(* writes, and writes them all on commit; add throws when the key is     *)
(* present.                                                               *)
(*                                                                         *)
(* A header and a block's transaction list are abstracted to the block   *)
(* hash they are stored under, an asset to the transaction that created *)
(* it.                                                                    *)
(***************************************************************************)
EXTENDS Naturals, Sequences, SequencesExt

CONSTANTS
    Procs,
    Prog,       \* Prog[p]: the calls p makes, in order
    UseTx,      \* UseTx[p]: p makes them inside a store transaction
    Hashes,
    Seqs,
    TxHashes,   \* transaction hashes
    AssetIds,
    InitDb,     \* the committed stores at the start
    Absent,     \* no value under the key
    NoWrite,    \* a transaction that has not written the key
    NoProc

HeaderKey(h) == <<"headers", h>>
HashesKey(s) == <<"sequenceToHashes", s>>
HashKey(s)   == <<"sequenceToHash", s>>
MetaKey(m)   == <<"meta", m>>
TxsKey(h)    == <<"transactions", h>>
NextKey(h)   == <<"hashToNextHash", h>>
AssetKey(a)  == <<"assets", a>>
TxHashKey(t) == <<"transactionHashToBlockHash", t>>

MetaFields == {"head", "latest"}

\* The keys of each store, by the store's name in BlockchainDB.
StoreKeys ==
    [headers |-> {HeaderKey(h) : h \in Hashes},
     meta |-> {MetaKey(m) : m \in MetaFields},
     transactions |-> {TxsKey(h) : h \in Hashes},
     sequenceToHashes |-> {HashesKey(s) : s \in Seqs},
     sequenceToHash |-> {HashKey(s) : s \in Seqs},
     hashToNextHash |-> {NextKey(h) : h \in Hashes},
     assets |-> {AssetKey(a) : a \in AssetIds},
     transactionHashToBlockHash |-> {TxHashKey(t) : t \in TxHashes}]

Keys == UNION {StoreKeys[st] : st \in DOMAIN StoreKeys}

VARIABLES
    db,         \* committed value of every key, or Absent
    lock,       \* process whose transaction holds the store lock
    cache,      \* per process: its transaction's write to each key
    pc,         \* per process: index of its current call
    phase,      \* per process: how far the current call has got
    local,      \* per process: the list or hash the call has read
    waiting,    \* per process: hashes whose header read is outstanding
    reads,      \* (ghost) per process: <<key, value>> its transaction read
                \* from the store, not from its own writes
    snapshots   \* (ghost) every state of the committed store so far

vars == <<db, lock, cache, pc, phase, local, waiting, reads, snapshots>>

Phases == {"call", "write", "headers", "header", "commit", "done", "threw"}

TypeOK ==
    /\ lock \in Procs \cup {NoProc}
    /\ pc \in [Procs -> Nat]
    /\ phase \in [Procs -> Phases]
    /\ waiting \in [Procs -> SUBSET Hashes]

Init ==
    /\ db = InitDb
    /\ lock = NoProc
    /\ cache = [p \in Procs |-> [k \in Keys |-> NoWrite]]
    /\ pc = [p \in Procs |-> 1]
    /\ phase = [p \in Procs |-> IF Prog[p] = <<>> THEN "done" ELSE "call"]
    /\ local = [p \in Procs |-> <<>>]
    /\ waiting = [p \in Procs |-> {}]
    /\ reads = [p \in Procs |-> {}]
    /\ snapshots = {InitDb}

Cur(p) == Prog[p][pc[p]]

-----------------------------------------------------------------------------
(***************************************************************************)
(* A store access with the caller's optional tx.  With one, the access    *)
(* goes through BlockchainDBTransaction.get/put/del to the store         *)
(* transaction: it takes the lock and reads through the write cache.      *)
(* Without one, it reads or writes the committed store directly.          *)
(***************************************************************************)
TxAccess(p) ==
    IF UseTx[p] THEN lock \in {NoProc, p} /\ lock' = p ELSE UNCHANGED lock

(* A write of several keys (f maps each to its value), made in one store   *)
(* call.                                                                  *)
PutAll(p, f) ==
    IF UseTx[p]
    THEN cache' = [cache EXCEPT ![p] = f @@ @] /\ UNCHANGED db
    ELSE db' = f @@ db /\ UNCHANGED cache

Get(p, k) ==
    IF UseTx[p] /\ cache[p][k] # NoWrite THEN cache[p][k] ELSE db[k]

Put(p, k, v) == PutAll(p, k :> v)

\* (ghost) Record what a read of key k through p's transaction saw in the
\* store, unless p's own write answered it.
Observe(p, k) ==
    reads' = [reads EXCEPT ![p] =
                IF UseTx[p] /\ cache[p][k] = NoWrite THEN @ \cup {<<k, db[k]>>}
                ELSE @]

\* A call throws: withTransaction aborts the caller's transaction.
Throw(p) ==
    /\ phase' = [phase EXCEPT ![p] = "threw"]
    /\ cache' = [cache EXCEPT ![p] = [k \in Keys |-> NoWrite]]
    /\ lock' = IF UseTx[p] THEN NoProc ELSE lock

\* The call returns; after the last call a transaction is committed.
Return(p) ==
    /\ pc' = [pc EXCEPT ![p] = @ + 1]
    /\ phase' = [phase EXCEPT ![p] =
                   IF pc[p] < Len(Prog[p]) THEN "call"
                   ELSE IF UseTx[p] THEN "commit" ELSE "done"]

\* getBlockHashesAtSequence: a missing list reads as [].
HashesOf(v) == IF v = Absent THEN <<>> ELSE v

-----------------------------------------------------------------------------
(***************************************************************************)
(* The pass-through methods: one put or del of one store.  A call's hash  *)
(* is given in the call or, when the call leaves it out, is what the     *)
(* process's previous call returned.                                      *)
(***************************************************************************)
\* A call's argument, or the previous call's result when the call omits it.
Arg(p, field) == IF field \in DOMAIN Cur(p) THEN Cur(p)[field] ELSE local[p]

CallHash(p) == Arg(p, "hash")

SingleWrite(p, op, k, v) ==
    /\ phase[p] = "call"
    /\ Cur(p).op = op
    /\ TxAccess(p)
    /\ Put(p, k, v)
    /\ Return(p)
    /\ UNCHANGED <<local, waiting, reads, snapshots>>

putBlockHeader(p) ==
    SingleWrite(p, "putBlockHeader", HeaderKey(Cur(p).hash), Cur(p).hash)
putMetaHash(p) ==
    SingleWrite(p, "putMetaHash", MetaKey(Cur(p).key), CallHash(p))
putTransaction(p) ==
    SingleWrite(p, "putTransaction", TxsKey(Cur(p).hash), Cur(p).hash)
deleteTransaction(p) ==
    SingleWrite(p, "deleteTransaction", TxsKey(Cur(p).hash), Absent)
putSequenceToHash(p) ==
    SingleWrite(p, "putSequenceToHash", HashKey(Cur(p).seq), CallHash(p))
deleteSequenceToHash(p) ==
    SingleWrite(p, "deleteSequenceToHash", HashKey(Cur(p).seq), Absent)
putNextHash(p) ==
    SingleWrite(p, "putNextHash", NextKey(Cur(p).parent), CallHash(p))
deleteNextHash(p) ==
    SingleWrite(p, "deleteNextHash", NextKey(Cur(p).parent), Absent)
putAsset(p) ==
    SingleWrite(p, "putAsset", AssetKey(Cur(p).asset), Cur(p).tx)
deleteAsset(p) ==
    SingleWrite(p, "deleteAsset", AssetKey(Cur(p).asset), Absent)
putTransactionHashToBlockHash(p) ==
    SingleWrite(p, "putTransactionHashToBlockHash", TxHashKey(Cur(p).tx),
                Cur(p).hash)
deleteTransactionHashToBlockHash(p) ==
    SingleWrite(p, "deleteTransactionHashToBlockHash", TxHashKey(Cur(p).tx),
                Absent)

\* Mutant: deleteHeader does not pass its tx on to headers.del.
deleteHeaderNoTx(p) ==
    /\ phase[p] = "call"
    /\ Cur(p).op = "deleteHeader"
    /\ db' = [db EXCEPT ![HeaderKey(Cur(p).hash)] = Absent]
    /\ Return(p)
    /\ UNCHANGED <<lock, cache, local, waiting, reads, snapshots>>

deleteHeader(p) ==
    SingleWrite(p, "deleteHeader", HeaderKey(Cur(p).hash), Absent)

\* addTransaction: transactions.add, which throws when the block already
\* has a transaction list.
addTransaction(p) ==
    LET k == TxsKey(Cur(p).hash) IN
    /\ phase[p] = "call"
    /\ Cur(p).op = "addTransaction"
    /\ TxAccess(p)
    /\ IF Get(p, k) # Absent
         THEN Throw(p) /\ UNCHANGED <<db, pc>>
         ELSE Put(p, k, Cur(p).hash) /\ Return(p)
    /\ Observe(p, k)
    /\ UNCHANGED <<local, waiting, snapshots>>

\* clearSequenceToHash / clearHashToNextHash: delete every key of the store.
Clear(p, op, st) ==
    /\ phase[p] = "call"
    /\ Cur(p).op = op
    /\ TxAccess(p)
    /\ PutAll(p, [k \in StoreKeys[st] |-> Absent])
    /\ Return(p)
    /\ UNCHANGED <<local, waiting, reads, snapshots>>

clearSequenceToHash(p) == Clear(p, "clearSequenceToHash", "sequenceToHash")
clearHashToNextHash(p) == Clear(p, "clearHashToNextHash", "hashToNextHash")

(***************************************************************************)
(* The get and has pass-throughs.  A call's argument is given or, when   *)
(* left out, is what the process's previous call returned; a reader      *)
(* follows a reference only when it found one.  has answers whether the  *)
(* key is present, and the reader stops following when it is not.        *)
(***************************************************************************)
Lookup(p, op, field, st, isHas) ==
    LET arg == Arg(p, field)
        k == <<st, arg>>
    IN
    /\ phase[p] = "call"
    /\ Cur(p).op = op
    /\ IF arg = Absent
         THEN UNCHANGED <<lock, local, reads>>
         ELSE /\ TxAccess(p)
              /\ local' = [local EXCEPT ![p] =
                             IF ~isHas THEN Get(p, k)
                             ELSE IF Get(p, k) = Absent THEN Absent ELSE @]
              /\ Observe(p, k)
    /\ Return(p)
    /\ UNCHANGED <<db, cache, waiting, snapshots>>

getMetaHash(p) == Lookup(p, "getMetaHash", "key", "meta", FALSE)
getBlockHeaderByHash(p) == Lookup(p, "getBlockHeader", "hash", "headers", FALSE)
getTransactions(p) == Lookup(p, "getTransactions", "hash", "transactions", FALSE)
getBlockHashAtSequence(p) ==
    Lookup(p, "getBlockHashAtSequence", "seq", "sequenceToHash", FALSE)
getNextHash(p) == Lookup(p, "getNextHash", "hash", "hashToNextHash", FALSE)
getAsset(p) == Lookup(p, "getAsset", "asset", "assets", FALSE)
\* Mutant: getBlockHashByTransactionHash does not pass its tx on.
getBlockHashByTransactionHashNoTx(p) ==
    LET arg == Arg(p, "tx") IN
    /\ phase[p] = "call"
    /\ Cur(p).op = "getBlockHashByTransactionHash"
    /\ IF arg = Absent THEN UNCHANGED <<local, reads>>
       ELSE /\ local' = [local EXCEPT ![p] = db[TxHashKey(arg)]]
            /\ Observe(p, TxHashKey(arg))
    /\ Return(p)
    /\ UNCHANGED <<db, lock, cache, waiting, snapshots>>

getBlockHashByTransactionHash(p) ==
    Lookup(p, "getBlockHashByTransactionHash", "tx", "transactionHashToBlockHash", FALSE)
transactionHashHasBlock(p) ==
    Lookup(p, "transactionHashHasBlock", "tx", "transactionHashToBlockHash", TRUE)

\* Mutant: the list is read without the caller's transaction.
ReadHashesWithoutTx(p) ==
    /\ phase[p] = "call"
    /\ Cur(p).op \in {"addHashAtSequence", "removeHashAtSequence"}
    /\ local' = [local EXCEPT ![p] = HashesOf(db[HashesKey(Cur(p).seq)])]
    /\ phase' = [phase EXCEPT ![p] = "write"]
    /\ UNCHANGED <<db, lock, cache, pc, waiting, reads, snapshots>>

\* addHashAtSequence / removeHashAtSequence, first await: read the list.
ReadHashes(p) ==
    /\ phase[p] = "call"
    /\ Cur(p).op \in {"addHashAtSequence", "removeHashAtSequence"}
    /\ TxAccess(p)
    /\ local' = [local EXCEPT ![p] = HashesOf(Get(p, HashesKey(Cur(p).seq)))]
    /\ phase' = [phase EXCEPT ![p] = "write"]
    /\ Observe(p, HashesKey(Cur(p).seq))
    /\ UNCHANGED <<db, cache, pc, waiting, snapshots>>

\* addHashAtSequence: put the list read, extended by the hash.
addHashAtSequence(p) ==
    /\ phase[p] = "write"
    /\ Cur(p).op = "addHashAtSequence"
    /\ TxAccess(p)
    /\ Put(p, HashesKey(Cur(p).seq), Append(local[p], Cur(p).hash))
    /\ Return(p)
    /\ UNCHANGED <<local, waiting, reads, snapshots>>

\* removeHashAtSequence: del the key when no hash is left, else put the rest.
removeHashAtSequence(p) ==
    LET rest == SelectSeq(local[p], LAMBDA h : h # Cur(p).hash) IN
    /\ phase[p] = "write"
    /\ Cur(p).op = "removeHashAtSequence"
    /\ TxAccess(p)
    /\ Put(p, HashesKey(Cur(p).seq), IF rest = <<>> THEN Absent ELSE rest)
    /\ Return(p)
    /\ UNCHANGED <<local, waiting, reads, snapshots>>

-----------------------------------------------------------------------------
\* Mutant: the list is read without the caller's transaction.
getBlockHeadersAtSequenceNoTx(p) ==
    LET hashes == HashesOf(db[HashesKey(Cur(p).seq)]) IN
    /\ phase[p] = "call"
    /\ Cur(p).op = "getBlockHeadersAtSequence"
    /\ waiting' = [waiting EXCEPT ![p] = ToSet(hashes)]
    /\ IF hashes = <<>> THEN Return(p)
       ELSE phase' = [phase EXCEPT ![p] = "headers"] /\ UNCHANGED pc
    /\ UNCHANGED <<db, lock, cache, local, reads, snapshots>>

(***************************************************************************)
(* getBlockHeadersAtSequence, first await: read the list; an empty one    *)
(* returns [].  Otherwise Promise.all starts getBlockHeader(h, tx) for    *)
(* every hash at once, and the reads resolve in any order.                *)
(***************************************************************************)
getBlockHeadersAtSequence(p) ==
    LET hashes == HashesOf(Get(p, HashesKey(Cur(p).seq))) IN
    /\ phase[p] = "call"
    /\ Cur(p).op = "getBlockHeadersAtSequence"
    /\ TxAccess(p)
    /\ waiting' = [waiting EXCEPT ![p] = ToSet(hashes)]
    /\ IF hashes = <<>> THEN Return(p)
       ELSE phase' = [phase EXCEPT ![p] = "headers"] /\ UNCHANGED pc
    /\ Observe(p, HashesKey(Cur(p).seq))
    /\ UNCHANGED <<db, cache, local, snapshots>>

(***************************************************************************)
(* One getBlockHeader(h, tx) of the Promise.all resolves.  A missing      *)
(* header fails Assert.isNotUndefined: the call throws, and a caller in  *)
(* withTransaction aborts its transaction (cache dropped, lock released). *)
(* The call returns when the last read resolves.                          *)
(***************************************************************************)
getBlockHeader(p, h) ==
    /\ phase[p] = "headers"
    /\ h \in waiting[p]
    /\ UseTx[p] => lock \in {NoProc, p}
    /\ IF Get(p, HeaderKey(h)) = Absent
         THEN Throw(p) /\ UNCHANGED <<pc, waiting>>
         ELSE /\ TxAccess(p)
              /\ waiting' = [waiting EXCEPT ![p] = @ \ {h}]
              /\ IF waiting[p] = {h} THEN Return(p)
                 ELSE UNCHANGED <<pc, phase>>
              /\ UNCHANGED cache
    /\ Observe(p, HeaderKey(h))
    /\ UNCHANGED <<db, local, snapshots>>

(***************************************************************************)
(* getBlockHeaderAtSequence takes no transaction: it reads the committed  *)
(* main-chain hash, returns undefined when there is none, and else reads  *)
(* that hash's header, again outside any transaction.                     *)
(***************************************************************************)
getBlockHeaderAtSequence(p) ==
    LET hash == db[HashKey(Cur(p).seq)] IN
    /\ phase[p] = "call"
    /\ Cur(p).op = "getBlockHeaderAtSequence"
    /\ IF hash = Absent THEN Return(p)
       ELSE phase' = [phase EXCEPT ![p] = "header"] /\ UNCHANGED pc
    /\ local' = [local EXCEPT ![p] = hash]
    /\ UNCHANGED <<db, lock, cache, waiting, reads, snapshots>>

\* Its second await, this.getBlockHeader(hash), again with no transaction:
\* the committed header, or undefined when it is gone by then.
getBlockHeaderAtSequenceHeader(p) ==
    /\ phase[p] = "header"
    /\ local' = [local EXCEPT ![p] = db[HeaderKey(@)]]
    /\ Return(p)
    /\ UNCHANGED <<db, lock, cache, waiting, reads, snapshots>>

\* The caller commits its transaction after its last call.
Commit(p) ==
    /\ phase[p] = "commit"
    /\ db' = [k \in Keys |-> IF cache[p][k] # NoWrite THEN cache[p][k] ELSE db[k]]
    /\ lock' = IF lock = p THEN NoProc ELSE lock
    /\ phase' = [phase EXCEPT ![p] = "done"]
    /\ snapshots' = snapshots \cup {db'}
    /\ UNCHANGED <<cache, pc, local, waiting, reads>>

-----------------------------------------------------------------------------
ProcNext(p) ==
    \/ putBlockHeader(p) \/ deleteHeader(p)
    \/ putMetaHash(p) \/ getMetaHash(p)
    \/ getBlockHeaderByHash(p) \/ getTransactions(p) \/ getBlockHashAtSequence(p)
    \/ getNextHash(p) \/ getAsset(p) \/ getBlockHashByTransactionHash(p)
    \/ transactionHashHasBlock(p)
    \/ putTransaction(p) \/ addTransaction(p) \/ deleteTransaction(p)
    \/ putSequenceToHash(p) \/ deleteSequenceToHash(p) \/ clearSequenceToHash(p)
    \/ putNextHash(p) \/ deleteNextHash(p) \/ clearHashToNextHash(p)
    \/ putAsset(p) \/ deleteAsset(p)
    \/ putTransactionHashToBlockHash(p) \/ deleteTransactionHashToBlockHash(p)
    \/ ReadHashes(p) \/ addHashAtSequence(p) \/ removeHashAtSequence(p)
    \/ getBlockHeadersAtSequence(p) \/ \E h \in Hashes : getBlockHeader(p, h)
    \/ getBlockHeaderAtSequence(p) \/ getBlockHeaderAtSequenceHeader(p)
    \/ Commit(p)

Terminated == (\A p \in Procs : phase[p] \in {"done", "threw"}) /\ UNCHANGED vars

Next == (\E p \in Procs : ProcNext(p)) \/ Terminated

Spec == Init /\ [][Next]_vars

-----------------------------------------------------------------------------
(***************************************************************************)
(* getBlockHeadersAtSequence never fails its Assert.isNotUndefined: each  *)
(* hash it finds at the sequence still has its header when the parallel  *)
(* header read for it resolves, while other callers add and remove        *)
(* blocks (header and index entry together in one transaction).           *)
(***************************************************************************)
HeadersAtSequenceFound ==
    \A p \in Procs :
        phase[p] = "threw" => Cur(p).op # "getBlockHeadersAtSequence"

Serial == INSTANCE SerialChainStore
              WITH store <- db,
                   finished <- {p \in Procs : phase[p] \in {"done", "threw"}}

(***************************************************************************)
(* The callers' transactions are serializable: ChainIndex implements      *)
(* SerialChainStore, in which each caller's whole program takes effect   *)
(* in one step when it commits, run alone on the store as it is then,     *)
(* and a caller that throws changes nothing.  Each call in ChainIndex is *)
(* one or more awaits with other callers' steps in between, and the       *)
(* read-then-write calls (addHashAtSequence, removeHashAtSequence) and   *)
(* the writes that follow a read (putSequenceToHash of the head) depend  *)
(* on what was read.                                                      *)
(***************************************************************************)
RefinesSerialStore == Serial!Spec

\* The block hashes the committed stores refer to: the hash lists, the
\* main-chain hashes, both ends of every next-hash link, head and latest,
\* and the block of every indexed transaction.
Referenced ==
    (UNION {ToSet(HashesOf(db[k])) : k \in StoreKeys.sequenceToHashes}
      \cup {db[k] : k \in StoreKeys.sequenceToHash \cup StoreKeys.meta
                        \cup StoreKeys.hashToNextHash
                        \cup StoreKeys.transactionHashToBlockHash}
      \cup {h \in Hashes : db[NextKey(h)] # Absent}) \ {Absent}

(***************************************************************************)
(* The committed stores never dangle: every block hash one store refers   *)
(* to has its header and its transaction list, and every asset's         *)
(* creating transaction is indexed, at every moment, while writers       *)
(* connect, disconnect and re-index blocks with a dozen separate put and *)
(* del calls that each pass the caller's transaction on to the store.    *)
(***************************************************************************)
StoresConsistent ==
    /\ \A h \in Referenced : db[HeaderKey(h)] # Absent /\ db[TxsKey(h)] # Absent
    /\ \A k \in StoreKeys.assets : db[k] # Absent => db[TxHashKey(db[k])] # Absent

(***************************************************************************)
(* A transaction reads one snapshot: everything a process read through   *)
(* its transaction, apart from its own writes, is the committed store as *)
(* it stood at one moment, although its reads are separate awaits and    *)
(* other processes commit in between.  It rests on every BlockchainDB   *)
(* method handing its tx to the store and on the store lock being held   *)
(* from a transaction's first access to its commit.                      *)
(***************************************************************************)
ReadsFromOneSnapshot ==
    \A p \in Procs :
        UseTx[p] => \E snap \in snapshots : \A kv \in reads[p] : snap[kv[1]] = kv[2]
=============================================================================
