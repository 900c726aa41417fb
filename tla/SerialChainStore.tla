-------------------------- MODULE SerialChainStore --------------------------
(***************************************************************************)
(* What BlockchainDB's stores promise a caller that passes one store      *)
(* transaction to all its calls (blockchaindb.ts): the calls take effect *)
(* as if the caller ran alone, all at once.  Each process's whole program *)
(* is one step, Run, applied to the store as it is at that moment; if a   *)
(* call of it throws when run that way, the step is Fail and leaves the   *)
(* store unchanged (withTransaction aborts).                              *)
(*                                                                         *)
(* Keys are <<store name, key>>; calls are the records ChainIndex runs.  *)
(***************************************************************************)
EXTENDS Sequences, SequencesExt

CONSTANTS Procs, Prog, Keys, InitDb, Absent

VARIABLES
    store,      \* the committed value of every key
    finished    \* processes whose program has taken effect or failed

HashesOf(v) == IF v = Absent THEN <<>> ELSE v

\* A call's argument, or the previous call's result when the call omits it.
Arg(c, local, field) == IF field \in DOMAIN c THEN c[field] ELSE local

PutOps == {"putBlockHeader", "putMetaHash", "putTransaction", "putSequenceToHash",
           "putNextHash", "putAsset", "putTransactionHashToBlockHash"}
DelOps == {"deleteHeader", "deleteTransaction", "deleteSequenceToHash",
           "deleteNextHash", "deleteAsset", "deleteTransactionHashToBlockHash"}
GetOps == {"getMetaHash", "getBlockHeader", "getTransactions",
           "getBlockHashAtSequence", "getNextHash", "getAsset",
           "getBlockHashByTransactionHash", "transactionHashHasBlock"}
ClearOps == [clearSequenceToHash |-> "sequenceToHash",
             clearHashToNextHash |-> "hashToNextHash"]

\* The key a call reads or writes: the store its method uses, and its key.
CallKey(c, local) ==
    CASE c.op \in {"putBlockHeader", "deleteHeader", "getBlockHeader"} ->
            <<"headers", Arg(c, local, "hash")>>
      [] c.op \in {"putTransaction", "addTransaction", "deleteTransaction",
                   "getTransactions"} -> <<"transactions", Arg(c, local, "hash")>>
      [] c.op \in {"putMetaHash", "getMetaHash"} -> <<"meta", c.key>>
      [] c.op \in {"putSequenceToHash", "deleteSequenceToHash",
                   "getBlockHashAtSequence", "getBlockHeaderAtSequence"} ->
            <<"sequenceToHash", c.seq>>
      [] c.op \in {"addHashAtSequence", "removeHashAtSequence",
                   "getBlockHeadersAtSequence"} -> <<"sequenceToHashes", c.seq>>
      [] c.op \in {"putNextHash", "deleteNextHash"} -> <<"hashToNextHash", c.parent>>
      [] c.op = "getNextHash" -> <<"hashToNextHash", Arg(c, local, "hash")>>
      [] c.op \in {"putAsset", "deleteAsset", "getAsset"} -> <<"assets", c.asset>>
      [] OTHER -> <<"transactionHashToBlockHash", Arg(c, local, "tx")>>

\* A lookup is made: its argument is given, or the previous call found one.
Follows(c, local) == DOMAIN c # {"op"} \/ local # Absent

\* The value a put writes.
PutValue(c, local) ==
    CASE c.op = "putAsset" -> c.tx
      [] c.op \in {"putMetaHash", "putSequenceToHash", "putNextHash"} ->
            Arg(c, local, "hash")
      [] OTHER -> c.hash

(***************************************************************************)
(* One call run alone on s = [db, local, threw]: local is what the call   *)
(* returns to the next one, threw that a call has thrown (the rest do not *)
(* run).                                                                  *)
(***************************************************************************)
Step(s, c) ==
    LET k == CallKey(c, s.local)
        list == HashesOf(s.db[k])
        rest == SelectSeq(list, LAMBDA h : h # c.hash)
    IN
    CASE s.threw -> s
      [] c.op \in PutOps -> [s EXCEPT !.db[k] = PutValue(c, s.local)]
      [] c.op \in DelOps -> [s EXCEPT !.db[k] = Absent]
      [] c.op \in DOMAIN ClearOps ->
            [s EXCEPT !.db = [kk \in Keys |-> IF kk[1] = ClearOps[c.op] THEN Absent
                                              ELSE s.db[kk]]]
      [] c.op = "addTransaction" ->
            IF s.db[k] # Absent THEN [s EXCEPT !.threw = TRUE]
            ELSE [s EXCEPT !.db[k] = c.hash]
      [] c.op = "addHashAtSequence" -> [s EXCEPT !.db[k] = Append(list, c.hash)]
      [] c.op = "removeHashAtSequence" ->
            [s EXCEPT !.db[k] = IF rest = <<>> THEN Absent ELSE rest]
      [] c.op = "getBlockHeadersAtSequence" ->
            [s EXCEPT !.threw = \E h \in ToSet(list) : s.db[<<"headers", h>>] = Absent]
      [] c.op = "getBlockHeaderAtSequence" ->
            [s EXCEPT !.local = IF s.db[k] = Absent THEN Absent
                                ELSE s.db[<<"headers", s.db[k]>>]]
      [] c.op = "transactionHashHasBlock" /\ Follows(c, s.local) ->
            IF s.db[k] = Absent THEN [s EXCEPT !.local = Absent] ELSE s
      [] c.op \in GetOps /\ Follows(c, s.local) ->
            [s EXCEPT !.local = s.db[k]]
      [] OTHER -> s

\* A process's program run alone on db.
Effect(p, db) ==
    FoldLeft(Step, [db |-> db, local |-> <<>>, threw |-> FALSE], Prog[p])

Init ==
    /\ store = InitDb
    /\ finished = {p \in Procs : Prog[p] = <<>>}

Run(p) ==
    /\ p \notin finished
    /\ ~Effect(p, store).threw
    /\ store' = Effect(p, store).db
    /\ finished' = finished \cup {p}

Fail(p) ==
    /\ p \notin finished
    /\ Effect(p, store).threw
    /\ finished' = finished \cup {p}
    /\ UNCHANGED store

Next == \E p \in Procs : Run(p) \/ Fail(p)

Spec == Init /\ [][Next]_<<store, finished>>
=============================================================================
