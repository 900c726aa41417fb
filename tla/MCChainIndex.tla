---------------------------- MODULE MCChainIndex ----------------------------
(***************************************************************************)
(* Genesis h0 is followed on the main chain by h1 at sequence 1; h1 holds *)
(* transaction t1, which created asset a1.  Writer w1 connects a fork     *)
(* block h2 at sequence 1 and records it as the latest block.  Writer w2, *)
(* in one transaction, connects h3 at sequence 1, disconnects h1 from    *)
(* every store and makes h3 (with t3, which now creates a1) the head.     *)
(* Writer w3 rebuilds the main-chain index from the head.  A reader lists *)
(* the headers at sequence 1 and then reads the main-chain header; a     *)
(* second reader makes the same two calls in the other order.  A third   *)
(* looks up transaction t1's block, its header and transactions, asset  *)
(* a1's creating transaction, h0's main-chain child and the main-chain   *)
(* hash at sequence 1.                                                   *)
(***************************************************************************)
EXTENDS ChainIndex

CONSTANTS w1, w2, w3, r, r2, r3, h0, h1, h2, h3, t1, t3, a1

MCProcs == {w1, w2, w3, r, r2, r3}
MCHashes == {h0, h1, h2, h3}
MCSeqs == {1}
MCTxHashes == {t1, t3}
MCAssetIds == {a1}

MCProg ==
    (w1 :> << [op |-> "putBlockHeader", hash |-> h2],
              [op |-> "addTransaction", hash |-> h2],
              [op |-> "addHashAtSequence", seq |-> 1, hash |-> h2],
              [op |-> "putMetaHash", key |-> "latest", hash |-> h2] >>)
    @@ (w2 :> << [op |-> "putBlockHeader", hash |-> h3],
                 [op |-> "putTransaction", hash |-> h3],
                 [op |-> "addHashAtSequence", seq |-> 1, hash |-> h3],
                 [op |-> "deleteTransactionHashToBlockHash", tx |-> t1],
                 [op |-> "deleteAsset", asset |-> a1],
                 [op |-> "deleteNextHash", parent |-> h0],
                 [op |-> "deleteSequenceToHash", seq |-> 1],
                 [op |-> "removeHashAtSequence", seq |-> 1, hash |-> h1],
                 [op |-> "deleteTransaction", hash |-> h1],
                 [op |-> "deleteHeader", hash |-> h1],
                 [op |-> "putNextHash", parent |-> h0, hash |-> h3],
                 [op |-> "putSequenceToHash", seq |-> 1, hash |-> h3],
                 [op |-> "putTransactionHashToBlockHash", tx |-> t3, hash |-> h3],
                 [op |-> "putAsset", asset |-> a1, tx |-> t3],
                 [op |-> "putMetaHash", key |-> "head", hash |-> h3],
                 [op |-> "putMetaHash", key |-> "latest", hash |-> h3] >>)
    @@ (w3 :> << [op |-> "getMetaHash", key |-> "head"],
                 [op |-> "clearSequenceToHash"],
                 [op |-> "clearHashToNextHash"],
                 [op |-> "putSequenceToHash", seq |-> 1],
                 [op |-> "putNextHash", parent |-> h0] >>)
    @@ (r :> << [op |-> "getBlockHeadersAtSequence", seq |-> 1],
                [op |-> "getBlockHeaderAtSequence", seq |-> 1] >>)
    @@ (r2 :> << [op |-> "getBlockHeaderAtSequence", seq |-> 1],
                 [op |-> "getBlockHeadersAtSequence", seq |-> 1] >>)
    @@ (r3 :> << [op |-> "getBlockHashByTransactionHash", tx |-> t1],
                 [op |-> "getBlockHeader"],
                 [op |-> "getTransactions"],
                 [op |-> "getAsset", asset |-> a1],
                 [op |-> "transactionHashHasBlock"],
                 [op |-> "getNextHash", hash |-> h0],
                 [op |-> "getBlockHeader"],
                 [op |-> "getBlockHashAtSequence", seq |-> 1] >>)

\* Every process inside a transaction.
MCUseTxAll == [p \in MCProcs |-> TRUE]

\* The readers pass no transaction.
MCUseTxWriters == [p \in MCProcs |-> p \notin {r, r2}]

MCInitDb ==
    [k \in Keys |->
        CASE k \in {HeaderKey(h0), HeaderKey(h1), TxsKey(h0), TxsKey(h1)} -> k[2]
          [] k = HashesKey(1) -> <<h1>>
          [] k \in {HashKey(1), NextKey(h0), MetaKey("head"), MetaKey("latest"),
                    TxHashKey(t1)} -> h1
          [] k = AssetKey(a1) -> t1
          [] OTHER -> Absent]
=============================================================================
