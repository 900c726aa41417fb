\* The readers list the headers at a sequence without a transaction.
CONSTANTS
    w1 = w1
    w2 = w2
    w3 = w3
    r = r
    r2 = r2
    r3 = r3
    h0 = h0
    h1 = h1
    h2 = h2
    h3 = h3
    t1 = t1
    t3 = t3
    a1 = a1
    Absent = Absent
    NoWrite = NoWrite
    NoProc = NoProc
    Procs <- MCProcs
    Prog <- MCProg
    UseTx <- MCUseTxWriters
    Hashes <- MCHashes
    Seqs <- MCSeqs
    TxHashes <- MCTxHashes
    AssetIds <- MCAssetIds
    InitDb <- MCInitDb
SPECIFICATION Spec
INVARIANT HeadersAtSequenceFound
