\* One caller of withTransaction: nested runTx, update() and re-acquire,
\* commit and abort.
CONSTANTS
    t1 = t1
    t2 = t2
    a1 = a1
    g = g
    Tasks <- MCTasksOne
    Accts <- MCAccts
    GLOBAL_CONTRACT_ADDRESS = g
    NoAccount = NoAccount
    NoTask = NoTask
    GenesisAccount = GenesisAccount
    MaxHandlerSteps = 4
    StoreCommitMayFail = FALSE
    UnprotectedWrites = FALSE
SPECIFICATION Spec
INVARIANT TypeOK
INVARIANT TrieMatchesCommittedUnits
INVARIANT LayersAccounted
PROPERTIES EveryCallFinishes RefinesAtomicUnits
