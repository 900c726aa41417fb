\* abort() whose stateManager.revert() throws never reaches tx.abort(): the
\* store lock stays held after withTransaction has rethrown.
CONSTANTS
    t1 = t1
    t2 = t2
    a1 = a1
    g = g
    Tasks <- MCTasksOne
    Accts <- MCAccts
    GLOBAL_CONTRACT_ADDRESS = g
    NoAccount = NoAccount
    NoTask = NoTask
    GenesisAccount = GenesisAccount
    MaxHandlerSteps = 2
    StoreCommitMayFail = FALSE
    UnprotectedWrites = FALSE
SPECIFICATION SpecRevertMayFail
PROPERTY EveryCallFinishes
