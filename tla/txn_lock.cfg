\* Two concurrent callers with failing store commits: every call finishes,
\* releasing the store lock.
CONSTANTS
    t1 = t1
    t2 = t2
    a1 = a1
    g = g
    Tasks <- MCTasksTwo
    Accts <- MCAccts
    GLOBAL_CONTRACT_ADDRESS = g
    NoAccount = NoAccount
    NoTask = NoTask
    GenesisAccount = GenesisAccount
    MaxHandlerSteps = 3
    StoreCommitMayFail = TRUE
    UnprotectedWrites = FALSE
SPECIFICATION Spec
PROPERTY EveryCallFinishes
