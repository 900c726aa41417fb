\* Two concurrent callers of withTransaction on the shared StateManager.
CONSTANTS
    t1 = t1
    t2 = t2
    a1 = a1
    g = g
    Tasks <- MCTasksTwo
    Accts <- MCAccts
    GLOBAL_CONTRACT_ADDRESS = g
    NoAccount = NoAccount
    NoTask = NoTask
    GenesisAccount = GenesisAccount
    MaxHandlerSteps = 2
    StoreCommitMayFail = FALSE
    UnprotectedWrites = FALSE
SPECIFICATION Spec
INVARIANT TrieMatchesCommittedUnits
