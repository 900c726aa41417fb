\* One caller that keeps writing after update() without acquireLock().
CONSTANTS
    t1 = t1
    t2 = t2
    a1 = a1
    g = g
    Tasks <- MCTasksOne
    Accts <- MCAccts
    GLOBAL_CONTRACT_ADDRESS = g
    NoAccount = NoAccount
    NoTask = NoTask
    GenesisAccount = GenesisAccount
    MaxHandlerSteps = 4
    StoreCommitMayFail = FALSE
    UnprotectedWrites = TRUE
SPECIFICATION Spec
INVARIANT TrieMatchesCommittedUnits
