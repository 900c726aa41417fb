\* One caller; tx.commit() may throw, and the process may crash at any
\* await, including between the two halves of commit() or update().
CONSTANTS
    t1 = t1
    t2 = t2
    a1 = a1
    g = g
    Tasks <- MCTasksOne
    Accts <- MCAccts
    GLOBAL_CONTRACT_ADDRESS = g
    NoAccount = NoAccount
    NoTask = NoTask
    GenesisAccount = GenesisAccount
    MaxHandlerSteps = 4
    StoreCommitMayFail = TRUE
    UnprotectedWrites = FALSE
SPECIFICATION SpecWithCrash
INVARIANT TrieMatchesCommittedUnits
