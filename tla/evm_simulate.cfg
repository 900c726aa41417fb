\* Live runTx calls interleaved with simulateTx calls on copies of the VM
\* and with getAccount/eth_getCode reads through withStateRoot views.
CONSTANTS
    a1 = a1
    g = g
    Accts <- MCAccts
    GLOBAL_CONTRACT_ADDRESS = g
    NoAccount = NoAccount
    GenesisAccount = GenesisAccount
    LiveVal = LiveVal
    SimVal = SimVal
    NoRoot = NoRoot
    MaxLiveTx = 2
    MaxSims = 2
    MaxReads = 2
SPECIFICATION Spec
INVARIANT SimulationNeverPersists
