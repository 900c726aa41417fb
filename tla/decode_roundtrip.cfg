\* decodeLogs recovers every Shield/UnShield a receipt carries and drops
\* unrelated events, whoever emits them.
CONSTANTS
    GLOBAL_CONTRACT_ADDRESS = 3
    Emitters <- MCEmittersAll
    Callers <- MCCallers
    TokenIds = {1}
    Amounts <- MCAmounts
    IronfishAddrs <- MCIronfishAddrs
    OtherData <- MCOtherData
    AddrMax = 4
    MaxLogs = 2
SPECIFICATION Spec
INVARIANT DecodeRoundTrip
