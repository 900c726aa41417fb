\* A log of another contract shaped like a Shield is decoded as one.
CONSTANTS
    GLOBAL_CONTRACT_ADDRESS = 3
    Emitters <- MCEmittersAll
    Callers <- MCCallers
    TokenIds = {1}
    Amounts <- MCAmounts
    IronfishAddrs <- MCIronfishAddrs
    OtherData <- MCOtherData
    AddrMax = 4
    MaxLogs = 2
SPECIFICATION Spec
INVARIANT EventsAuthentic
