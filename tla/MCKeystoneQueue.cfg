SPECIFICATION KeystoneSpec
CONSTANTS
    zero = zero  x = x  y = y  u = u
    Datum <- MCDatum
    Zero = zero
    Uninit = u
    Uri <- MCUri
    PostData <- MCPostData
    Command <- MCCommand
    ClientOp <- MCClientOp
    NoOutcome = NoOutcome
    ChunkSize = 2
    TaMayDie = TRUE
INVARIANTS
    EnclaveOwnsOperation
    NeverBothAsleep
PROPERTIES
    ImplementsCall
    CallReturns
CHECK_DEADLOCK FALSE
