SPECIFICATION DirectSpec
CONSTANTS
    zero = zero  x = x  u = u
    Datum <- MCDatum
    Zero = zero
    Uninit = u
    Uri <- MCUri
    PostData <- MCPostData
    Command <- MCCommand
    ClientOp <- MCClientOp
    NoOutcome = NoOutcome
    Platforms = {"pc", "sgx"}
    OpenMayFail = TRUE
    TaMayDie = TRUE
INVARIANTS
    OutputsFit
PROPERTIES
    ImplementsCall
CHECK_DEADLOCK FALSE
