SPECIFICATION Spec
CONSTANTS
    Input <- MCInput
    RequestList <- MCRequestList
    IndefCount = 9
    UINT32_LIMIT = 16
    POST_DATA_LEN = 2048
    MallocMayFail = TRUE
INVARIANTS AcceptedAsTree AcceptedAsItems NothingLeaked TokenEchoed BuiltWhole
PROPERTY ParseReturns
\* A behaviour is the life of one message.
CHECK_DEADLOCK FALSE
