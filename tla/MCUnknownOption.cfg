SPECIFICATION Spec
CONSTANTS
    Input <- MCInput
    RequestList <- MCRequestList
    IndefCount = 9
    UINT32_LIMIT = 16
    POST_DATA_LEN = 2048
    MallocMayFail = FALSE
INVARIANT UnknownOptionSkipped
CHECK_DEADLOCK FALSE
