SPECIFICATION HttpSpec
CONSTANTS
    x = x  y = y
    Datum <- MCDatum
    Body <- MCBody
    Status = {"200", "204", "404"}
    Url = {"http", "https", "other", "unparsable", "long"}
    max_out_len = 3
    ServiceMayFail = TRUE
INVARIANTS
    BufferIsPrefix
    SuccessIsComplete
PROPERTIES
    FailureSticks
    GoneMeansReturned
CHECK_DEADLOCK FALSE
