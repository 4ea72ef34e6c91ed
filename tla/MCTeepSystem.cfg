SPECIFICATION SystemSpec
CONSTANTS
    p0 = p0  p1 = p1  b1 = b1  b2 = b2  r0 = r0  r2 = r2  l0 = l0  t1 = t1  t2 = t2  t3 = t3  q1 = q1
    EmptyUri = EmptyUri  NotTstr = NotTstr  NotBstr = NotBstr  NoManifest = NoManifest
    NoToken = NoToken  NoEnvelope = NoEnvelope
    Path <- MCPath
    Block <- MCBlock
    Image <- MCImage
    HeaderPath <- MCHeaderPath
    RemoteUri <- MCRemoteUri
    LongUri <- MCLongUri
    WildUri <- MCWildUri
    LocalUri <- MCLocalUri
    Manifest <- MCManifest
    Slot <- MCSlot
    Frame <- MCFrame
    Token <- MCToken
    Request <- MCRequest
    Envelope <- MCEnvelope
    Message <- MCMessage
    TooLong <- MCTooLong
    TamUriLen <- MCTamUriLen
    BrokerUriLen = 2
    BrokerTaList <- MCTaList
    TEEP_MAX_URI_LEN = 4
    MAX_REQUESTS = 1
    SUIT_MANIFEST_MAX = 8
    Platform = "keystone"
    StoreMayFail = TRUE
    KEY_LIMIT = 32
    SUIT_BINDER_MAX = 2
    SUIT_STACK_MAX = 2
    MallocMayFail = TRUE
INVARIANTS
    BrokerInStep
    AcceptedIsReported
    
    SuccessMeansExecuted
PROPERTIES
    SessionEnds
CHECK_DEADLOCK FALSE
