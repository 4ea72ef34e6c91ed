SPECIFICATION RunnerSpec
CONSTANTS
    p0 = p0  p1 = p1  b1 = b1  b2 = b2
    r0 = r0  r1 = r1  l0 = l0  l1 = l1  l2 = l2
    EmptyUri = EmptyUri  NotTstr = NotTstr  NotBstr = NotBstr  NoManifest = NoManifest
    Path <- MCPath
    Block <- MCBlock
    Image <- MCImage
    HeaderPath <- MCHeaderPath
    RemoteUri <- MCRemoteUri
    LocalUri <- MCLocalUri
    Manifest <- CoreManifests
    Slot <- MCSlot
    Frame <- TwoFrames
    Platform = "pc"
    StoreMayFail = FALSE
    SUIT_BINDER_MAX = 2
    SUIT_STACK_MAX = 2
    KEY_LIMIT = 32
INVARIANT
    ParametersByComponent
CHECK_DEADLOCK FALSE
