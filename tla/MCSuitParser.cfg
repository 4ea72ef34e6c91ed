SPECIFICATION Spec
CONSTANTS
    Modulus = 256
    INT_MAX = 31
    SUIT_DEPENDENCY_MAX = 1
    SUIT_COMPONENT_MAX = 2
    Envelope <- MCEnvelope
    CborHead <- MCHead
    PayloadName <- MCPayloadName
INVARIANTS RunsSignedManifest AcceptedAsReference SequenceAsReference PayloadAsReference ListsFit
\* A behaviour is the life of one envelope.
CHECK_DEADLOCK FALSE
