SPECIFICATION Spec
CONSTANTS
    CommandIdModulus = 32768
    None = None
    Frames <- MCFrames
    ByteValues <- MCBytes
INVARIANTS
    RoundTrip
    Canonical
    StopIsNeverForged
CHECK_DEADLOCK FALSE
