\* Both endpoints: payloads of up to four chunks through a channel of two.
CONSTANTS
    Facades = {"blocking", "tokio"}
    Capacity = 2
    ChunkSize = 2
    MaxPayload = 7
SPECIFICATION FairSpec
INVARIANTS
    OutputIsValidated
    SuccessMeansWholeOutput
PROPERTIES
    NeitherSideWaits
