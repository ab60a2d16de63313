\* Both endpoints: four chunks at most through a channel of two, lengths up to the
\* end of the word, sources shorter, equal and longer.
CONSTANTS
    Facades = {"blocking", "tokio"}
    Capacity = 2
    ChunkSize = 2
    Maximum = 5
    Word = 6
    MaxInput = 6
    Old = Old
SPECIFICATION FairSpec
INVARIANTS
    CommittedIsWholeInput
    AnswerTellsOutcome
    ErrorsNameTheCause
PROPERTIES
    NeitherSideWaits
