\* Every file of up to 8 bytes, and every streamed payload of up to 3.
CONSTANTS
    Base = 3
    Tag <- MCTag
    Version <- MCVersion
    LengthLen = 2
    ChunkSize = 2
    Maximums = {2, 3, 4}
    Usizes = {6, 8}
    MaxFile = 8
SPECIFICATION Spec
INVARIANTS
    DecodersAgree
    AcceptsExactly
    LoadableWhenFinished
    FaultNeverMisleads
