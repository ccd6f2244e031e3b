SPECIFICATION FramingSpec
CONSTANTS
    Lengths = {1, 3}
    PayloadByte <- MCPayloadByte
    MaxFrames = 3
    kMaxFrameSize = 6
INVARIANTS PayloadIntact

CHECK_DEADLOCK FALSE
