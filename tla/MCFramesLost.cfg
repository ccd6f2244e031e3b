SPECIFICATION FramingSpec
CONSTANTS
    Lengths = {1, 3}
    PayloadByte <- MCPayloadByte
    MaxFrames = 3
    kMaxFrameSize = 6
INVARIANTS DeliveredBeforeCorrupt

CHECK_DEADLOCK FALSE
