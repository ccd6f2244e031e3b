SPECIFICATION MCSpec
CONSTANTS
    Lengths = {0, 1, 3}
    PayloadByte <- MCPayloadByte
    MaxFrames = 3
    kMaxFrameSize = 6
    Heads <- MCHeads
    Nalus <- MCNalus
    MaxNalus = 3
    kJsonSniffMaxSize = 12
    Atoms <- MCAtoms
    Numbers = {"1", "2", "1.5", "1e9"}
    IntPart <- MCIntPart
    kIntLimit = 1000000000
    Members <- MCMembers
    MaxMembers = 3
    kDriftLimit = 2
    MaxHeld = 3
    MaxUnits = 7
    kPingInterval = 2
    kLivenessTimeout = 8
    MaxHold = 2
    MaxInbox = 2
    MaxPackets = 3
    MaxPeriods = 2
    Starts = {1, 2, 3}
    Ids = {1, 2, 3}
    NoId = 0
    Fields <- MCFields
    Cuts = {0, 1, 2, 5}
    Conn = {1, 2}
    None = 0
    Sps = {1, 2}
    kCapacity = 2
    MaxFailures = 1
INVARIANTS
    DeliveredInOrder NeverMisrouted SlicesReachDecoder KeyframeIsIdr
    FieldsAreSenders SizeIsEncoders DroppedForSilence ClocksAreKept NoStorm OneIdentity
    StartedByKeyframe BuiltForStream BreakIsAnswered
PROPERTIES
    LastFeedIntact PairedWithinLimit DecoderRestarts PictureRecoversIfAsked
CHECK_DEADLOCK FALSE
