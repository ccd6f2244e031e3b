SPECIFICATION MCSpec
CONSTANTS
    kCapacity = 2
    MaxSamples = 3
    MaxInbox = 1
    MaxPackets = 0
    MaxPeriods = 0
    MaxConn = 1
    Pixels <- MCPixels
    Width = 2
    Sizes = {1, 2}
    MaxFrames = 2
    MaxSessions = 2
    MaxFailures = 1
    Clients <- MCClients
    Base <- MCBase
    MaxConnections = 2
INVARIANTS
    WakeupPending AllJoined
    ReleaseIsSent CleanSessionsSeeWholeDrags EndsAtPointer ScreenCurrent InputMapsToScreen
    LastHelloIsKnown SenderKnowsSize
PROPERTIES IsLossyBuffer FrameReachesScreen SizeReachesUncrossed
CHECK_DEADLOCK FALSE
