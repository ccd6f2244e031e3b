SPECIFICATION FairSpec
CONSTANTS
    kCapacity = 2
    MaxSamples = 1
    MaxInbox = 1
    MaxPackets = 0
    MaxPeriods = 0
    MaxConn = 1
PROPERTIES AnnouncesWithoutReceiving
CHECK_DEADLOCK FALSE
