SPECIFICATION FairSpec
CONSTANTS
    Conn = {c1}
    None = None
    Sps = {1}
    kCapacity = 2
    MaxFailures = 0
CHECK_DEADLOCK FALSE
PROPERTIES PictureRecovers
