SPECIFICATION Spec
CONSTANTS
    Conn = {c1, c2, c3}
    Addr = {a1, a2, a3}
    Listener = Listener
    Main = Main
    Decoder = Decoder
    None = None
    StallingPeers = {}
    Activity = {}
SYMMETRY Symmetry
CHECK_DEADLOCK FALSE
INVARIANTS ReapOnlyEnded
