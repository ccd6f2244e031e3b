SPECIFICATION Spec
CONSTANTS
    Conn = {c1, c2}
    Addr = {a1, a2}
    Listener = Listener
    Main = Main
    Decoder = Decoder
    None = None
    StallingPeers = {}
    Activity = {"input", "dropKf"}
SYMMETRY Symmetry
CHECK_DEADLOCK FALSE
INVARIANTS HelloFirst
