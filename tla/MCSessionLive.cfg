SPECIFICATION LiveSpec
CONSTANTS
    Conn = {c1, c2}
    Addr = {a1, a2}
    Listener = Listener
    Main = Main
    Decoder = Decoder
    None = None
    StallingPeers = {c1}
    Activity = {"input", "control", "dropKf", "quit"}
PROPERTIES EndedIsDestroyed NewConnectionWinsIfRead ShutdownCompletes
CHECK_DEADLOCK FALSE
