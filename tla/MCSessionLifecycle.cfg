SPECIFICATION Spec
CONSTANTS
    Conn = {c1, c2}
    Addr = {a1, a2}
    Listener = Listener
    Main = Main
    Decoder = Decoder
    None = None
    StallingPeers = {}
    Activity = {"input", "resize", "control", "stats", "ping", "dropKf", "decoderKf", "quit"}
SYMMETRY Symmetry
INVARIANTS TypeOK Ownership NoUseAfterFree NoJoinUnderSessionMutex OneReceiver
    HelloSentOrClosed ReapNeedsEnd ExitLeavesOnlyCallbacks
