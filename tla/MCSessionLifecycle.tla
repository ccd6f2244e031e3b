------------------------- MODULE MCSessionLifecycle -------------------------
(* Small instances of SessionLifecycle: two or three connections, and one  *)
(* address more than can be in use at once when reuse is not the question. *)
EXTENDS SessionLifecycle, TLC

Symmetry == Permutations(Conn) \cup Permutations(Addr)

\* LiveInit: the connection that is the session already, and its address.
First == CHOOSE c \in Conn : TRUE
FirstAddr == CHOOSE a \in Addr : TRUE

\* The state OnAccept leaves behind when it returns for the first connection.
LiveInit ==
    /\ phase = [c \in Conn |-> IF c = First THEN "live" ELSE "unborn"]
    /\ addr = [c \in Conn |-> IF c = First THEN FirstAddr ELSE None]
    /\ closed = [c \in Conn |-> FALSE]
    /\ wire = [c \in Conn |-> IF c = First THEN "hello" ELSE "silent"]
    /\ stalled = {}
    /\ sendMutex = [c \in Conn |-> None]
    /\ sendTo = [t \in Thread |-> None]
    /\ joining = [t \in Thread |-> None]
    /\ sessionMutex = None /\ session = First /\ endedSession = None
    /\ lpc = "accept" /\ lNew = None /\ lReplaced = None
    /\ mpc = "loop" /\ mRef = None
    /\ dpc = "run"
    /\ rpc = [c \in Conn |-> IF c = First THEN "recv" ELSE "none"]
    /\ rRef = [c \in Conn |-> FALSE]

LiveSpec == LiveInit /\ [][Next]_vars /\ Fairness
=============================================================================
