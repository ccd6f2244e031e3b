------------------------------ MODULE OneSender ------------------------------
(***************************************************************************)
(* What the receiver promises its senders, without threads, locks, sockets *)
(* or Session objects: they come one at a time, each is served at most     *)
(* once, and one is served only when nobody else is, but for the sender    *)
(* that was served when the receiver began to leave.                       *)
(***************************************************************************)
CONSTANT Conn    \* the senders' connections

VARIABLES
    life,     \* of each connection: "absent", "waiting", "served" or "over"
    door      \* "open", "leaving", then "shut"

vars == <<life, door>>

Init == life = [c \in Conn |-> "absent"] /\ door = "open"

Becomes(c, state) == life' = [life EXCEPT ![c] = state] /\ UNCHANGED door

Come(c) ==
    /\ life[c] = "absent" /\ door # "shut"
    /\ \A d \in Conn : life[d] # "waiting"
    /\ Becomes(c, "waiting")

Serve(c) ==
    /\ life[c] = "waiting"
    /\ \A d, e \in Conn : life[d] = "served" /\ life[e] = "served" => door # "open" /\ d = e
    /\ Becomes(c, "served")

\* Lost, replaced, dropped or turned away: it does not come back.
End(c) == life[c] \in {"waiting", "served"} /\ Becomes(c, "over")

Move(from, to) == door = from /\ door' = to /\ UNCHANGED life

Next == \/ \E c \in Conn : Come(c) \/ Serve(c) \/ End(c)
        \/ Move("open", "leaving") \/ Move("leaving", "shut")

Spec == Init /\ [][Next]_vars
=============================================================================
