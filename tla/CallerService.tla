--------------------------- MODULE CallerService ---------------------------
(***************************************************************************)
(* What the call centre promises one caller, whatever desks, timers and    *)
(* matching ticks do: a caller waits, is rung at one desk at a time, is    *)
(* answered only by the desk that was ringing, and once answered stays     *)
(* with that desk until the record is closed.                              *)
(***************************************************************************)
CONSTANTS Calls, Agents, NoAgent

VARIABLES
    phase,   \* how far each caller has come
    with     \* the desk that rings for, talks to or files for the caller

vars == <<phase, with>>

Phase == {"arriving", "waiting", "ringing", "talking", "filing", "filed", "gone"}

Init ==
    /\ phase = [c \in Calls |-> "arriving"]
    /\ with = [c \in Calls |-> NoAgent]

Step(c, from, to, a) ==
    /\ phase[c] = from
    /\ phase' = [phase EXCEPT ![c] = to]
    /\ with' = [with EXCEPT ![c] = a]

Queue(c) == Step(c, "arriving", "waiting", NoAgent)

Ring(c, a) == Step(c, "waiting", "ringing", a)

Answer(c) == Step(c, "ringing", "talking", with[c])

Unanswered(c) == Step(c, "ringing", "waiting", NoAgent)

HangUp(c) ==
    \E from \in {"arriving", "waiting", "ringing"} : Step(c, from, "gone", NoAgent)

Disconnect(c) == Step(c, "talking", "filing", with[c])

Close(c) == Step(c, "filing", "filed", with[c])

Next ==
    \E c \in Calls :
        \/ Queue(c)
        \/ \E a \in Agents : Ring(c, a)
        \/ Answer(c)
        \/ Unanswered(c)
        \/ HangUp(c)
        \/ Disconnect(c)
        \/ Close(c)

Spec == Init /\ [][Next]_vars

=============================================================================
