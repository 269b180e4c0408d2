--------------------------- MODULE TranscriptFeed ---------------------------
(***************************************************************************)
(* From a transcribed turn to the agent's screen and to the database: the  *)
(* in-memory event bus (adapters/event_bus/memory.py), the delivery of     *)
(* turns (services/transcription/delivery.py) and the recorder of turns    *)
(* (services/transcription/store.py), around one call.                     *)
(*                                                                         *)
(* publish() only queues.  Two tasks drain the queue, the pump and the     *)
(* background task of a request, and they meet at every await of a         *)
(* handler.  Turns are published until the transcriber is closed, which an *)
(* accepting agent does and a hang-up does not.                            *)
(***************************************************************************)
EXTENDS Naturals, Sequences, SequencesExt

CONSTANTS
    Agents,
    MaxTurnsPerCall, \* MAX_TURNS_PER_CALL
    MaxTurns,        \* bound: turns said
    MaxOffers        \* bound: times the call rings

ASSUME FeedAssumption ==
    /\ MaxTurnsPerCall \in Nat \ {0}
    /\ MaxTurns \in Nat /\ MaxOffers \in Nat

VARIABLES
    phase,      \* waiting, ringing, accepting, connected or over
    desk,       \* the agent rung, then the one who took the call
    offers,     \* offers made
    listening,  \* the transcriber is open
    said,       \* turns published
    pending,    \* the bus's _pending
    handling,   \* per drainer: the event in hand and the handlers to come
    held,       \* the delivery's _turns
    owner,      \* the delivery's _agent_for_call
    screen,     \* per agent: the newest transcript message sent to it
    recorded    \* turns the recorder has written, or counted as failed

feedVars == <<phase, desk, offers, listening, said, pending, handling, held, owner,
              screen, recorded>>

callVars == <<phase, desk, offers, listening, said>>

NoOne == "nobody"

Drainers == {"pump", "request"}

Nothing == [event |-> [kind |-> "none"], left |-> <<>>]

Turn(n) == [kind |-> "turn", turn |-> n]

Resolved(a, accepted) == [kind |-> "resolved", agent |-> a, accepted |-> accepted]

Over == [kind |-> "over"]

\* Who is subscribed to what, in the order the container subscribes them.
Handlers(event) ==
    CASE event.kind = "turn" -> <<"delivery", "recorder">>
      [] event.kind = "resolved" -> <<"delivery">>
      [] event.kind = "over" -> <<"recording", "delivery">>

FeedInit ==
    /\ phase = "waiting" /\ desk = NoOne /\ offers = 0
    /\ listening = TRUE /\ said = 0
    /\ pending = <<>> /\ handling = [d \in Drainers |-> Nothing]
    /\ held = <<>> /\ owner = NoOne
    /\ screen = [a \in Agents |-> <<>>]
    /\ recorded = {}

-----------------------------------------------------------------------------
(* The call, as far as it publishes.                                       *)

busVars == <<handling, held, owner, screen, recorded>>

Say ==
    /\ listening /\ said < MaxTurns
    /\ said' = said + 1
    /\ pending' = Append(pending, Turn(said + 1))
    /\ UNCHANGED <<phase, desk, offers, listening>> /\ UNCHANGED busVars

Ring(a) ==
    /\ phase = "waiting" /\ offers < MaxOffers
    /\ phase' = "ringing" /\ desk' = a /\ offers' = offers + 1
    /\ UNCHANGED <<listening, said, pending>> /\ UNCHANGED busVars

\* Declined or timed out.
Decline ==
    /\ phase = "ringing"
    /\ phase' = "waiting" /\ desk' = NoOne
    /\ pending' = Append(pending, Resolved(desk, FALSE))
    /\ UNCHANGED <<offers, listening, said>> /\ UNCHANGED busVars

\* The accept closes the transcriber, whose last turns come before this.
AcceptCloses ==
    /\ phase = "ringing"
    /\ phase' = "accepting" /\ listening' = FALSE
    /\ UNCHANGED <<desk, offers, said, pending>> /\ UNCHANGED busVars

Accept ==
    /\ phase = "accepting"
    /\ phase' = "connected"
    /\ pending' = Append(pending, Resolved(desk, TRUE))
    /\ UNCHANGED <<desk, offers, listening, said>> /\ UNCHANGED busVars

\* The caller leaves before anybody answers; the transcriber goes on.
HangUp ==
    /\ phase \in {"waiting", "ringing", "accepting"}
    /\ phase' = "over" /\ desk' = NoOne
    /\ pending' = pending \o (IF phase = "waiting" THEN <<Over>>
                              ELSE <<Resolved(desk, FALSE), Over>>)
    /\ UNCHANGED <<offers, listening, said>> /\ UNCHANGED busVars

WrapUpDone ==
    /\ phase = "connected"
    /\ phase' = "over"
    /\ pending' = Append(pending, Over)
    /\ UNCHANGED <<desk, offers, listening, said>> /\ UNCHANGED busVars

\* Nobody closes the transcriber of a caller who left but its own limit.
MaxDuration ==
    /\ listening
    /\ listening' = FALSE
    /\ UNCHANGED <<phase, desk, offers, said, pending>> /\ UNCHANGED busVars

-----------------------------------------------------------------------------
(* The handlers.                                                           *)

Lastly(turns) == SubSeq(turns, Len(turns) - MaxTurnsPerCall + 1, Len(turns))

Show(a, turns) == screen' = [screen EXCEPT ![a] = turns]

OnTurn(n) ==
    /\ held' = IF Len(held) < MaxTurnsPerCall THEN Append(held, n) ELSE Lastly(Append(held, n))
    /\ IF owner = NoOne THEN UNCHANGED screen ELSE Show(owner, held')
    /\ UNCHANGED owner

\* A slip: whatever the outcome, the agent is sent the transcript.
OnOfferResolvedAny(event) ==
    /\ owner' = event.agent
    /\ Show(event.agent, held)
    /\ UNCHANGED held

OnOfferResolved(event) ==
    /\ IF event.accepted
       THEN owner' = event.agent /\ Show(event.agent, held)
       ELSE UNCHANGED <<owner, screen>>
    /\ UNCHANGED held

Forget ==
    /\ held' = <<>> /\ owner' = NoOne
    /\ UNCHANGED screen

Delivery(event) ==
    /\ CASE event.kind = "turn" -> OnTurn(event.turn)
         [] event.kind = "resolved" -> OnOfferResolved(event)
         [] event.kind = "over" -> Forget
    /\ UNCHANGED recorded

\* A write that fails costs the row and is counted: the two look alike here.
Recorder(event) ==
    /\ recorded' = recorded \cup {event.turn}
    /\ UNCHANGED <<held, owner, screen>>

Run(handler, event) ==
    CASE handler = "delivery" -> Delivery(event)
      [] handler = "recorder" -> Recorder(event)
      [] handler = "recording" -> UNCHANGED <<held, owner, screen, recorded>>

-----------------------------------------------------------------------------
(* The bus.                                                                *)

\* A slip: the turn in hand is put back behind the others when its first
\* handler has to wait.
PopPutsBack(d) ==
    /\ handling[d] = Nothing /\ pending # <<>>
    /\ pending' = Append(Tail(pending), Head(pending))
    /\ UNCHANGED handling /\ UNCHANGED <<held, owner, screen, recorded, callVars>>

\* The first handler starts in the step that takes the event off the queue.
Pop(d) ==
    /\ handling[d] = Nothing /\ pending # <<>>
    /\ LET event == Head(pending) IN
       /\ Run(Head(Handlers(event)), event)
       /\ handling' = [handling EXCEPT ![d] = [event |-> event, left |-> Tail(Handlers(event))]]
    /\ pending' = Tail(pending)
    /\ UNCHANGED callVars

NextHandler(d) ==
    /\ handling[d].left # <<>>
    /\ Run(Head(handling[d].left), handling[d].event)
    /\ handling' = [handling EXCEPT ![d].left = Tail(@)]
    /\ UNCHANGED <<pending, callVars>>

EventDone(d) ==
    /\ handling[d] # Nothing /\ handling[d].left = <<>>
    /\ handling' = [handling EXCEPT ![d] = Nothing]
    /\ UNCHANGED <<pending, held, owner, screen, recorded, callVars>>

\* The recording service cannot load the call: the drain ends there, and the
\* handlers after it never see the event.
HandlerRaises(d) ==
    /\ handling[d].event = Over /\ handling[d].left = <<"delivery">>
    /\ handling' = [handling EXCEPT ![d] = Nothing]
    /\ UNCHANGED <<pending, held, owner, screen, recorded, callVars>>

-----------------------------------------------------------------------------
FeedNext ==
    \/ Say \/ Decline \/ AcceptCloses \/ Accept \/ HangUp \/ WrapUpDone \/ MaxDuration
    \/ \E a \in Agents : Ring(a)
    \/ \E d \in Drainers : Pop(d) \/ NextHandler(d) \/ EventDone(d) \/ HandlerRaises(d)

-----------------------------------------------------------------------------
(* What must hold.                                                         *)

AllSaid == [i \in 1 .. said |-> i]

Newest == IF said <= MaxTurnsPerCall THEN AllSaid ELSE Lastly(AllSaid)

\* Only the agent who took the call is ever sent the caller's words: not one
\* who declined, timed out or was still being rung (D52, D106).
OnlyTheTakerReads ==
    \A a \in Agents : screen[a] # <<>> => phase \in {"connected", "over"} /\ desk = a
=============================================================================
