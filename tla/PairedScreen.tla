---------------------------- MODULE PairedScreen ----------------------------
(***************************************************************************)
(* The customer's screen beside the call: AssistService                    *)
(* (services/assist/service.py), for the calls of one customer who is      *)
(* signed in to the app and may also have been sent a link.                *)
(*                                                                         *)
(* A pairing lives until it expires and is removed by the next sweep.      *)
(* Ending a call shortens its pairing to a grace.  Handlers look a pairing *)
(* up after their last await, so each is atomic.  What an item says is     *)
(* left out, and so is the tier: push reads it and nothing else does.      *)
(***************************************************************************)
EXTENDS Naturals, FiniteSets, FiniteSetsExt

CONSTANTS
    MaxCalls,      \* bound: calls, placed in the order of their numbers
    MaxPairings,   \* bound: pairings minted
    MaxItems,      \* bound: things pushed
    Ttl,           \* ttl_s of open_for_call, in units of time
    Grace,         \* PAIRING_GRACE
    CallsAtOnce    \* calls the customer may have live at once

ASSUME ScreenAssumption ==
    /\ MaxCalls \in Nat /\ MaxPairings \in Nat /\ MaxItems \in Nat
    /\ Ttl \in Nat \ {0} /\ Grace \in Nat /\ CallsAtOnce \in Nat

VARIABLES
    call,      \* per call: not placed, waiting, in_call, over (wrap-up included)
    pairing,   \* _by_token: per pairing minted
    forCall,   \* _by_call
    pushed     \* items pushed so far

screenVars == <<call, pairing, forCall, pushed>>

Calls == 1 .. MaxCalls
Pairings == 1 .. MaxPairings
Items == 1 .. MaxItems
NoPairing == 0

Unminted == [state |-> "unminted", of |-> 0, life |-> 0, paired |-> FALSE,
             items |-> {}, answered |-> {}]

ScreenInit ==
    /\ call = [c \in Calls |-> "none"]
    /\ pairing = [p \in Pairings |-> Unminted]
    /\ forCall = [c \in Calls |-> NoPairing]
    /\ pushed = 0

-----------------------------------------------------------------------------
There(p) == p # NoPairing /\ pairing[p].state = "there"

Unexpired(p) == There(p) /\ pairing[p].life > 0

\* _LIVE_CALL_STATES: wrap-up is not one (B37).
Live == {c \in Calls : call[c] \in {"waiting", "in_call"}}

Minted == {p \in Pairings : pairing[p].state # "unminted"}

\* open_for_call where there is nothing to return.
Mint(c) ==
    LET p == Cardinality(Minted) + 1 IN
    /\ p \in Pairings
    /\ pairing' = [pairing EXCEPT ![p] = [Unminted EXCEPT !.state = "there", !.of = c,
                                                          !.life = Ttl]]
    /\ forCall' = [forCall EXCEPT ![c] = p]

\* close: the pairing of a call that ended keeps what it has, for the grace.
Close(c) ==
    LET p == forCall[c] IN
    pairing' = IF There(p) /\ pairing[p].life > Grace
               THEN [pairing EXCEPT ![p].life = Grace] ELSE pairing

\* What the app shows: the newest live call's screen, or else the newest
\* pairing that has not expired.
ShownScreen ==
    IF Live # {} THEN forCall[Max(Live)]
    ELSE Max({p \in Pairings : Unexpired(p)} \cup {NoPairing})

\* A slip: only a live call has a screen to answer on (B37).
AnswerGoesToLiveOnly == IF Live # {} THEN forCall[Min(Live)] ELSE NoPairing

\* Where the app's answer goes: the live call the repository lists first.
AnswerGoesTo ==
    IF Live # {} THEN forCall[Min(Live)]
    ELSE Max({p \in Pairings : Unexpired(p)} \cup {NoPairing})

-----------------------------------------------------------------------------
(* The call.                                                               *)

PlaceCall(c) ==
    /\ call[c] = "none" /\ Cardinality(Live) < CallsAtOnce
    /\ \A d \in Calls : d < c => call[d] # "none"
    /\ call' = [call EXCEPT ![c] = "waiting"]
    /\ UNCHANGED <<pairing, forCall, pushed>>

Answered(c) ==
    /\ call[c] = "waiting"
    /\ call' = [call EXCEPT ![c] = "in_call"]
    /\ UNCHANGED <<pairing, forCall, pushed>>

\* The agent's end_call and hand_off, and the customer's hang-up.
End(c) ==
    /\ call[c] \in {"waiting", "in_call"}
    /\ call' = [call EXCEPT ![c] = "over"]
    /\ Close(c)
    /\ UNCHANGED <<forCall, pushed>>

-----------------------------------------------------------------------------
(* The agent.                                                              *)

AssistLink(c) ==
    /\ call[c] = "in_call" /\ ~Unexpired(forCall[c])
    /\ Mint(c)
    /\ UNCHANGED <<call, pushed>>

\* push looks at the pairing and not at its expiry.
PushItem(c) ==
    LET p == forCall[c] IN
    /\ call[c] = "in_call" /\ There(p) /\ pairing[p].paired /\ pushed < MaxItems
    /\ pushed' = pushed + 1
    /\ pairing' = [pairing EXCEPT ![p].items = @ \cup {pushed + 1}]
    /\ UNCHANGED <<call, forCall>>

-----------------------------------------------------------------------------
(* The customer.                                                           *)

\* The link is opened, or the app finds itself on a call and signs in.
Pair(p) ==
    /\ Unexpired(p) /\ ~pairing[p].paired
    /\ pairing' = [pairing EXCEPT ![p].paired = TRUE]
    /\ UNCHANGED <<call, forCall, pushed>>

\* app_assist, where the call has no pairing at all yet.
AppPoll ==
    /\ Live # {} /\ forCall[Max(Live)] = NoPairing
    /\ LET p == Cardinality(Minted) + 1 IN
       /\ p \in Pairings
       /\ pairing' = [pairing EXCEPT ![p] =
             [Unminted EXCEPT !.state = "there", !.of = Max(Live), !.life = Ttl, !.paired = TRUE]]
       /\ forCall' = [forCall EXCEPT ![Max(Live)] = p]
    /\ UNCHANGED <<call, pushed>>

Respond(p, i) ==
    /\ Unexpired(p) /\ i \in pairing[p].items
    /\ pairing' = [pairing EXCEPT ![p].answered = @ \cup {i}, ![p].paired = TRUE]
    /\ UNCHANGED <<call, forCall, pushed>>

-----------------------------------------------------------------------------
(* Time and the sweep.  A unit is minutes and the sweep runs every second. *)

Dead == {p \in Pairings : There(p) /\ ~Unexpired(p)}

ScreenTimePasses ==
    /\ Dead = {} /\ \E p \in Pairings : Unexpired(p)
    /\ pairing' = [p \in Pairings |->
                      IF Unexpired(p) THEN [pairing[p] EXCEPT !.life = @ - 1] ELSE pairing[p]]
    /\ UNCHANGED <<call, forCall, pushed>>

\* A slip: the call forgets whatever pairing it has.
SweepForgetsNewer ==
    /\ Dead # {}
    /\ pairing' = [p \in Pairings |->
                      IF p \in Dead THEN [pairing[p] EXCEPT !.state = "swept"] ELSE pairing[p]]
    /\ forCall' = [c \in Calls |->
                      IF \E p \in Dead : pairing[p].of = c THEN NoPairing ELSE forCall[c]]
    /\ UNCHANGED <<call, pushed>>

ScreenSweep ==
    /\ Dead # {}
    /\ pairing' = [p \in Pairings |->
                      IF p \in Dead THEN [pairing[p] EXCEPT !.state = "swept"] ELSE pairing[p]]
    /\ forCall' = [c \in Calls |-> IF forCall[c] \in Dead THEN NoPairing ELSE forCall[c]]
    /\ UNCHANGED <<call, pushed>>

ScreenStep ==
    \/ \E c \in Calls : PlaceCall(c) \/ Answered(c) \/ End(c) \/ AssistLink(c) \/ PushItem(c)
    \/ \E p \in Pairings : Pair(p) \/ \E i \in Items : Respond(p, i)
    \/ AppPoll \/ ScreenTimePasses \/ ScreenSweep

-----------------------------------------------------------------------------
(* What must hold.                                                         *)

\* A call has one screen.  Two live pairings for it "would put half the pushes
\* on a screen nobody is looking at" (open_for_call), also when one has just
\* expired; and once it is over no screen outlives the grace: a pairing is no
\* "standing key to a screen" (close).
OneScreenPerCall ==
    /\ \A p, q \in Pairings :
           Unexpired(p) /\ Unexpired(q) /\ pairing[p].of = pairing[q].of => p = q
    /\ \A p \in Pairings :
           Unexpired(p) /\ call[pairing[p].of] = "over" => pairing[p].life <= Grace

\* "The grace window has to cover the SEND, not just the display" (B37): a
\* form the app shows can be sent back.
ShownCanBeSent ==
    Unexpired(ShownScreen) => /\ Unexpired(AnswerGoesTo)
                        /\ pairing[ShownScreen].items \subseteq pairing[AnswerGoesTo].items

\* What is pushed to a caller is seen where they look, and comes back.
ScreenWorks == OneScreenPerCall /\ ShownCanBeSent
=============================================================================
