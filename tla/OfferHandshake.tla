--------------------------- MODULE OfferHandshake ---------------------------
(***************************************************************************)
(* The core of ReadyCall: callers waiting in the dispatch pool, desks with *)
(* two axes of presence, and the offer handshake that joins them.          *)
(*                                                                         *)
(* Four services share this state inside one asyncio process: the call     *)
(* orchestrator (state), DispatchService (pool, ticks), AssignmentService  *)
(* (outcome, open, excluded, rounds, acw) and PresenceService (desk).      *)
(* The actions are what drives them: the agent's and the customer's HTTP   *)
(* handlers, and the passes of the sweep.                                  *)
(*                                                                         *)
(* Granularity. A handler runs to its end in one step, with one exception: *)
(* a matching tick.  DispatchService.tick solves once and then awaits once *)
(* or more per decision, so its decisions are applied one step at a time,  *)
(* to whatever the other handlers have made of the world in between, and   *)
(* two ticks may be in flight together (the sweep's and a request's).      *)
(***************************************************************************)
EXTENDS Naturals, FiniteSets, CallLifecycle

CONSTANTS
    Calls,            \* call sessions
    Agents,           \* the roster
    NoAgent,          \* nobody
    AllDeclined,      \* the decision "everyone qualified has already refused"
    Deferred,         \* the decision "hold this caller for a better desk"
    Ticks,            \* bound: how many matching ticks may be in flight at once
    Skilled,          \* per call, the agents with its skill and language
    DeclaredIntents,  \* bound: the standing instructions agents use
    MaxConcurrent,    \* Agent.max_concurrent
    MaxOfferRounds,   \* guards.max_offer_rounds; 0 is no cap
    RoundBound,       \* bound: the round counter saturates here
    Habits            \* bound: what people at the desks do besides their work

SystemState == {"OFFLINE", "AVAILABLE", "OFFERING", "ON_CALL", "AFTER_CALL_WORK"}

AgentIntent ==
    {"READY", "NOT_READY", "BREAK", "LUNCH", "TRAINING", "ADMIN", "LAST_CALL", "DRAINING"}

Declarable == AgentIntent \ {"NOT_READY"}

DeclarableOnCall == {"READY", "LAST_CALL", "DRAINING"}

\* "NONE": no assignment for the pair yet.
Outcome == {"NONE", "PENDING", "ACCEPTED", "DECLINED", "TIMEOUT", "CANCELLED"}

\* After-call work on the accepted assignment. "negative": acw_started_at was
\* written again after acw_ended_at was, so the measured duration is negative.
Acw == {"none", "running", "ended", "negative"}

\* login_over: signing in at a desk that is already signed in.
\* leave_ringing: signing out, or letting the heartbeat lapse, while ringing.
\* end_twice: pressing End or Hand off again for a call already ended.
Habit == {"login_over", "leave_ringing", "end_twice"}

ASSUME ConstantsAssumption ==
    /\ NoAgent \notin Agents
    /\ AllDeclined \notin Agents \cup {NoAgent}
    /\ Deferred \notin Agents \cup {NoAgent, AllDeclined}
    /\ Skilled \in [Calls -> SUBSET Agents]
    /\ DeclaredIntents \subseteq Declarable
    /\ MaxConcurrent \in Nat /\ MaxConcurrent > 0
    /\ MaxOfferRounds \in Nat
    /\ RoundBound \in Nat /\ RoundBound > 0 /\ MaxOfferRounds <= RoundBound
    /\ Habits \subseteq Habit

VARIABLES
    state,     \* session.state
    pool,      \* DispatchService._waiting
    patient,   \* callers whose wait is still under defer_max_wait_s
    ticks,     \* per tick in flight, the decisions it has yet to apply
    outcome,   \* per call and agent, the newest assignment's outcome
    open,      \* _open_by_call: the desk each call is ringing at
    excluded,  \* _CallOffers.excluded_agent_ids
    rounds,    \* _CallOffers.rounds
    acw,       \* acw_started_at / acw_ended_at of the accepted assignment
    earlier,   \* per call, the calls whose acw_started_at is earlier
    wrapups,   \* the calls with a wrap-up on file
    desk       \* PresenceService: the two axes, the load and the ACW clock

vars == <<state, pool, patient, ticks, outcome, open, excluded, rounds, acw,
          earlier, wrapups, desk>>

\* Agents never seen by presence have no record: system is "ABSENT".
Desk == [system : SystemState \cup {"ABSENT"}, intent : AgentIntent,
         load : Nat, clock : BOOLEAN]

Decision == Agents \cup {NoAgent, AllDeclined, Deferred}

TypeOK ==
    /\ state \in [Calls -> CallState]
    /\ pool \subseteq Calls
    /\ patient \subseteq Calls
    /\ ticks \in [Ticks -> [Calls -> Decision]]
    /\ outcome \in [Calls -> [Agents -> Outcome]]
    /\ open \in [Calls -> Agents \cup {NoAgent}]
    /\ excluded \in [Calls -> SUBSET Agents]
    /\ rounds \in [Calls -> 1 .. RoundBound]
    /\ acw \in [Calls -> Acw]
    /\ earlier \in [Calls -> SUBSET Calls]
    /\ wrapups \subseteq Calls
    /\ desk \in [Agents -> Desk]

NothingToApply == [c \in Calls |-> NoAgent]

Init ==
    /\ state \in [Calls -> StartStates]
    /\ pool = {}
    /\ patient = Calls
    /\ ticks = [t \in Ticks |-> NothingToApply]
    /\ outcome = [c \in Calls |-> [a \in Agents |-> "NONE"]]
    /\ open = [c \in Calls |-> NoAgent]
    /\ excluded = [c \in Calls |-> {}]
    /\ rounds = [c \in Calls |-> 1]
    /\ acw = [c \in Calls |-> "none"]
    /\ earlier = [c \in Calls |-> {}]
    /\ wrapups = {}
    /\ desk = [a \in Agents |-> [system |-> "ABSENT", intent |-> "NOT_READY",
                                 load |-> 0, clock |-> FALSE]]

Move(c, to) ==
    /\ CanMove(state[c], to)
    /\ state' = [state EXCEPT ![c] = to]

-----------------------------------------------------------------------------
(* PresenceService: what each call of it makes of one desk.                *)

Known(a) == desk[a].system # "ABSENT"

SignedIn(d) == [d EXCEPT !.system = "AVAILABLE", !.intent = "NOT_READY", !.load = 0]

Gone(d) == [d EXCEPT !.system = "OFFLINE", !.clock = FALSE]

Declared(d, i) ==
    IF d.system = "AFTER_CALL_WORK"
    THEN [d EXCEPT !.system = "AVAILABLE", !.clock = FALSE, !.intent = i]
    ELSE [d EXCEPT !.intent = i]

Rung(d) == [d EXCEPT !.system = "OFFERING"]

Talking(d) == [d EXCEPT !.system = "ON_CALL", !.load = @ + 1]

AfterCall(d) ==
    [d EXCEPT !.system = "AFTER_CALL_WORK", !.clock = TRUE,
              !.load = IF @ > 0 THEN @ - 1 ELSE 0,
              !.intent = IF @ = "LAST_CALL" THEN "NOT_READY" ELSE @]

Released(d) == [d EXCEPT !.system = "AVAILABLE"]

\* RONA, and the agent's own "decline and stop offering", land alike.
OutOfRotation(d) == [d EXCEPT !.system = "AVAILABLE", !.intent = "NOT_READY"]

AcceptsNewCallers(d) ==
    d.intent = "READY" \/ (d.intent = "LAST_CALL" /\ d.system = "AVAILABLE")

-----------------------------------------------------------------------------
(* MatchingEngine: who may be given whom, and what one solve may decide.   *)

\* A slip: a ringing desk, which carries no load yet, passes the filter (B25).
FeasibleWhileRinging(c, a) ==
    /\ a \notin excluded[c]
    /\ a \in Skilled[c]
    /\ AcceptsNewCallers(desk[a])
    /\ desk[a].system \in {"AVAILABLE", "OFFERING"}
    /\ desk[a].load < MaxConcurrent

\* A slip: excluded_agent_ids as admitted, not as they are at this tick (D52).
FeasibleExclusionsStale(c, a) ==
    /\ a \in Skilled[c]
    /\ AcceptsNewCallers(desk[a])
    /\ desk[a].system = "AVAILABLE"
    /\ desk[a].load < MaxConcurrent

Feasible(c, a) ==
    /\ a \notin excluded[c]
    /\ a \in Skilled[c]
    /\ AcceptsNewCallers(desk[a])
    /\ desk[a].system = "AVAILABLE"
    /\ desk[a].load < MaxConcurrent

\* Nobody qualified or merely unavailable is left, and somebody has refused.
\* An agent who signed out still has a presence record and still counts.
Exhausted(c) ==
    /\ \A a \in Skilled[c] : Known(a) => a \in excluded[c]
    /\ \E a \in excluded[c] : Known(a)

\* A slip: a tick solves for the whole pool, callers who are ringing included.
WaitingOrRinging == pool

Waiting == {c \in pool : state[c] = "MATCHED" /\ open[c] = NoAgent}

\* A solve never gives one desk two callers, nor leaves a caller beside a
\* free desk that could take them; which pairing scores best is left open.
Matching ==
    {m \in [Calls -> Agents \cup {NoAgent}] :
        /\ \A c \in Calls : m[c] # NoAgent => c \in Waiting /\ Feasible(c, m[c])
        /\ \A c, d \in Calls : m[c] = m[d] /\ m[c] # NoAgent => c = d
        /\ \A c \in Waiting, a \in Agents :
              m[c] = NoAgent /\ Feasible(c, a) => \E d \in Calls : m[d] = a}

\* A slip: a wait that never grows (B12), so that deferral never ends.
DeferrableForEver(m) ==
    {c \in Waiting : m[c] # NoAgent /\ \E a \in Agents \ {m[c]} : Feasible(c, a)}

\* A short wait may be held back for a better desk, free or just given away.
Deferrable(m) ==
    {c \in patient : m[c] # NoAgent /\ \E a \in Agents \ {m[c]} : Feasible(c, a)}

Decisions ==
    UNION {{[c \in Calls |->
                IF c \in Waiting /\ Exhausted(c) THEN AllDeclined
                ELSE IF c \in held THEN Deferred ELSE m[c]]
            : held \in SUBSET Deferrable(m)} : m \in Matching}

-----------------------------------------------------------------------------
(* DispatchService.tick.                                                   *)

Idle(t) == ticks[t] = NothingToApply

\* The start of a tick, as the last thing its handler does: the pool and the
\* presence it solves over are the ones that handler leaves behind.
StartTick(t) ==
    /\ Idle(t)
    /\ \E d \in Decisions' : ticks' = [ticks EXCEPT ![t] = d]

Offer(c, a) ==
    /\ Move(c, "OFFERED")
    /\ outcome' = [outcome EXCEPT ![c][a] = "PENDING"]
    /\ open' = [open EXCEPT ![c] = a]
    /\ desk' = [desk EXCEPT ![a] = Rung(@)]

\* A slip: the cap compared without asking whether there is one.
CircleBackCapZero(c) ==
    IF rounds[c] >= MaxOfferRounds
    THEN UNCHANGED <<excluded, rounds>>
    ELSE /\ excluded' = [excluded EXCEPT ![c] = {}]
         /\ rounds' = [rounds EXCEPT ![c] = IF @ < RoundBound THEN @ + 1 ELSE @]

\* _circle_back: the exclusions go, unless the caller has had every round.
CircleBack(c) ==
    IF MaxOfferRounds # 0 /\ rounds[c] >= MaxOfferRounds
    THEN UNCHANGED <<excluded, rounds>>
    ELSE /\ excluded' = [excluded EXCEPT ![c] = {}]
         /\ rounds' = [rounds EXCEPT ![c] = IF @ < RoundBound THEN @ + 1 ELSE @]

Applied(t, c) == ticks' = [ticks EXCEPT ![t][c] = NoAgent]

\* The caller has left the pool since the solve.
SkipDecision(t, c) ==
    /\ ticks[t][c] # NoAgent
    /\ c \notin pool
    /\ Applied(t, c)
    /\ UNCHANGED <<state, pool, patient, outcome, open, excluded, rounds, acw,
                   earlier, wrapups, desk>>

ApplyAllDeclined(t, c) ==
    /\ ticks[t][c] = AllDeclined
    /\ c \in pool
    /\ CircleBack(c)
    /\ Applied(t, c)
    /\ UNCHANGED <<state, pool, patient, outcome, open, acw, earlier, wrapups, desk>>

\* Recorded, and nothing more: the next tick decides again.
ApplyDeferred(t, c) ==
    /\ ticks[t][c] = Deferred
    /\ c \in pool
    /\ Applied(t, c)
    /\ UNCHANGED <<state, pool, patient, outcome, open, excluded, rounds, acw,
                   earlier, wrapups, desk>>

ApplyOffer(t, c) ==
    /\ ticks[t][c] \in Agents
    /\ c \in pool
    /\ state[c] = "MATCHED" /\ open[c] = NoAgent
    /\ Offer(c, ticks[t][c])
    /\ Applied(t, c)
    /\ UNCHANGED <<pool, patient, excluded, rounds, acw, earlier, wrapups>>

\* AssignmentService.offer refuses; its error ends the tick where it stands.
AbortTick(t, c) ==
    /\ ticks[t][c] \in Agents
    /\ c \in pool
    /\ ~(state[c] = "MATCHED" /\ open[c] = NoAgent)
    /\ ticks' = [ticks EXCEPT ![t] = NothingToApply]
    /\ UNCHANGED <<state, pool, patient, outcome, open, excluded, rounds, acw,
                   earlier, wrapups, desk>>

SweepTick(t) ==
    /\ Waiting # {}
    /\ UNCHANGED <<state, pool, patient, outcome, open, excluded, rounds, acw,
                   earlier, wrapups, desk>>
    /\ StartTick(t)

-----------------------------------------------------------------------------
(* The caller's road to the pool, and their end of the line.               *)

\* demo.place_call, up to the queue: dialling, the menu, the queue, the
\* closed queue's voicemail, and the intake recording.
ArrivalSteps ==
    {<<"INTENT_CREATED", "CONNECTING">>, <<"CONNECTING", "IVR">>, <<"IVR", "QUEUED">>,
     <<"QUEUED", "VOICEMAIL">>, <<"QUEUED", "INTAKE_ACTIVE">>,
     <<"INTAKE_ACTIVE", "INTAKE_COMPLETE">>}

Arrive(c) ==
    /\ \E step \in ArrivalSteps : state[c] = step[1] /\ Move(c, step[2])
    /\ UNCHANGED <<pool, patient, ticks, outcome, open, excluded, rounds, acw,
                   earlier, wrapups, desk>>

\* The rest of place_call: ready for matching, admitted, and a tick at once.
Admit(c, t) ==
    /\ state[c] \in {"QUEUED", "INTAKE_ACTIVE", "INTAKE_COMPLETE"}
    /\ Move(c, "MATCHED")
    /\ pool' = pool \cup {c}
    /\ UNCHANGED <<patient, outcome, open, excluded, rounds, acw, earlier, wrapups, desk>>
    /\ StartTick(t)

\* The wait passes defer_max_wait_s: this caller is not held back any more.
WaitGrows(c) ==
    /\ c \in patient /\ c \in pool
    /\ patient' = patient \ {c}
    /\ UNCHANGED <<state, pool, ticks, outcome, open, excluded, rounds, acw,
                   earlier, wrapups, desk>>

Accepted(c, a) == outcome[c][a] = "ACCEPTED"

\* A slip: the assignment is resolved, the open-offer index keeps it.
CloseIndexKept(c, a, result) ==
    /\ outcome' = [outcome EXCEPT ![c][a] = result]
    /\ UNCHANGED open

Close(c, a, result) ==
    /\ outcome' = [outcome EXCEPT ![c][a] = result]
    /\ open' = [open EXCEPT ![c] = NoAgent]

\* acw_started_at is written: now the latest of all.
StampAcwStart(c) ==
    /\ acw' = [acw EXCEPT ![c] = IF @ \in {"ended", "negative"} THEN "negative" ELSE "running"]
    /\ earlier' = [d \in Calls |-> IF d = c THEN {e \in Calls : acw[e] # "none"} \ {c}
                                            ELSE earlier[d] \ {c}]

\* AssignmentService.end_call on a live call: the media is gone, ACW begins.
EndCall(c, a) ==
    /\ Accepted(c, a)
    /\ Move(c, "WRAP_UP")
    /\ StampAcwStart(c)
    /\ desk' = [desk EXCEPT ![a] = AfterCall(@)]

\* mobile._LIVE_CALL_STATES: the calls the customer's app can hang up.
LiveCallStates == {"CONNECTING", "IVR", "QUEUED", "MATCHED", "OFFERED", "IN_CALL"}

\* app_hangup: one of three endings, and out of the pool in each.
HangUpInCall(c) ==
    /\ state[c] \in LiveCallStates
    /\ \E a \in Agents : EndCall(c, a)
    /\ pool' = pool \ {c}
    /\ UNCHANGED <<patient, ticks, outcome, open, excluded, rounds, wrapups>>

\* A slip: the offer is cancelled, the desk goes on ringing (B7).
HangUpRingingDeskKept(c) ==
    /\ state[c] \in LiveCallStates
    /\ \A a \in Agents : ~Accepted(c, a)
    /\ open[c] # NoAgent
    /\ Close(c, open[c], "CANCELLED")
    /\ UNCHANGED desk
    /\ Move(c, "ABANDONED")
    /\ pool' = pool \ {c}
    /\ UNCHANGED <<patient, ticks, excluded, rounds, acw, earlier, wrapups>>

\* A slip: the caller hangs up and stays in the pool (B38).
HangUpRingingStaysInPool(c) ==
    /\ state[c] \in LiveCallStates
    /\ \A a \in Agents : ~Accepted(c, a)
    /\ open[c] # NoAgent
    /\ Close(c, open[c], "CANCELLED")
    /\ desk' = [desk EXCEPT ![open[c]] = Released(@)]
    /\ Move(c, "ABANDONED")
    /\ UNCHANGED <<pool, patient, ticks, excluded, rounds, acw, earlier, wrapups>>

HangUpRinging(c) ==
    /\ state[c] \in LiveCallStates
    /\ \A a \in Agents : ~Accepted(c, a)
    /\ open[c] # NoAgent
    /\ Close(c, open[c], "CANCELLED")
    /\ desk' = [desk EXCEPT ![open[c]] = Released(@)]
    /\ Move(c, "ABANDONED")
    /\ pool' = pool \ {c}
    /\ UNCHANGED <<patient, ticks, excluded, rounds, acw, earlier, wrapups>>

HangUpWaiting(c) ==
    /\ state[c] \in LiveCallStates
    /\ \A a \in Agents : ~Accepted(c, a)
    /\ open[c] = NoAgent
    /\ Move(c, "ABANDONED")
    /\ pool' = pool \ {c}
    /\ UNCHANGED <<patient, ticks, outcome, open, excluded, rounds, acw, earlier,
                   wrapups, desk>>

HangUp(c) == HangUpInCall(c) \/ HangUpRinging(c) \/ HangUpWaiting(c)

-----------------------------------------------------------------------------
(* The agent's end: the offer, the call, and the record of it.             *)

\* A slip: the offer is taken and the call is never moved to IN_CALL.
AcceptCallNotMoved(c) ==
    /\ open[c] # NoAgent
    /\ Close(c, open[c], "ACCEPTED")
    /\ desk' = [desk EXCEPT ![open[c]] = Talking(@)]
    /\ pool' = pool \ {c}
    /\ UNCHANGED <<state, patient, ticks, excluded, rounds, acw, earlier, wrapups>>

\* A slip: no _require_open, so a desk whose offer ran out takes the call
\* while it rings at another.
AcceptLate(c) ==
    /\ open[c] # NoAgent
    /\ \E a \in Agents :
          /\ outcome[c][a] \in {"PENDING", "TIMEOUT"}
          /\ Close(c, a, "ACCEPTED")
          /\ desk' = [desk EXCEPT ![a] = Talking(@)]
    /\ Move(c, "IN_CALL")
    /\ pool' = pool \ {c}
    /\ UNCHANGED <<patient, ticks, excluded, rounds, acw, earlier, wrapups>>

Accept(c) ==
    /\ open[c] # NoAgent
    /\ Close(c, open[c], "ACCEPTED")
    /\ desk' = [desk EXCEPT ![open[c]] = Talking(@)]
    /\ Move(c, "IN_CALL")
    /\ pool' = pool \ {c}
    /\ UNCHANGED <<patient, ticks, excluded, rounds, acw, earlier, wrapups>>

\* AssignmentService._reject, for a refusal and for an offer nobody answered.
Reject(c, result, after) ==
    /\ open[c] # NoAgent
    /\ Close(c, open[c], result)
    /\ excluded' = [excluded EXCEPT ![c] = @ \cup {open[c]}]
    /\ desk' = [desk EXCEPT ![open[c]] = after]
    /\ Move(c, "MATCHED")

Decline(c, t) ==
    /\ \/ Reject(c, "DECLINED", Released(desk[open[c]]))
       \/ Reject(c, "DECLINED", OutOfRotation(desk[open[c]]))
    /\ UNCHANGED <<pool, patient, rounds, acw, earlier, wrapups>>
    /\ StartTick(t)

\* end_call and hand_off_call of the agent's router, on the live call.
AgentEnds(c) ==
    /\ \E a \in Agents : EndCall(c, a)
    /\ UNCHANGED <<pool, patient, ticks, outcome, open, excluded, rounds, wrapups>>

\* The same request again: the timestamps are stored before the transition
\* is refused, so they stay overwritten.
AgentEndsAgain(c) ==
    /\ "end_twice" \in Habits
    /\ \E a \in Agents : Accepted(c, a)
    /\ ~CanMove(state[c], "WRAP_UP")
    /\ StampAcwStart(c)
    /\ UNCHANGED <<state, pool, patient, ticks, outcome, open, excluded, rounds,
                   wrapups, desk>>

\* save_wrapup: during after-call work, or late from the backlog.
SaveWrapup(c) ==
    /\ \E a \in Agents : Accepted(c, a)
    /\ \/ state[c] = "WRAP_UP" /\ Move(c, "CLOSED")
       \/ state[c] = "CLOSED" /\ c \notin wrapups /\ UNCHANGED state
    /\ wrapups' = wrapups \cup {c}
    /\ UNCHANGED <<pool, patient, ticks, outcome, open, excluded, rounds, acw,
                   earlier, desk>>

\* _latest_wrapping_assignment, as a set of at most one call.
LatestWrapping(a) ==
    LET wrapping == {c \in Calls : Accepted(c, a) /\ acw[c] = "running"}
    IN  {c \in wrapping : wrapping \ {c} \subseteq earlier[c]}

\* declare_state: the person speaks; if that ends after-call work, the
\* assignment and the call record are closed out; then a tick at once.
Declare(a, i, t) ==
    /\ desk[a].system \notin {"ABSENT", "OFFLINE"}
    /\ desk[a].system \in {"ON_CALL", "OFFERING"} => i \in DeclarableOnCall
    /\ desk' = [desk EXCEPT ![a] = Declared(@, i)]
    /\ LET done == IF desk[a].system = "AFTER_CALL_WORK" THEN LatestWrapping(a) ELSE {}
       IN  /\ acw' = [c \in Calls |-> IF c \in done THEN "ended" ELSE acw[c]]
           /\ state' = [c \in Calls |-> IF c \in done /\ state[c] = "WRAP_UP"
                                        THEN "CLOSED" ELSE state[c]]
    /\ UNCHANGED <<pool, patient, outcome, open, excluded, rounds, earlier, wrapups>>
    /\ StartTick(t)

\* demo_login, and resume for a desk the platform dropped.
SignIn(a) ==
    /\ desk[a].system \in {"ABSENT", "OFFLINE"} \/ "login_over" \in Habits
    /\ desk' = [desk EXCEPT ![a] = SignedIn(@)]
    /\ UNCHANGED <<state, pool, patient, ticks, outcome, open, excluded, rounds,
                   acw, earlier, wrapups>>

Leaves(a) ==
    /\ desk[a].system \in {"AVAILABLE", "AFTER_CALL_WORK", "OFFERING"}
    /\ desk[a].system = "OFFERING" => "leave_ringing" \in Habits
    /\ desk' = [desk EXCEPT ![a] = Gone(@)]
    /\ UNCHANGED <<state, pool, patient, ticks, outcome, open, excluded, rounds,
                   acw, earlier, wrapups>>

Logout(a) == Leaves(a)

-----------------------------------------------------------------------------
(* The passes of the sweep that change this state, besides its tick.       *)

\* A slip: only desks that are still there are timed out.
ExpireOfferIfDeskThere(c) ==
    /\ c \in pool
    /\ open[c] # NoAgent /\ desk[open[c]].system = "OFFERING"
    /\ Reject(c, "TIMEOUT", OutOfRotation(desk[open[c]]))
    /\ UNCHANGED <<pool, patient, ticks, rounds, acw, earlier, wrapups>>

\* expire_offers: nobody answered within the offer timeout.
ExpireOffer(c) ==
    /\ c \in pool
    /\ Reject(c, "TIMEOUT", OutOfRotation(desk[open[c]]))
    /\ UNCHANGED <<pool, patient, ticks, rounds, acw, earlier, wrapups>>

\* presence.sweep: the heartbeat is older than its TTL.
HeartbeatExpires(a) == Leaves(a)

-----------------------------------------------------------------------------
Next ==
    \/ \E c \in Calls :
          \/ Arrive(c) \/ WaitGrows(c) \/ HangUp(c)
          \/ Accept(c) \/ AgentEnds(c) \/ AgentEndsAgain(c) \/ SaveWrapup(c)
          \/ ExpireOffer(c)
          \/ \E t \in Ticks :
                \/ Admit(c, t) \/ Decline(c, t)
                \/ SkipDecision(t, c) \/ ApplyAllDeclined(t, c) \/ ApplyDeferred(t, c)
                \/ ApplyOffer(t, c) \/ AbortTick(t, c)
    \/ \E a \in Agents :
          \/ SignIn(a) \/ Logout(a) \/ HeartbeatExpires(a)
          \/ \E i \in DeclaredIntents, t \in Ticks : Declare(a, i, t)
    \/ \E t \in Ticks : SweepTick(t)

Spec == Init /\ [][Next]_vars

\* The sweep comes round every second for as long as the process lives: an
\* unanswered offer does time out, waits do grow, a tick does solve.  A tick
\* in flight goes on.  Nothing is assumed of callers and agents.
Fairness ==
    /\ \A c \in Calls : WF_vars(ExpireOffer(c)) /\ WF_vars(WaitGrows(c))
    /\ \A t \in Ticks, c \in Calls :
          WF_vars(\/ SkipDecision(t, c) \/ ApplyAllDeclined(t, c) \/ ApplyDeferred(t, c)
                  \/ ApplyOffer(t, c) \/ AbortTick(t, c))
    /\ SF_vars(\E t \in Ticks : SweepTick(t))

FairSpec == Spec /\ Fairness

-----------------------------------------------------------------------------
(* Safety, whatever the desks do and however many ticks are in flight.     *)

\* The open-offer index, the assignments and the call's own state never
\* disagree about who is being rung, across ticks, timeouts, refusals and
\* hang-ups: one desk at a time per caller, and only while the call says
\* OFFERED (AssignmentService.offer, _store, _require_open).
OneRingPerCaller ==
    \A c \in Calls :
        /\ \A a \in Agents : outcome[c][a] = "PENDING" <=> open[c] = a
        /\ state[c] = "OFFERED" <=> open[c] # NoAgent

\* A caller is taken by one agent, once: a timed-out, refused or cancelled
\* offer can never be accepted after another desk took the call, and a call
\* that was taken is exactly one in conversation or beyond (B28, D52).
AnsweredOnce ==
    \A c \in Calls :
        /\ \A a, b \in Agents : Accepted(c, a) /\ Accepted(c, b) => a = b
        /\ (\E a \in Agents : Accepted(c, a)) <=> state[c] \in {"IN_CALL", "WRAP_UP", "CLOSED"}

\* The waiting pool is exactly the callers still owed a desk: nobody who is
\* waiting is forgotten, nobody who rang off or was answered is still routed
\* (D78, B38: "a projection that nothing updates").
PoolIsWhoWaits ==
    \A c \in Calls : c \in pool <=> state[c] \in {"MATCHED", "OFFERED"}

\* No desk is left ringing for nobody (B7): OFFERING means that some caller's
\* offer is pending at that very desk.
NoGhostRing ==
    \A a \in Agents : desk[a].system = "OFFERING" => \E c \in Calls : open[c] = a

\* The ticks in flight that decided, and have yet to apply, that a rings for c.
AboutToAsk(c, a) == {t \in Ticks : ticks[t][c] = a}

\* A refusal, or an offer left to ring out, is heard by every tick that starts
\* after it, until the caller's next round (D52, dispatch.tick).  Ticks already
\* under way may still ring the desk that has just refused, but each of them at
\* most once, and the tick that rang it is not among them: of N ticks in flight
\* N - 1 may ask again, and none if there is one.
RefusalIsHeard ==
    [][\A c \in Calls : \A a \in excluded'[c] :
          IF a \in excluded[c]
          THEN /\ AboutToAsk(c, a)' \subseteq AboutToAsk(c, a)
               /\ open[c] # a /\ open'[c] = a => AboutToAsk(c, a)' # AboutToAsk(c, a)
          ELSE AboutToAsk(c, a)' # Ticks]_vars

-----------------------------------------------------------------------------
(* Safety of one orderly floor: one tick at a time, nobody signs in over a *)
(* live desk or walks off while ringing.                                   *)

\* A desk has at most one caller, ringing or talking (B25: "one desk collects
\* every waiting caller" is the failure).
OneCallerPerDesk ==
    \A a \in Agents :
        \A c, d \in Calls :
            /\ open[c] = a \/ (Accepted(c, a) /\ state[c] = "IN_CALL")
            /\ open[d] = a \/ (Accepted(d, a) /\ state[d] = "IN_CALL")
            => c = d

\* Presence never lies about a call, and no desk has two.  The desk of a call in
\* progress is ON_CALL with a load of one, and a desk that is ON_CALL has such a
\* call (B34, sign_out); the ACW clock runs exactly while the desk is in
\* AFTER_CALL_WORK, and then one call that this agent took is waiting to be
\* closed out (D45).
PresenceMatchesCalls ==
    /\ OneCallerPerDesk
    /\ \A a \in Agents :
           /\ desk[a].system = "ON_CALL" <=>
                 \E c \in Calls : Accepted(c, a) /\ state[c] = "IN_CALL"
           /\ desk[a].load = Cardinality({c \in Calls : Accepted(c, a) /\ state[c] = "IN_CALL"})
           /\ desk[a].clock <=> desk[a].system = "AFTER_CALL_WORK"
           /\ desk[a].clock => Cardinality(LatestWrapping(a)) = 1

-----------------------------------------------------------------------------
(* Liveness under the sweep.                                               *)

\* B7: an offer never rings for ever.
EveryRingEnds == \A c \in Calls : open[c] # NoAgent ~> open[c] = NoAgent

\* A caller is never left waiting beside a free desk that may take them, not
\* even by deferral, stale decisions or ticks that abort.
FreeDeskIsRung ==
    \A c \in Calls, a \in Agents :
        ~<>[](c \in Waiting /\ Feasible(c, a))

\* D113: "exhausted" does not last; the caller goes round the floor again.
GoesRoundAgain ==
    \A c \in Calls : ~<>[](c \in Waiting /\ Exhausted(c))

-----------------------------------------------------------------------------
(* What the caller is promised, and how this state keeps it.               *)

CallerPhase(s) ==
    CASE s \in {"INTENT_CREATED", "CONNECTING", "IVR", "QUEUED", "INTAKE_ACTIVE",
                "INTAKE_COMPLETE"} -> "arriving"
      [] s = "MATCHED" -> "waiting"
      [] s = "OFFERED" -> "ringing"
      [] s = "IN_CALL" -> "talking"
      [] s = "WRAP_UP" -> "filing"
      [] s = "CLOSED" -> "filed"
      [] OTHER -> "gone"

CallerDesk(c) ==
    IF \E a \in Agents : Accepted(c, a)
    THEN CHOOSE a \in Agents : Accepted(c, a)
    ELSE open[c]

Promise == INSTANCE CallerService WITH
    phase <- [c \in Calls |-> CallerPhase(state[c])],
    with <- [c \in Calls |-> CallerDesk(c)]

\* Every step of the handshake is a step of what the caller is promised.
KeepsPromise == Promise!Spec
=============================================================================
