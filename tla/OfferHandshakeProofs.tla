------------------------ MODULE OfferHandshakeProofs ------------------------
(***************************************************************************)
(* What OfferHandshake guarantees on every floor: any number of callers,   *)
(* agents and ticks in flight, any skills, caps, intents and habits.       *)
(*                                                                         *)
(* Ring, the conjunction of the typing invariant with the four safety      *)
(* invariants of the handshake, is inductive: none of them is by itself.   *)
(* OneRingPerCaller says which state an open offer implies, which decides  *)
(* who may be in the pool and whether somebody has already accepted, and   *)
(* AnsweredOnce says that a call which is being rung is nobody's yet.      *)
(*                                                                         *)
(* The second half is about an orderly floor: one tick is in flight at a   *)
(* time, and nobody signs in over a live desk, walks off while ringing or  *)
(* ends a call twice.  PresenceMatchesCalls is not inductive there: a tick *)
(* decides on the presence of the moment it starts in, and its decisions   *)
(* are applied later.  Floor adds what keeps them good: a desk with a      *)
(* decision pending is still free or has left, no other caller is promised *)
(* it, and the caller is neither ringing nor has refused it.               *)
(*                                                                         *)
(* The last part is about refusals, on every floor again: how many of the  *)
(* ticks in flight can overlook one.                                       *)
(***************************************************************************)
EXTENDS OfferHandshake, FiniteSetTheorems, TLAPS

Ring ==
    /\ TypeOK
    /\ OneRingPerCaller
    /\ AnsweredOnce
    /\ PoolIsWhoWaits
    /\ NoGhostRing

-----------------------------------------------------------------------------
(* The operators the model is built from.                                  *)

\* Where machine.TRANSITIONS lets a call come from, for each place the
\* handshake moves it to.
LEMMA ComesFrom ==
    ASSUME NEW s \in CallState
    PROVE  /\ CanMove(s, "OFFERED") => s = "MATCHED"
           /\ CanMove(s, "IN_CALL") => s = "OFFERED"
           /\ CanMove(s, "WRAP_UP") => s = "IN_CALL"
           /\ CanMove(s, "CLOSED") => s = "WRAP_UP"
           /\ CanMove(s, "ABANDONED") =>
                 s \in {"CONNECTING", "IVR", "QUEUED", "INTAKE_ACTIVE",
                        "INTAKE_COMPLETE", "MATCHED", "OFFERED"}
  BY DEF CanMove, Transitions, CallState

\* Each operation of PresenceService leaves a well-typed desk, and only
\* begin_offer leaves a ringing one.
LEMMA DeskOperations ==
    ASSUME NEW d \in Desk, NEW i \in AgentIntent
    PROVE  /\ SignedIn(d) \in Desk /\ SignedIn(d).system = "AVAILABLE"
           /\ Gone(d) \in Desk /\ Gone(d).system = "OFFLINE"
           /\ Declared(d, i) \in Desk
           /\ Declared(d, i).system = "OFFERING" => d.system = "OFFERING"
           /\ Rung(d) \in Desk
           /\ Talking(d) \in Desk /\ Talking(d).system = "ON_CALL"
           /\ AfterCall(d) \in Desk /\ AfterCall(d).system = "AFTER_CALL_WORK"
           /\ Released(d) \in Desk /\ Released(d).system = "AVAILABLE"
           /\ OutOfRotation(d) \in Desk /\ OutOfRotation(d).system = "AVAILABLE"
  <1> USE DEF Desk, SystemState, AgentIntent
  <1>1. SignedIn(d) \in Desk /\ SignedIn(d).system = "AVAILABLE"
    BY DEF SignedIn
  <1>2. Gone(d) \in Desk /\ Gone(d).system = "OFFLINE"
    BY DEF Gone
  <1>3. Declared(d, i) \in Desk /\ (Declared(d, i).system = "OFFERING" => d.system = "OFFERING")
    BY DEF Declared
  <1>4. Rung(d) \in Desk
    BY DEF Rung
  <1>5. Talking(d) \in Desk /\ Talking(d).system = "ON_CALL"
    <2>1. d.load + 1 \in Nat
      OBVIOUS
    <2>2. Talking(d) = [d EXCEPT !.system = "ON_CALL", !.load = d.load + 1]
      BY DEF Talking
    <2> QED BY <2>1, <2>2, Zenon
  <1>6. AfterCall(d) \in Desk /\ AfterCall(d).system = "AFTER_CALL_WORK"
    <2> DEFINE load == IF d.load > 0 THEN d.load - 1 ELSE 0
               intent == IF d.intent = "LAST_CALL" THEN "NOT_READY" ELSE d.intent
    <2>1. load \in Nat /\ intent \in AgentIntent
      OBVIOUS
    <2>2. AfterCall(d) = [d EXCEPT !.system = "AFTER_CALL_WORK", !.clock = TRUE,
                                   !.load = load, !.intent = intent]
      BY Zenon DEF AfterCall
    <2> HIDE DEF load, intent
    <2> QED BY <2>1, <2>2
  <1>7. Released(d) \in Desk /\ Released(d).system = "AVAILABLE"
    BY DEF Released
  <1>8. OutOfRotation(d) \in Desk /\ OutOfRotation(d).system = "AVAILABLE"
    BY DEF OutOfRotation
  <1> QED BY <1>1, <1>2, <1>3, <1>4, <1>5, <1>6, <1>7, <1>8

\* What a solve decides is a decision per call.
LEMMA DecisionsTyped == Decisions \subseteq [Calls -> Decision]
  BY DEF Decisions, Matching, Decision

LEMMA StartTickTyped ==
    ASSUME NEW t \in Ticks, ticks \in [Ticks -> [Calls -> Decision]], StartTick(t)
    PROVE  ticks' \in [Ticks -> [Calls -> Decision]]
  <1>1. PICK d \in Decisions' : ticks' = [ticks EXCEPT ![t] = d]
    BY DEF StartTick
  <1>2. Decisions' \subseteq [Calls -> Decision]
    BY DEF Decisions, Matching, Decision
  <1> QED BY <1>1, <1>2

-----------------------------------------------------------------------------
(* Typing.                                                                 *)

LEMMA MoveTyped ==
    ASSUME NEW c \in Calls, NEW to \in CallState,
           state \in [Calls -> CallState], Move(c, to)
    PROVE  state' \in [Calls -> CallState]
  BY DEF Move

LEMMA StampTyped ==
    ASSUME NEW c \in Calls, acw \in [Calls -> Acw], earlier \in [Calls -> SUBSET Calls],
           StampAcwStart(c)
    PROVE  acw' \in [Calls -> Acw] /\ earlier' \in [Calls -> SUBSET Calls]
  BY DEF StampAcwStart, Acw

LEMMA EndCallTyped ==
    ASSUME NEW c \in Calls, NEW a \in Agents, TypeOK, EndCall(c, a)
    PROVE  /\ state' \in [Calls -> CallState]
           /\ acw' \in [Calls -> Acw]
           /\ earlier' \in [Calls -> SUBSET Calls]
           /\ desk' \in [Agents -> Desk]
  <1> USE DEF TypeOK, EndCall
  <1>1. state' \in [Calls -> CallState]
    <2>1. "WRAP_UP" \in CallState
      BY DEF CallState
    <2> QED BY <2>1, MoveTyped
  <1>2. acw' \in [Calls -> Acw] /\ earlier' \in [Calls -> SUBSET Calls]
    BY StampTyped
  <1>3. AfterCall(desk[a]) \in Desk
    <2>1. desk[a] \in Desk /\ "READY" \in AgentIntent
      BY DEF AgentIntent
    <2> QED BY <2>1, DeskOperations
  <1> QED BY <1>1, <1>2, <1>3

LEMMA RejectTyped ==
    ASSUME NEW c \in Calls, NEW result \in Outcome, NEW after \in Desk, TypeOK,
           Reject(c, result, after)
    PROVE  /\ open[c] \in Agents
           /\ state' \in [Calls -> CallState]
           /\ outcome' \in [Calls -> [Agents -> Outcome]]
           /\ open' \in [Calls -> Agents \cup {NoAgent}]
           /\ excluded' \in [Calls -> SUBSET Agents]
           /\ desk' \in [Agents -> Desk]
  <1> USE DEF TypeOK, Reject, Close
  <1>1. open[c] \in Agents
    OBVIOUS
  <1>2. state' \in [Calls -> CallState]
    <2>1. "MATCHED" \in CallState
      BY DEF CallState
    <2> QED BY <2>1, MoveTyped
  <1> QED BY <1>1, <1>2

LEMMA TypeStep == TypeOK /\ [Next]_vars => TypeOK'
  <1> SUFFICES ASSUME TypeOK, [Next]_vars
               PROVE  TypeOK'
    OBVIOUS
  <1> USE DEF TypeOK
  <1>a. \A a \in Agents, i \in AgentIntent :
          /\ desk[a] \in Desk
          /\ SignedIn(desk[a]) \in Desk
          /\ Gone(desk[a]) \in Desk
          /\ Declared(desk[a], i) \in Desk
          /\ Rung(desk[a]) \in Desk
          /\ Talking(desk[a]) \in Desk
          /\ Released(desk[a]) \in Desk
          /\ OutOfRotation(desk[a]) \in Desk
    BY DeskOperations
  <1>b. /\ {"OFFERED", "MATCHED", "ABANDONED", "IN_CALL", "CLOSED"} \subseteq CallState
        /\ {"PENDING", "ACCEPTED", "DECLINED", "TIMEOUT", "CANCELLED"} \subseteq Outcome
        /\ "READY" \in AgentIntent
    BY DEF CallState, Outcome, AgentIntent
  <1>c. DeclaredIntents \subseteq AgentIntent
    BY ConstantsAssumption DEF Declarable
  <1>1. ASSUME NEW c \in Calls, Arrive(c)
        PROVE  TypeOK'
    <2>1. PICK step \in ArrivalSteps : Move(c, step[2])
      BY <1>1 DEF Arrive
    <2>2. step[2] \in CallState
      BY DEF ArrivalSteps, CallState
    <2>3. state' \in [Calls -> CallState]
      BY <2>1, <2>2, MoveTyped
    <2> QED BY <1>1, <2>3 DEF Arrive
  <1>2. ASSUME NEW c \in Calls, WaitGrows(c)
        PROVE  TypeOK'
    BY <1>2 DEF WaitGrows
  <1>3. ASSUME NEW c \in Calls, HangUpInCall(c)
        PROVE  TypeOK'
    <2>1. PICK a \in Agents : EndCall(c, a)
      BY <1>3 DEF HangUpInCall
    <2>2. /\ state' \in [Calls -> CallState]
          /\ acw' \in [Calls -> Acw]
          /\ earlier' \in [Calls -> SUBSET Calls]
          /\ desk' \in [Agents -> Desk]
      BY <2>1, EndCallTyped
    <2> QED BY <1>3, <2>2 DEF HangUpInCall
  <1>4. ASSUME NEW c \in Calls, HangUpRinging(c)
        PROVE  TypeOK'
    <2>1. state' \in [Calls -> CallState]
      BY <1>4, <1>b, MoveTyped DEF HangUpRinging
    <2>2. open[c] \in Agents
      BY <1>4 DEF HangUpRinging
    <2>3. outcome' \in [Calls -> [Agents -> Outcome]] /\ open' \in [Calls -> Agents \cup {NoAgent}]
      BY <1>4, <1>b, <2>2 DEF HangUpRinging, Close
    <2>4. desk' \in [Agents -> Desk]
      BY <1>4, <1>a, <1>b, <2>2 DEF HangUpRinging
    <2> QED BY <1>4, <2>1, <2>3, <2>4 DEF HangUpRinging
  <1>5. ASSUME NEW c \in Calls, HangUpWaiting(c)
        PROVE  TypeOK'
    <2>1. state' \in [Calls -> CallState]
      BY <1>5, <1>b, MoveTyped DEF HangUpWaiting
    <2> QED BY <1>5, <2>1 DEF HangUpWaiting
  <1>6. ASSUME NEW c \in Calls, Accept(c)
        PROVE  TypeOK'
    <2>1. state' \in [Calls -> CallState]
      BY <1>6, <1>b, MoveTyped DEF Accept
    <2>2. open[c] \in Agents
      BY <1>6 DEF Accept
    <2>3. outcome' \in [Calls -> [Agents -> Outcome]] /\ open' \in [Calls -> Agents \cup {NoAgent}]
      BY <1>6, <1>b, <2>2 DEF Accept, Close
    <2>4. desk' \in [Agents -> Desk]
      BY <1>6, <1>a, <1>b, <2>2 DEF Accept
    <2> QED BY <1>6, <2>1, <2>3, <2>4 DEF Accept
  <1>7. ASSUME NEW c \in Calls, AgentEnds(c)
        PROVE  TypeOK'
    <2>1. PICK a \in Agents : EndCall(c, a)
      BY <1>7 DEF AgentEnds
    <2>2. /\ state' \in [Calls -> CallState]
          /\ acw' \in [Calls -> Acw]
          /\ earlier' \in [Calls -> SUBSET Calls]
          /\ desk' \in [Agents -> Desk]
      BY <2>1, EndCallTyped
    <2> QED BY <1>7, <2>2 DEF AgentEnds
  <1>8. ASSUME NEW c \in Calls, AgentEndsAgain(c)
        PROVE  TypeOK'
    <2>1. acw' \in [Calls -> Acw] /\ earlier' \in [Calls -> SUBSET Calls]
      BY <1>8, StampTyped DEF AgentEndsAgain
    <2> QED BY <1>8, <2>1 DEF AgentEndsAgain
  <1>9. ASSUME NEW c \in Calls, SaveWrapup(c)
        PROVE  TypeOK'
    <2>1. state' \in [Calls -> CallState]
      BY <1>9, <1>b, MoveTyped DEF SaveWrapup
    <2> QED BY <1>9, <2>1 DEF SaveWrapup
  <1>10. ASSUME NEW c \in Calls, ExpireOffer(c)
         PROVE  TypeOK'
    <2>1. open[c] \in Agents
      BY <1>10 DEF ExpireOffer, Reject
    <2>2. /\ state' \in [Calls -> CallState]
          /\ outcome' \in [Calls -> [Agents -> Outcome]]
          /\ open' \in [Calls -> Agents \cup {NoAgent}]
          /\ excluded' \in [Calls -> SUBSET Agents]
          /\ desk' \in [Agents -> Desk]
      BY <1>10, <1>a, <1>b, <2>1, RejectTyped DEF ExpireOffer
    <2> QED BY <1>10, <2>2 DEF ExpireOffer
  <1>11. ASSUME NEW c \in Calls, NEW t \in Ticks, Admit(c, t)
         PROVE  TypeOK'
    <2>1. state' \in [Calls -> CallState]
      BY <1>11, <1>b, MoveTyped DEF Admit
    <2>2. ticks' \in [Ticks -> [Calls -> Decision]]
      BY <1>11, StartTickTyped DEF Admit
    <2> QED BY <1>11, <2>1, <2>2 DEF Admit
  <1>12. ASSUME NEW c \in Calls, NEW t \in Ticks, Decline(c, t)
         PROVE  TypeOK'
    <2>1. open[c] \in Agents
      BY <1>12 DEF Decline, Reject
    <2>2. /\ state' \in [Calls -> CallState]
          /\ outcome' \in [Calls -> [Agents -> Outcome]]
          /\ open' \in [Calls -> Agents \cup {NoAgent}]
          /\ excluded' \in [Calls -> SUBSET Agents]
          /\ desk' \in [Agents -> Desk]
      <3>1. CASE Reject(c, "DECLINED", Released(desk[open[c]]))
        BY <3>1, <1>a, <1>b, <2>1, RejectTyped
      <3>2. CASE Reject(c, "DECLINED", OutOfRotation(desk[open[c]]))
        BY <3>2, <1>a, <1>b, <2>1, RejectTyped
      <3> QED BY <1>12, <3>1, <3>2 DEF Decline
    <2>3. ticks' \in [Ticks -> [Calls -> Decision]]
      BY <1>12, StartTickTyped DEF Decline
    <2> QED BY <1>12, <2>2, <2>3 DEF Decline
  <1>13. ASSUME NEW c \in Calls, NEW t \in Ticks,
                \/ SkipDecision(t, c) \/ ApplyDeferred(t, c) \/ AbortTick(t, c)
         PROVE  TypeOK'
    <2>1. ticks' \in [Ticks -> [Calls -> Decision]]
      <3>1. CASE Applied(t, c)
        BY <3>1 DEF Applied, Decision
      <3>2. CASE ticks' = [ticks EXCEPT ![t] = NothingToApply]
        BY <3>2 DEF NothingToApply, Decision
      <3> QED BY <1>13, <3>1, <3>2 DEF SkipDecision, ApplyDeferred, AbortTick
    <2> QED BY <1>13, <2>1 DEF SkipDecision, ApplyDeferred, AbortTick
  <1>14. ASSUME NEW c \in Calls, NEW t \in Ticks, ApplyAllDeclined(t, c)
         PROVE  TypeOK'
    <2>1. ticks' \in [Ticks -> [Calls -> Decision]]
      BY <1>14 DEF ApplyAllDeclined, Applied, Decision
    <2>2. excluded' \in [Calls -> SUBSET Agents] /\ rounds' \in [Calls -> 1 .. RoundBound]
      <3>1. CASE UNCHANGED <<excluded, rounds>>
        BY <3>1
      <3>2. CASE /\ excluded' = [excluded EXCEPT ![c] = {}]
                 /\ rounds' = [rounds EXCEPT ![c] = IF @ < RoundBound THEN @ + 1 ELSE @]
        BY <3>2, ConstantsAssumption
      <3> QED BY <1>14, <3>1, <3>2 DEF ApplyAllDeclined, CircleBack
    <2> QED BY <1>14, <2>1, <2>2 DEF ApplyAllDeclined
  <1>15. ASSUME NEW c \in Calls, NEW t \in Ticks, ApplyOffer(t, c)
         PROVE  TypeOK'
    <2> DEFINE a == ticks[t][c]
    <2>1. a \in Agents
      BY <1>15 DEF ApplyOffer
    <2>2. ticks' \in [Ticks -> [Calls -> Decision]]
      BY <1>15 DEF ApplyOffer, Applied, Decision
    <2>3. state' \in [Calls -> CallState]
      BY <1>15, <1>b, MoveTyped DEF ApplyOffer, Offer
    <2>4. /\ outcome' \in [Calls -> [Agents -> Outcome]]
          /\ open' \in [Calls -> Agents \cup {NoAgent}]
          /\ desk' \in [Agents -> Desk]
      BY <1>15, <1>a, <1>b, <2>1 DEF ApplyOffer, Offer
    <2> QED BY <1>15, <2>2, <2>3, <2>4 DEF ApplyOffer
  <1>16. ASSUME NEW a \in Agents, SignIn(a)
         PROVE  TypeOK'
    BY <1>16, <1>a, <1>b DEF SignIn
  <1>17. ASSUME NEW a \in Agents, Logout(a) \/ HeartbeatExpires(a)
         PROVE  TypeOK'
    BY <1>17, <1>a, <1>b DEF Logout, HeartbeatExpires, Leaves
  <1>18. ASSUME NEW a \in Agents, NEW i \in DeclaredIntents, NEW t \in Ticks,
                Declare(a, i, t)
         PROVE  TypeOK'
    <2>1. ticks' \in [Ticks -> [Calls -> Decision]]
      BY <1>18, StartTickTyped DEF Declare
    <2>2. desk' \in [Agents -> Desk]
      BY <1>18, <1>a, <1>c DEF Declare
    <2>3. acw' \in [Calls -> Acw] /\ state' \in [Calls -> CallState]
      BY <1>18, <1>b DEF Declare, Acw
    <2> QED BY <1>18, <2>1, <2>2, <2>3 DEF Declare
  <1>19. ASSUME NEW t \in Ticks, SweepTick(t)
         PROVE  TypeOK'
    <2>1. ticks' \in [Ticks -> [Calls -> Decision]]
      BY <1>19, StartTickTyped DEF SweepTick
    <2> QED BY <1>19, <2>1 DEF SweepTick
  <1>20. CASE UNCHANGED vars
    BY <1>20 DEF vars
  <1> QED
    BY <1>1, <1>2, <1>3, <1>4, <1>5, <1>6, <1>7, <1>8, <1>9, <1>10, <1>11, <1>12,
       <1>13, <1>14, <1>15, <1>16, <1>17, <1>18, <1>19, <1>20
    DEF Next, HangUp

-----------------------------------------------------------------------------
(* The handshake.                                                          *)

Ringing(c) ==
    /\ open[c] \in Agents
    /\ state[c] = "OFFERED"
    /\ c \in pool
    /\ \A b \in Agents : outcome[c][b] # "ACCEPTED"

\* What the invariants say together of a call whose offer is open.
LEMMA OpenOffer ==
    ASSUME Ring, NEW c \in Calls, open[c] # NoAgent
    PROVE  Ringing(c)
  <1>1. open[c] \in Agents /\ state[c] = "OFFERED"
    BY DEF Ring, TypeOK, OneRingPerCaller
  <1>2. c \in pool
    BY <1>1 DEF Ring, PoolIsWhoWaits
  <1>3. \A b \in Agents : outcome[c][b] # "ACCEPTED"
    BY <1>1 DEF Ring, AnsweredOnce, Accepted
  <1> QED BY <1>1, <1>2, <1>3 DEF Ringing

\* Accepting, refusing, timing out and cancelling: an open offer of c is
\* resolved, its desk stops ringing, and the call moves on with the pool.
LEMMA OfferResolved ==
    ASSUME Ring, TypeOK', NEW c \in Calls, NEW result \in Outcome \ {"PENDING"},
           NEW to \in CallState \ {"OFFERED"}, open[c] # NoAgent,
           Close(c, open[c], result),
           state' = [state EXCEPT ![c] = to],
           pool' = IF to = "MATCHED" THEN pool ELSE pool \ {c},
           result = "ACCEPTED" <=> to \in {"IN_CALL", "WRAP_UP", "CLOSED"},
           \A a \in Agents \ {open[c]} : desk'[a] = desk[a],
           desk'[open[c]].system # "OFFERING"
    PROVE  Ring'
  <1>1. Ringing(c)
    BY OpenOffer
  <1> DEFINE r == open[c]
  <1>2. /\ outcome'[c][r] = result /\ open'[c] = NoAgent /\ state'[c] = to
        /\ \A b \in Agents \ {r} : outcome'[c][b] = outcome[c][b]
        /\ \A d \in Calls \ {c} : /\ outcome'[d] = outcome[d]
                                  /\ open'[d] = open[d]
                                  /\ state'[d] = state[d]
    BY <1>1 DEF Ring, TypeOK, Close, Ringing
  <1>3. OneRingPerCaller'
    BY <1>1, <1>2, ConstantsAssumption DEF Ring, OneRingPerCaller, Ringing
  <1>4. AnsweredOnce'
    BY <1>1, <1>2 DEF Ring, AnsweredOnce, Accepted, Ringing
  <1>5. PoolIsWhoWaits'
    BY <1>1, <1>2 DEF Ring, PoolIsWhoWaits, Ringing
  <1>6. NoGhostRing'
    BY <1>1, <1>2 DEF Ring, NoGhostRing, Ringing
  <1> QED BY <1>3, <1>4, <1>5, <1>6 DEF Ring

\* A call that is neither rung nor waiting, before or after, moves on; no
\* desk starts to ring.
LEMMA CallMovesOn ==
    ASSUME Ring, TypeOK', NEW c \in Calls, NEW to \in CallState \ {"OFFERED"},
           state[c] # "OFFERED",
           state' = [state EXCEPT ![c] = to],
           pool' = IF to = "MATCHED" THEN pool \cup {c} ELSE pool \ {c},
           state[c] \in {"IN_CALL", "WRAP_UP", "CLOSED"} <=>
              to \in {"IN_CALL", "WRAP_UP", "CLOSED"},
           UNCHANGED <<outcome, open>>,
           \A a \in Agents : desk'[a].system = "OFFERING" => desk[a].system = "OFFERING"
    PROVE  Ring'
  <1>1. state'[c] = to /\ \A d \in Calls \ {c} : state'[d] = state[d]
    BY DEF Ring, TypeOK
  <1>2. OneRingPerCaller'
    BY <1>1 DEF Ring, OneRingPerCaller
  <1>3. AnsweredOnce'
    BY <1>1 DEF Ring, AnsweredOnce, Accepted
  <1>4. PoolIsWhoWaits'
    BY <1>1 DEF Ring, PoolIsWhoWaits
  <1>5. NoGhostRing'
    BY DEF Ring, NoGhostRing
  <1> QED BY <1>2, <1>3, <1>4, <1>5 DEF Ring

\* Only desks change, and none starts to ring.
LEMMA DesksOnly ==
    ASSUME Ring, TypeOK', UNCHANGED <<state, pool, outcome, open>>,
           \A a \in Agents : desk'[a].system = "OFFERING" => desk[a].system = "OFFERING"
    PROVE  Ring'
  <1>1. OneRingPerCaller' /\ PoolIsWhoWaits'
    BY DEF Ring, OneRingPerCaller, PoolIsWhoWaits
  <1>2. AnsweredOnce'
    BY DEF Ring, AnsweredOnce, Accepted
  <1>3. NoGhostRing'
    BY DEF Ring, NoGhostRing
  <1> QED BY <1>1, <1>2, <1>3 DEF Ring

\* An agent's call ends: the one that has been accepted.
LEMMA EndCallKeepsRing ==
    ASSUME Ring, TypeOK', NEW c \in Calls, NEW a \in Agents, EndCall(c, a),
           pool' = pool \ {c}, UNCHANGED <<outcome, open>>
    PROVE  Ring'
  <1>1. state[c] = "IN_CALL" /\ state' = [state EXCEPT ![c] = "WRAP_UP"]
    BY ComesFrom DEF EndCall, Move, Ring, TypeOK
  <1>2. "WRAP_UP" \in CallState \ {"OFFERED"}
    BY DEF CallState
  <1>3. \A b \in Agents : desk'[b].system = "OFFERING" => desk[b].system = "OFFERING"
    <2>1. desk[a] \in Desk /\ "READY" \in AgentIntent
      BY DEF Ring, TypeOK, AgentIntent
    <2>2. AfterCall(desk[a]).system = "AFTER_CALL_WORK"
      BY <2>1, DeskOperations
    <2> QED BY <2>2 DEF EndCall, Ring, TypeOK
  <1> QED BY <1>1, <1>2, <1>3, CallMovesOn

LEMMA RejectKeepsRing ==
    ASSUME Ring, TypeOK', NEW c \in Calls, NEW result \in Outcome \ {"PENDING", "ACCEPTED"},
           NEW after \in Desk, after.system = "AVAILABLE", Reject(c, result, after),
           UNCHANGED pool
    PROVE  Ring'
  <1>1. "MATCHED" \in CallState \ {"OFFERED"}
    BY DEF CallState
  <1>2. Ringing(c)
    BY OpenOffer DEF Reject
  <1>3. desk'[open[c]] = after /\ \A b \in Agents \ {open[c]} : desk'[b] = desk[b]
    BY <1>2 DEF Reject, Ringing, Ring, TypeOK
  <1>4. state' = [state EXCEPT ![c] = "MATCHED"]
    BY DEF Reject, Move
  <1> QED BY <1>1, <1>3, <1>4, OfferResolved DEF Reject

LEMMA RingStep == Ring /\ [Next]_vars => Ring'
  <1> SUFFICES ASSUME Ring, [Next]_vars
               PROVE  Ring'
    OBVIOUS
  <1>t. TypeOK /\ TypeOK'
    BY TypeStep DEF Ring
  <1>a. \A a \in Agents, i \in AgentIntent :
          /\ SignedIn(desk[a]).system = "AVAILABLE"
          /\ Gone(desk[a]).system = "OFFLINE"
          /\ Declared(desk[a], i).system = "OFFERING" => desk[a].system = "OFFERING"
          /\ Talking(desk[a]).system = "ON_CALL"
          /\ Released(desk[a]) \in Desk /\ Released(desk[a]).system = "AVAILABLE"
          /\ OutOfRotation(desk[a]) \in Desk /\ OutOfRotation(desk[a]).system = "AVAILABLE"
    BY <1>t, DeskOperations DEF TypeOK
  <1>b. /\ {"MATCHED", "ABANDONED", "IN_CALL", "CLOSED"} \subseteq CallState \ {"OFFERED"}
        /\ {"ACCEPTED", "DECLINED", "TIMEOUT", "CANCELLED"} \subseteq Outcome \ {"PENDING"}
        /\ "READY" \in AgentIntent
    BY DEF CallState, Outcome, AgentIntent
  <1>1. ASSUME NEW c \in Calls, Arrive(c)
        PROVE  Ring'
    <2>1. PICK step \in ArrivalSteps : state[c] = step[1] /\ Move(c, step[2])
      BY <1>1 DEF Arrive
    <2>2. /\ step[2] \in CallState \ {"OFFERED", "MATCHED", "IN_CALL", "WRAP_UP", "CLOSED"}
          /\ step[1] \notin {"OFFERED", "MATCHED", "IN_CALL", "WRAP_UP", "CLOSED"}
      BY DEF ArrivalSteps, CallState
    <2>3. c \notin pool
      BY <2>1, <2>2 DEF Ring, PoolIsWhoWaits
    <2>4. /\ state' = [state EXCEPT ![c] = step[2]]
          /\ pool' = IF step[2] = "MATCHED" THEN pool \cup {c} ELSE pool \ {c}
      BY <1>1, <2>1, <2>2, <2>3 DEF Arrive, Move
    <2>5. \A b \in Agents : desk'[b].system = "OFFERING" => desk[b].system = "OFFERING"
      BY <1>1 DEF Arrive
    <2>6. UNCHANGED <<outcome, open>>
      BY <1>1 DEF Arrive
    <2> QED BY <1>t, <2>1, <2>2, <2>4, <2>5, <2>6, CallMovesOn
  <1>2. ASSUME NEW c \in Calls, HangUpInCall(c)
        PROVE  Ring'
    <2>1. PICK a \in Agents : EndCall(c, a)
      BY <1>2 DEF HangUpInCall
    <2> QED BY <1>t, <1>2, <2>1, EndCallKeepsRing DEF HangUpInCall
  <1>3. ASSUME NEW c \in Calls, HangUpRinging(c)
        PROVE  Ring'
    <2>1. Ringing(c)
      BY <1>3, OpenOffer DEF HangUpRinging
    <2>2. desk'[open[c]].system # "OFFERING" /\ \A b \in Agents \ {open[c]} : desk'[b] = desk[b]
      BY <1>3, <1>t, <1>a, <1>b, <2>1 DEF HangUpRinging, Ringing, TypeOK
    <2>3. state' = [state EXCEPT ![c] = "ABANDONED"] /\ pool' = pool \ {c}
      BY <1>3 DEF HangUpRinging, Move
    <2>4. open[c] # NoAgent /\ Close(c, open[c], "CANCELLED")
      BY <1>3 DEF HangUpRinging
    <2> QED BY <1>t, <1>b, <2>2, <2>3, <2>4, OfferResolved
  <1>4. ASSUME NEW c \in Calls, HangUpWaiting(c)
        PROVE  Ring'
    <2>1. state' = [state EXCEPT ![c] = "ABANDONED"] /\ state[c] # "OFFERED"
      BY <1>4 DEF HangUpWaiting, Move, Ring, OneRingPerCaller
    <2>2. state[c] \notin {"IN_CALL", "WRAP_UP", "CLOSED"}
      BY <1>4 DEF HangUpWaiting, Ring, AnsweredOnce
    <2>3. /\ pool' = pool \ {c}
          /\ UNCHANGED <<outcome, open>>
          /\ \A b \in Agents : desk'[b].system = "OFFERING" => desk[b].system = "OFFERING"
      BY <1>4 DEF HangUpWaiting
    <2> QED BY <1>t, <1>b, <2>1, <2>2, <2>3, CallMovesOn
  <1>5. ASSUME NEW c \in Calls, Accept(c)
        PROVE  Ring'
    <2>1. Ringing(c)
      BY <1>5, OpenOffer DEF Accept
    <2>2. desk'[open[c]].system # "OFFERING" /\ \A b \in Agents \ {open[c]} : desk'[b] = desk[b]
      BY <1>5, <1>t, <1>a, <1>b, <2>1 DEF Accept, Ringing, TypeOK
    <2>3. state' = [state EXCEPT ![c] = "IN_CALL"] /\ pool' = pool \ {c}
      BY <1>5 DEF Accept, Move
    <2>4. open[c] # NoAgent /\ Close(c, open[c], "ACCEPTED")
      BY <1>5 DEF Accept
    <2> QED BY <1>t, <1>b, <2>2, <2>3, <2>4, OfferResolved
  <1>6. ASSUME NEW c \in Calls, AgentEnds(c)
        PROVE  Ring'
    <2>1. PICK a \in Agents : EndCall(c, a)
      BY <1>6 DEF AgentEnds
    <2>2. c \notin pool
      BY <2>1, ComesFrom DEF EndCall, Move, Ring, TypeOK, PoolIsWhoWaits
    <2>3. pool' = pool \ {c} /\ UNCHANGED <<outcome, open>>
      BY <1>6, <2>2 DEF AgentEnds
    <2> QED BY <1>t, <2>1, <2>3, EndCallKeepsRing
  <1>7. ASSUME NEW c \in Calls, SaveWrapup(c)
        PROVE  Ring'
    <2>1. /\ UNCHANGED <<pool, outcome, open>>
          /\ \A b \in Agents : desk'[b].system = "OFFERING" => desk[b].system = "OFFERING"
      BY <1>7 DEF SaveWrapup
    <2>2. CASE UNCHANGED state
      BY <1>t, <2>1, <2>2, DesksOnly
    <2>3. CASE state[c] = "WRAP_UP" /\ Move(c, "CLOSED")
      <3>1. pool' = pool \ {c}
        BY <2>1, <2>3 DEF Ring, PoolIsWhoWaits
      <3>2. state' = [state EXCEPT ![c] = "CLOSED"]
        BY <2>3 DEF Move
      <3> QED BY <1>t, <1>b, <2>1, <2>3, <3>1, <3>2, CallMovesOn
    <2> QED BY <1>7, <2>2, <2>3 DEF SaveWrapup
  <1>8. ASSUME NEW c \in Calls, ExpireOffer(c)
        PROVE  Ring'
    <2>1. Ringing(c)
      BY <1>8, OpenOffer DEF ExpireOffer, Reject
    <2> QED BY <1>8, <1>t, <1>a, <1>b, <2>1, RejectKeepsRing DEF ExpireOffer, Ringing
  <1>9. ASSUME NEW c \in Calls, NEW t \in Ticks, Admit(c, t)
        PROVE  Ring'
    <2>1. state' = [state EXCEPT ![c] = "MATCHED"] /\ pool' = pool \cup {c}
      BY <1>9 DEF Admit, Move
    <2>2. state[c] \notin {"OFFERED", "IN_CALL", "WRAP_UP", "CLOSED"}
      BY <1>9 DEF Admit
    <2>3. /\ UNCHANGED <<outcome, open>>
          /\ \A b \in Agents : desk'[b].system = "OFFERING" => desk[b].system = "OFFERING"
      BY <1>9 DEF Admit
    <2> QED BY <1>t, <1>b, <2>1, <2>2, <2>3, CallMovesOn
  <1>10. ASSUME NEW c \in Calls, NEW t \in Ticks, Decline(c, t)
         PROVE  Ring'
    <2>1. Ringing(c)
      BY <1>10, OpenOffer DEF Decline, Reject
    <2>2. UNCHANGED pool
      BY <1>10 DEF Decline
    <2>3. CASE Reject(c, "DECLINED", Released(desk[open[c]]))
      BY <2>3, <1>t, <1>a, <1>b, <2>1, <2>2, RejectKeepsRing DEF Ringing
    <2>4. CASE Reject(c, "DECLINED", OutOfRotation(desk[open[c]]))
      BY <2>4, <1>t, <1>a, <1>b, <2>1, <2>2, RejectKeepsRing DEF Ringing
    <2> QED BY <1>10, <2>3, <2>4 DEF Decline
  <1>11. ASSUME NEW c \in Calls, NEW t \in Ticks, ApplyOffer(t, c)
         PROVE  Ring'
    <2> DEFINE a == ticks[t][c]
    <2>1. a \in Agents /\ c \in pool /\ state[c] = "MATCHED" /\ open[c] = NoAgent
      BY <1>11 DEF ApplyOffer
    <2>2. /\ state'[c] = "OFFERED" /\ open'[c] = a /\ outcome'[c][a] = "PENDING"
          /\ \A b \in Agents \ {a} : outcome'[c][b] = outcome[c][b] /\ desk'[b] = desk[b]
          /\ \A d \in Calls \ {c} : /\ outcome'[d] = outcome[d]
                                    /\ open'[d] = open[d]
                                    /\ state'[d] = state[d]
          /\ pool' = pool
      BY <1>11, <1>t, <2>1 DEF ApplyOffer, Offer, Move, TypeOK
    <2>3. OneRingPerCaller'
      BY <2>1, <2>2, ConstantsAssumption DEF Ring, OneRingPerCaller
    <2>4. AnsweredOnce'
      BY <2>1, <2>2 DEF Ring, AnsweredOnce, Accepted
    <2>5. PoolIsWhoWaits'
      BY <2>1, <2>2 DEF Ring, PoolIsWhoWaits
    <2>6. NoGhostRing'
      BY <2>1, <2>2, ConstantsAssumption DEF Ring, NoGhostRing
    <2> QED BY <1>t, <2>3, <2>4, <2>5, <2>6 DEF Ring
  <1>12. ASSUME NEW a \in Agents, SignIn(a) \/ Logout(a) \/ HeartbeatExpires(a)
         PROVE  Ring'
    <2>1. \A b \in Agents : desk'[b].system = "OFFERING" => desk[b].system = "OFFERING"
      BY <1>12, <1>t, <1>a, <1>b DEF SignIn, Logout, HeartbeatExpires, Leaves, TypeOK
    <2>2. UNCHANGED <<state, pool, outcome, open>>
      BY <1>12 DEF SignIn, Logout, HeartbeatExpires, Leaves
    <2> QED BY <1>t, <2>1, <2>2, DesksOnly
  <1>13. ASSUME NEW a \in Agents, NEW i \in DeclaredIntents, NEW t \in Ticks,
                Declare(a, i, t)
         PROVE  Ring'
    <2>1. UNCHANGED <<pool, outcome, open>>
      BY <1>13 DEF Declare
    <2>2. \A c \in Calls : state'[c] # state[c] => state[c] = "WRAP_UP" /\ state'[c] = "CLOSED"
      BY <1>13, <1>t DEF Declare, TypeOK
    <2>3. \A b \in Agents : desk'[b].system = "OFFERING" => desk[b].system = "OFFERING"
      <3>1. i \in AgentIntent
        BY ConstantsAssumption DEF Declarable
      <3> QED BY <1>13, <1>t, <1>a, <3>1 DEF Declare, TypeOK
    <2>4. OneRingPerCaller'
      BY <2>1, <2>2 DEF Ring, OneRingPerCaller
    <2>5. AnsweredOnce'
      BY <2>1, <2>2 DEF Ring, AnsweredOnce, Accepted
    <2>6. PoolIsWhoWaits'
      BY <2>1, <2>2 DEF Ring, PoolIsWhoWaits
    <2>7. NoGhostRing'
      BY <2>1, <2>3 DEF Ring, NoGhostRing
    <2> QED BY <1>t, <2>4, <2>5, <2>6, <2>7 DEF Ring
  <1>14. ASSUME \/ \E c \in Calls : WaitGrows(c) \/ AgentEndsAgain(c)
                \/ \E c \in Calls, t \in Ticks :
                      \/ SkipDecision(t, c) \/ ApplyAllDeclined(t, c)
                      \/ ApplyDeferred(t, c) \/ AbortTick(t, c)
                \/ \E t \in Ticks : SweepTick(t)
                \/ UNCHANGED vars
         PROVE  Ring'
    <2>1. UNCHANGED <<state, pool, outcome, open, desk>>
      BY <1>14 DEF WaitGrows, AgentEndsAgain, SkipDecision, ApplyAllDeclined,
                   ApplyDeferred, AbortTick, SweepTick, vars
    <2> QED BY <1>t, <2>1, DesksOnly
  <1> QED
    BY <1>1, <1>2, <1>3, <1>4, <1>5, <1>6, <1>7, <1>8, <1>9, <1>10, <1>11, <1>12,
       <1>13, <1>14
    DEF Next, HangUp

\* Initially nobody rings, waits or has been answered.
LEMMA RingInit == Init => Ring
  <1> SUFFICES ASSUME Init
               PROVE  Ring
    OBVIOUS
  <1>1. StartStates \subseteq CallState \ {"MATCHED", "OFFERED", "IN_CALL", "WRAP_UP", "CLOSED"}
    BY DEF StartStates, CallState
  <1>2. TypeOK
    <2>1. 1 \in 1 .. RoundBound
      BY ConstantsAssumption
    <2>2. [system |-> "ABSENT", intent |-> "NOT_READY", load |-> 0, clock |-> FALSE] \in Desk
      BY DEF Desk, AgentIntent
    <2> QED BY <1>1, <2>1, <2>2
         DEF Init, TypeOK, NothingToApply, Decision, Outcome, Acw
  <1>3. OneRingPerCaller
    BY <1>1, ConstantsAssumption DEF Init, OneRingPerCaller
  <1>4. AnsweredOnce /\ PoolIsWhoWaits /\ NoGhostRing
    BY <1>1 DEF Init, AnsweredOnce, Accepted, PoolIsWhoWaits, NoGhostRing
  <1> QED BY <1>2, <1>3, <1>4 DEF Ring

\* The inductive invariant of the handshake holds (OfferHandshake).
THEOREM RingInvariant == Spec => []Ring
  BY RingInit, RingStep, PTL DEF Spec

\* Every variable keeps its type on every floor: no load goes below zero, no
\* tick decides anything but a desk, a deferral or a refusal by everybody.
THEOREM TypeCorrect == Spec => []TypeOK
  BY RingInvariant, PTL DEF Ring

\* One desk at a time rings for a caller, and the index of open offers, the
\* assignments and the call's state agree on which.
THEOREM CallerRungOnce == Spec => []OneRingPerCaller
  BY RingInvariant, PTL DEF Ring

\* A caller is answered by at most one agent, whatever offers ran out before.
THEOREM CallerAnsweredOnce == Spec => []AnsweredOnce
  BY RingInvariant, PTL DEF Ring

\* The dispatch pool is exactly the callers who are still owed a desk.
THEOREM PoolCorrect == Spec => []PoolIsWhoWaits
  BY RingInvariant, PTL DEF Ring

\* A desk that rings, rings for somebody.
THEOREM NoDeskRingsForNobody == Spec => []NoGhostRing
  BY RingInvariant, PTL DEF Ring

-----------------------------------------------------------------------------
(* The promise to the caller.                                              *)

\* acw_started_at stamps are ordered: of two calls, at most one is earlier.
\* So an agent who leaves after-call work closes out at most one call.
StampsOrdered == \A c, d \in Calls : d \in earlier[c] => c \notin earlier[d]

LEMMA StampKeepsOrder ==
    ASSUME NEW c \in Calls, earlier \in [Calls -> SUBSET Calls], StampsOrdered,
           StampAcwStart(c)
    PROVE  StampsOrdered'
  BY DEF StampsOrdered, StampAcwStart

LEMMA StampsStep == StampsOrdered /\ TypeOK /\ [Next]_vars => StampsOrdered'
  <1> SUFFICES ASSUME StampsOrdered, TypeOK, [Next]_vars
               PROVE  StampsOrdered'
    OBVIOUS
  <1>1. ASSUME NEW c \in Calls, HangUpInCall(c) \/ AgentEnds(c) \/ AgentEndsAgain(c)
        PROVE  StampsOrdered'
    <2>1. StampAcwStart(c)
      BY <1>1 DEF HangUpInCall, AgentEnds, AgentEndsAgain, EndCall
    <2> QED BY <2>1, StampKeepsOrder DEF TypeOK
  <1>2. CASE UNCHANGED earlier
    BY <1>2 DEF StampsOrdered
  <1> QED
    BY <1>1, <1>2
    DEF Next, vars, HangUp, Arrive, WaitGrows, HangUpRinging, HangUpWaiting,
        Accept, SaveWrapup, ExpireOffer, Admit, Decline, SkipDecision, ApplyAllDeclined,
        ApplyDeferred, ApplyOffer, AbortTick, SignIn, Logout, HeartbeatExpires, Leaves,
        Declare, SweepTick

\* Whose a caller is, spelled out: the agent who took the call, or else the
\* desk that rings.
LEMMA WhoseCaller ==
    AnsweredOnce => \A c \in Calls :
        /\ \A a \in Agents : Accepted(c, a) => CallerDesk(c) = a
        /\ (\A a \in Agents : ~Accepted(c, a)) => CallerDesk(c) = open[c]
  BY DEF AnsweredOnce, CallerDesk

\* The phase each state of a call shows the caller.
LEMMA PhaseOf ==
    ASSUME NEW s \in CallState
    PROVE  /\ CallerPhase(s) = "arriving" <=>
                 s \in {"INTENT_CREATED", "CONNECTING", "IVR", "QUEUED", "INTAKE_ACTIVE",
                        "INTAKE_COMPLETE"}
           /\ s = "MATCHED" => CallerPhase(s) = "waiting"
           /\ s = "OFFERED" => CallerPhase(s) = "ringing"
           /\ s = "IN_CALL" => CallerPhase(s) = "talking"
           /\ s = "WRAP_UP" => CallerPhase(s) = "filing"
           /\ s = "CLOSED" => CallerPhase(s) = "filed"
           /\ s \in {"ABANDONED", "VOICEMAIL", "TRANSFERRED", "FAILED"} => CallerPhase(s) = "gone"
  BY DEF CallerPhase, CallState

\* One caller moves, the others are where and whose they were.
LEMMA OneCallerMoves ==
    ASSUME Ring, Ring', NEW c \in Calls, NEW from, NEW to, NEW a,
           CallerPhase(state[c]) = from, CallerPhase(state'[c]) = to,
           CallerDesk(c)' = a,
           \A d \in Calls \ {c} : state'[d] = state[d] /\ CallerDesk(d)' = CallerDesk(d)
    PROVE  Promise!Step(c, from, to, a)
  BY DEF Promise!Step, Ring, TypeOK

\* Nobody moves.
LEMMA NobodyMoves ==
    ASSUME \A c \in Calls : CallerPhase(state'[c]) = CallerPhase(state[c]),
           \A c \in Calls : CallerDesk(c)' = CallerDesk(c)
    PROVE  UNCHANGED Promise!vars
  BY DEF Promise!vars

\* A caller whose assignments and open offer are untouched is whose they were.
LEMMA SameDesk ==
    ASSUME Ring, Ring', NEW c \in Calls, outcome'[c] = outcome[c], open'[c] = open[c]
    PROVE  CallerDesk(c)' = CallerDesk(c)
  <1>1. /\ \A a \in Agents : Accepted(c, a) => CallerDesk(c) = a
        /\ (\A a \in Agents : ~Accepted(c, a)) => CallerDesk(c) = open[c]
    BY WhoseCaller DEF Ring
  <1>2. /\ \A a \in Agents : Accepted(c, a)' => CallerDesk(c)' = a
        /\ (\A a \in Agents : ~Accepted(c, a)') => CallerDesk(c)' = open'[c]
    <2>1. AnsweredOnce'
      BY DEF Ring
    <2> QED BY <2>1 DEF AnsweredOnce, CallerDesk
  <1>3. \A a \in Agents : Accepted(c, a)' <=> Accepted(c, a)
    BY DEF Accepted
  <1> QED BY <1>1, <1>2, <1>3

\* An open offer ends without an answer, or in one: what the caller sees.
LEMMA OfferEnds ==
    ASSUME Ring, Ring', NEW c \in Calls, NEW result \in Outcome, NEW to \in CallState,
           open[c] # NoAgent, Close(c, open[c], result), Move(c, to)
    PROVE  /\ result # "ACCEPTED" =>
                 Promise!Step(c, "ringing", CallerPhase(to), NoAgent)
           /\ result = "ACCEPTED" =>
                 Promise!Step(c, "ringing", CallerPhase(to), CallerDesk(c))
  <1>1. Ringing(c)
    BY OpenOffer
  <1>2. CallerPhase(state[c]) = "ringing" /\ state'[c] = to
    BY <1>1, PhaseOf DEF Ringing, Move, Ring, TypeOK
  <1>3. \A d \in Calls \ {c} : state'[d] = state[d] /\ CallerDesk(d)' = CallerDesk(d)
    <2>1. \A d \in Calls \ {c} : /\ state'[d] = state[d]
                                 /\ outcome'[d] = outcome[d] /\ open'[d] = open[d]
      BY DEF Close, Move, Ring, TypeOK
    <2> QED BY <2>1, SameDesk
  <1>4. CallerDesk(c) = open[c]
    BY <1>1, WhoseCaller DEF Ring, Ringing, Accepted
  <1>5. /\ outcome'[c][open[c]] = result /\ open'[c] = NoAgent
        /\ \A b \in Agents \ {open[c]} : outcome'[c][b] = outcome[c][b]
    BY <1>1 DEF Close, Ring, TypeOK, Ringing
  <1>6. /\ result # "ACCEPTED" => CallerDesk(c)' = NoAgent
        /\ result = "ACCEPTED" => CallerDesk(c)' = open[c]
    BY <1>1, <1>5 DEF Ring, Ringing, AnsweredOnce, CallerDesk, Accepted
  <1> QED BY <1>2, <1>3, <1>4, <1>6, OneCallerMoves

\* A call's own state moves, its assignments do not.
LEMMA CallMoves ==
    ASSUME Ring, Ring', NEW c \in Calls, NEW to \in CallState, Move(c, to),
           UNCHANGED <<outcome, open>>
    PROVE  Promise!Step(c, CallerPhase(state[c]), CallerPhase(to), CallerDesk(c))
  <1>1. state'[c] = to /\ \A d \in Calls \ {c} : state'[d] = state[d]
    BY DEF Move, Ring, TypeOK
  <1>2. \A d \in Calls : CallerDesk(d)' = CallerDesk(d)
    BY SameDesk
  <1> QED BY <1>1, <1>2, OneCallerMoves

LEMMA PromiseInit == Init => Promise!Init
  <1> SUFFICES ASSUME Init
               PROVE  Promise!Init
    OBVIOUS
  <1>1. \A c \in Calls : CallerPhase(state[c]) = "arriving"
    BY PhaseOf DEF Init, StartStates, CallState
  <1>2. \A c \in Calls : CallerDesk(c) = NoAgent
    BY DEF Init, CallerDesk, Accepted
  <1> QED BY <1>1, <1>2 DEF Promise!Init

LEMMA PromiseStep ==
    Ring /\ Ring' /\ StampsOrdered /\ [Next]_vars => [Promise!Next]_Promise!vars
  <1> SUFFICES ASSUME Ring, Ring', StampsOrdered, [Next]_vars
               PROVE  Promise!Next \/ UNCHANGED Promise!vars
    OBVIOUS
  <1>t. TypeOK /\ AnsweredOnce
    BY DEF Ring
  <1>s. \A c \in Calls : state[c] \in CallState
    BY <1>t DEF TypeOK
  <1>b. /\ {"QUEUED", "VOICEMAIL", "MATCHED", "ABANDONED", "OFFERED", "IN_CALL", "WRAP_UP",
            "CLOSED"} \subseteq CallState
        /\ {"ACCEPTED", "DECLINED", "TIMEOUT", "CANCELLED"} \subseteq Outcome
    BY DEF CallState, Outcome
  <1>p. /\ CallerPhase("MATCHED") = "waiting" /\ CallerPhase("OFFERED") = "ringing"
        /\ CallerPhase("IN_CALL") = "talking" /\ CallerPhase("WRAP_UP") = "filing"
        /\ CallerPhase("CLOSED") = "filed"
        /\ CallerPhase("ABANDONED") = "gone" /\ CallerPhase("VOICEMAIL") = "gone"
    BY <1>b, PhaseOf
  \* A call nobody has accepted and that is not ringing is nobody's.
  <1>n. \A c \in Calls :
           state[c] \notin {"OFFERED", "IN_CALL", "WRAP_UP", "CLOSED"} => CallerDesk(c) = NoAgent
    BY WhoseCaller DEF Ring, AnsweredOnce, OneRingPerCaller
  <1>1. ASSUME NEW c \in Calls, Arrive(c)
        PROVE  Promise!Next \/ UNCHANGED Promise!vars
    <2>1. PICK step \in ArrivalSteps : state[c] = step[1] /\ Move(c, step[2])
      BY <1>1 DEF Arrive
    <2>2. /\ step[2] \in CallState
          /\ CallerPhase(state[c]) = "arriving"
          /\ CallerPhase(step[2]) = "arriving" \/ CallerPhase(step[2]) = "gone"
          /\ CallerDesk(c) = NoAgent
      BY <2>1, <1>n, <1>s, PhaseOf DEF ArrivalSteps, CallState
    <2>3. UNCHANGED <<outcome, open>>
      BY <1>1 DEF Arrive
    <2>4. Promise!Step(c, "arriving", CallerPhase(step[2]), NoAgent)
      BY <2>1, <2>2, <2>3, CallMoves
    <2>5. CASE CallerPhase(step[2]) = "gone"
      BY <2>4, <2>5 DEF Promise!Next, Promise!HangUp
    <2>6. CASE CallerPhase(step[2]) = "arriving"
      <3>1. \A d \in Calls : CallerDesk(d)' = CallerDesk(d)
        BY <2>3, SameDesk
      <3>2. \A d \in Calls : CallerPhase(state'[d]) = CallerPhase(state[d])
        BY <2>1, <2>2, <2>6, <1>t DEF Move, TypeOK
      <3> QED BY <3>1, <3>2, NobodyMoves
    <2> QED BY <2>2, <2>5, <2>6
  <1>2. ASSUME NEW c \in Calls, HangUpInCall(c) \/ AgentEnds(c)
        PROVE  Promise!Next
    <2>1. PICK a \in Agents : EndCall(c, a)
      BY <1>2 DEF HangUpInCall, AgentEnds
    <2>2. state[c] = "IN_CALL" /\ Move(c, "WRAP_UP")
      BY <2>1, <1>s, ComesFrom DEF EndCall, Move
    <2>3. UNCHANGED <<outcome, open>>
      BY <1>2 DEF HangUpInCall, AgentEnds
    <2>4. Promise!Step(c, "talking", "filing", CallerDesk(c))
      BY <2>2, <2>3, <1>b, <1>p, CallMoves
    <2>5. Promise!Disconnect(c)
      BY <2>4, <1>t DEF Promise!Disconnect, Promise!Step
    <2> QED BY <2>5 DEF Promise!Next
  <1>3. ASSUME NEW c \in Calls, HangUpRinging(c)
        PROVE  Promise!Next
    <2>1. Promise!Step(c, "ringing", "gone", NoAgent)
      BY <1>3, <1>b, <1>p, OfferEnds DEF HangUpRinging
    <2> QED BY <2>1 DEF Promise!Next, Promise!HangUp
  <1>4. ASSUME NEW c \in Calls, HangUpWaiting(c)
        PROVE  Promise!Next
    <2>1. state[c] \notin {"OFFERED", "IN_CALL", "WRAP_UP", "CLOSED"}
      BY <1>4 DEF HangUpWaiting, Ring, AnsweredOnce, OneRingPerCaller
    <2>2. CallerPhase(state[c]) \in {"arriving", "waiting"}
      BY <1>4, <2>1, <1>s, PhaseOf DEF HangUpWaiting, LiveCallStates
    <2>3. Move(c, "ABANDONED") /\ UNCHANGED <<outcome, open>>
      BY <1>4 DEF HangUpWaiting
    <2>4. Promise!Step(c, CallerPhase(state[c]), "gone", NoAgent)
      BY <2>1, <2>3, <1>b, <1>n, <1>p, CallMoves
    <2> QED BY <2>2, <2>4 DEF Promise!Next, Promise!HangUp
  <1>5. ASSUME NEW c \in Calls, Accept(c)
        PROVE  Promise!Next
    <2>1. Promise!Step(c, "ringing", "talking", CallerDesk(c))
      BY <1>5, <1>b, <1>p, OfferEnds DEF Accept
    <2>2. Promise!Answer(c)
      BY <2>1, <1>t DEF Promise!Answer, Promise!Step
    <2> QED BY <2>2 DEF Promise!Next
  <1>6. ASSUME NEW c \in Calls, ExpireOffer(c) \/ \E t \in Ticks : Decline(c, t)
        PROVE  Promise!Next
    <2>1. \E result \in {"DECLINED", "TIMEOUT"} :
             open[c] # NoAgent /\ Close(c, open[c], result) /\ Move(c, "MATCHED")
      BY <1>6 DEF ExpireOffer, Decline, Reject
    <2>2. Promise!Step(c, "ringing", "waiting", NoAgent)
      BY <2>1, <1>b, <1>p, OfferEnds
    <2> QED BY <2>2 DEF Promise!Next, Promise!Unanswered
  <1>7. ASSUME NEW c \in Calls, SaveWrapup(c)
        PROVE  Promise!Next \/ UNCHANGED Promise!vars
    <2>1. UNCHANGED <<outcome, open>>
      BY <1>7 DEF SaveWrapup
    <2>2. CASE state[c] = "WRAP_UP" /\ Move(c, "CLOSED")
      <3>1. Promise!Step(c, "filing", "filed", CallerDesk(c))
        BY <2>1, <2>2, <1>b, <1>p, CallMoves
      <3>2. Promise!Close(c)
        BY <3>1, <1>t DEF Promise!Close, Promise!Step
      <3> QED BY <3>2 DEF Promise!Next
    <2>3. CASE UNCHANGED state
      <3>1. \A d \in Calls : CallerDesk(d)' = CallerDesk(d)
        BY <2>1, SameDesk
      <3> QED BY <2>3, <3>1, NobodyMoves
    <2> QED BY <1>7, <2>2, <2>3 DEF SaveWrapup
  <1>8. ASSUME NEW c \in Calls, NEW t \in Ticks, Admit(c, t)
        PROVE  Promise!Next
    <2>1. /\ Move(c, "MATCHED") /\ UNCHANGED <<outcome, open>>
          /\ state[c] \in {"QUEUED", "INTAKE_ACTIVE", "INTAKE_COMPLETE"}
      BY <1>8 DEF Admit
    <2>2. CallerPhase(state[c]) = "arriving" /\ CallerDesk(c) = NoAgent
      BY <2>1, <1>n, <1>s, PhaseOf
    <2>3. Promise!Step(c, "arriving", "waiting", NoAgent)
      BY <2>1, <2>2, <1>b, <1>p, CallMoves
    <2> QED BY <2>3 DEF Promise!Next, Promise!Queue
  <1>9. ASSUME NEW c \in Calls, NEW t \in Ticks, ApplyOffer(t, c)
        PROVE  Promise!Next
    <2> DEFINE a == ticks[t][c]
    <2>1. a \in Agents /\ state[c] = "MATCHED" /\ open[c] = NoAgent
      BY <1>9 DEF ApplyOffer
    <2>2. /\ state'[c] = "OFFERED" /\ open'[c] = a /\ outcome'[c][a] = "PENDING"
          /\ \A b \in Agents \ {a} : outcome'[c][b] = outcome[c][b]
          /\ \A d \in Calls \ {c} : /\ outcome'[d] = outcome[d]
                                    /\ open'[d] = open[d]
                                    /\ state'[d] = state[d]
      BY <1>9, <1>t, <2>1 DEF ApplyOffer, Offer, Move, TypeOK
    <2>3. CallerDesk(c)' = a
      BY <2>1, <2>2, <1>t DEF AnsweredOnce, CallerDesk, Accepted
    <2>4. Promise!Step(c, "waiting", "ringing", a)
      BY <2>1, <2>2, <2>3, <1>p, SameDesk, OneCallerMoves
    <2> QED BY <2>1, <2>4 DEF Promise!Next, Promise!Ring
  <1>10. ASSUME NEW a \in Agents, NEW i \in DeclaredIntents, NEW t \in Ticks,
                Declare(a, i, t)
         PROVE  Promise!Next \/ UNCHANGED Promise!vars
    <2> DEFINE done == IF desk[a].system = "AFTER_CALL_WORK" THEN LatestWrapping(a) ELSE {}
    <2>1. \A c, d \in done : c = d
      BY DEF LatestWrapping, StampsOrdered
    <2>2. UNCHANGED <<outcome, open>>
      BY <1>10 DEF Declare
    <2>3. state' = [c \in Calls |-> IF c \in done /\ state[c] = "WRAP_UP"
                                    THEN "CLOSED" ELSE state[c]]
      BY <1>10 DEF Declare
    <2>4. CASE \E c \in Calls : c \in done /\ state[c] = "WRAP_UP"
      <3>1. PICK c \in Calls : c \in done /\ state[c] = "WRAP_UP"
        BY <2>4
      <3>2. state' = [state EXCEPT ![c] = "CLOSED"]
        <4>1. \A d \in Calls : (d \in done /\ state[d] = "WRAP_UP") <=> d = c
          BY <2>1, <3>1
        <4> HIDE DEF done
        <4>2. state' = [d \in Calls |-> IF d = c THEN "CLOSED" ELSE state[d]]
          BY <2>3, <4>1
        <4> QED BY <4>2, <1>t DEF TypeOK
      <3>3. Move(c, "CLOSED")
        BY <3>1, <3>2 DEF Move, CanMove, Transitions, CallState
      <3>4. Promise!Step(c, "filing", "filed", CallerDesk(c))
        BY <2>2, <3>1, <3>3, <1>b, <1>p, CallMoves
      <3>5. Promise!Close(c)
        BY <3>4, <1>t DEF Promise!Close, Promise!Step
      <3> QED BY <3>5 DEF Promise!Next
    <2>5. CASE ~\E c \in Calls : c \in done /\ state[c] = "WRAP_UP"
      <3>1. \A d \in Calls : CallerDesk(d)' = CallerDesk(d)
        BY <2>2, SameDesk
      <3>2. \A d \in Calls : state'[d] = state[d]
        BY <2>3, <2>5
      <3> QED BY <3>1, <3>2, NobodyMoves
    <2> QED BY <2>4, <2>5
  <1>11. CASE UNCHANGED <<state, outcome, open>>
    <2>1. \A d \in Calls : CallerDesk(d)' = CallerDesk(d)
      BY <1>11, SameDesk
    <2> QED BY <1>11, <2>1, NobodyMoves
  <1>12. ASSUME \/ \E c \in Calls : WaitGrows(c) \/ AgentEndsAgain(c)
                \/ \E c \in Calls, t \in Ticks :
                      \/ SkipDecision(t, c) \/ ApplyAllDeclined(t, c)
                      \/ ApplyDeferred(t, c) \/ AbortTick(t, c)
                \/ \E a \in Agents : SignIn(a) \/ Logout(a) \/ HeartbeatExpires(a)
                \/ \E t \in Ticks : SweepTick(t)
                \/ UNCHANGED vars
         PROVE  UNCHANGED <<state, outcome, open>>
    BY <1>12 DEF WaitGrows, AgentEndsAgain, SkipDecision, ApplyAllDeclined, ApplyDeferred,
                 AbortTick, SignIn, Logout, HeartbeatExpires, Leaves, SweepTick, vars
  <1> QED
    BY <1>1, <1>2, <1>3, <1>4, <1>5, <1>6, <1>7, <1>8, <1>9, <1>10, <1>11, <1>12
    DEF Next, HangUp

\* The handshake, the matching ticks and the sweep together do to a caller
\* only what CallerService promises: rung at one desk at a time, answered by
\* the desk that was ringing, kept by it until the record is closed.
THEOREM PromiseKept == Spec => KeepsPromise
  <1>1. Init => StampsOrdered
    BY DEF Init, StampsOrdered
  <1>2. Ring => TypeOK
    BY DEF Ring
  <1> QED
    BY <1>1, <1>2, RingInvariant, StampsStep, PromiseInit, PromiseStep, PTL
    DEF Spec, KeepsPromise, Promise!Spec

-----------------------------------------------------------------------------
(* What an orderly floor is, and its inductive invariant.                  *)

\* One tick at a time, and nobody at the desks does more than their work.
Orderly == Habits = {} /\ \A t, u \in Ticks : t = u

InCall(c, a) == Accepted(c, a) /\ state[c] = "IN_CALL"

AtDesk(c, a) == open[c] = a \/ InCall(c, a)

ToFile(c, a) == Accepted(c, a) /\ acw[c] = "running"

\* The call that a closes out on leaving after-call work.
LastToFile(c, a) ==
    ToFile(c, a) /\ \A d \in Calls \ {c} : ToFile(d, a) => d \in earlier[c]

\* What presence says of one desk, against the calls it has.
DeskFits(a) ==
    /\ \A c, d \in Calls : AtDesk(c, a) /\ AtDesk(d, a) => c = d
    /\ \A c \in Calls : open[c] = a => desk[a].system = "OFFERING"
    /\ desk[a].system = "ON_CALL" <=> \E c \in Calls : InCall(c, a)
    /\ desk[a].load = IF desk[a].system = "ON_CALL" THEN 1 ELSE 0
    /\ desk[a].clock <=> desk[a].system = "AFTER_CALL_WORK"
    /\ desk[a].clock => \E c \in Calls : LastToFile(c, a)

\* A decision yet to be applied still holds: the caller is not ringing, has
\* not refused, or been refused by, that desk, and the desk is free or gone.
DecisionHolds(c, a) ==
    /\ open[c] = NoAgent
    /\ a \notin excluded[c]
    /\ desk[a].system \in {"AVAILABLE", "OFFLINE"}

DecisionsHold ==
    \A t \in Ticks, c \in Calls :
        ticks[t][c] \in Agents =>
            /\ DecisionHolds(c, ticks[t][c])
            /\ \A d \in Calls : ticks[t][d] = ticks[t][c] => d = c

\* After-call work is of calls that are over.
WrappedIsOver == \A c \in Calls : acw[c] # "none" => state[c] \in {"WRAP_UP", "CLOSED"}

DesksFit == \A a \in Agents : DeskFits(a)

Floor == Ring /\ StampsOrdered /\ WrappedIsOver /\ DesksFit /\ DecisionsHold

-----------------------------------------------------------------------------
(* What the invariant says of one desk.                                    *)

\* A desk that is not touched, by a step that leaves its calls alone.
LEMMA DeskUntouched ==
    ASSUME NEW a \in Agents, DeskFits(a), desk'[a] = desk[a],
           \A c \in Calls : open'[c] = a => open[c] = a,
           \A c \in Calls : Accepted(c, a)' <=> Accepted(c, a),
           \A c \in Calls : Accepted(c, a) =>
               (state'[c] = "IN_CALL" <=> state[c] = "IN_CALL") /\ acw'[c] = acw[c],
           \A c, d \in Calls : Accepted(c, a) /\ Accepted(d, a) /\ d \in earlier[c] => d \in earlier'[c]
    PROVE  DeskFits(a)'
  <1>1. \A c \in Calls : InCall(c, a)' <=> InCall(c, a)
    BY DEF InCall
  <1>2. \A c \in Calls : AtDesk(c, a)' => AtDesk(c, a)
    BY <1>1 DEF AtDesk
  <1>3. \A c \in Calls : LastToFile(c, a) => LastToFile(c, a)'
    BY DEF LastToFile, ToFile, Accepted
  <1> QED BY <1>1, <1>2, <1>3 DEF DeskFits

\* A step that touches no desk, leaves who is in a call there, and stamps
\* nothing.
LEMMA DesksUntouched ==
    ASSUME DesksFit, UNCHANGED <<desk, open, outcome, acw, earlier>>,
           \A c \in Calls : state'[c] = "IN_CALL" <=> state[c] = "IN_CALL"
    PROVE  DesksFit'
  <1> SUFFICES ASSUME NEW a \in Agents PROVE DeskFits(a)'
    BY DEF DesksFit
  <1> QED BY DeskUntouched DEF DesksFit, Accepted

\* Nobody is at a desk that is free or has left.
LEMMA FreeDesk ==
    ASSUME NEW a \in Agents, DeskFits(a), desk[a].system \notin {"OFFERING", "ON_CALL"}
    PROVE  \A c \in Calls : open[c] # a /\ ~InCall(c, a)
  BY DEF DeskFits

\* A desk without a call, before and after, whose clock is off.
LEMMA DeskIsFree ==
    ASSUME NEW a \in Agents, desk'[a].system \in {"ABSENT", "OFFLINE", "AVAILABLE"},
           desk'[a].load = 0, ~desk'[a].clock,
           \A c \in Calls : open'[c] # a /\ ~InCall(c, a)'
    PROVE  DeskFits(a)'
  <1>1. \A c \in Calls : ~AtDesk(c, a)'
    BY DEF AtDesk
  <1> QED BY <1>1 DEF DeskFits

-----------------------------------------------------------------------------
(* What it says of the decisions of a tick.                                *)

LEMMA DecisionsGoOn ==
    ASSUME TypeOK, TypeOK', DecisionsHold,
           \A t \in Ticks, c \in Calls : ticks'[t][c] \in Agents =>
              /\ ticks'[t][c] = ticks[t][c]
              /\ DecisionHolds(c, ticks[t][c]) => DecisionHolds(c, ticks[t][c])'
    PROVE  DecisionsHold'
  <1> SUFFICES ASSUME NEW t \in Ticks, NEW c \in Calls, NEW a \in Agents, ticks'[t][c] = a
               PROVE  DecisionHolds(c, a)' /\ \A d \in Calls : ticks'[t][d] = a => d = c
    BY DEF DecisionsHold, DecisionHolds
  <1>1. /\ ticks[t][c] = a /\ DecisionHolds(c, a) /\ DecisionHolds(c, a)'
        /\ \A d \in Calls : ticks[t][d] = a => d = c
    BY DEF DecisionsHold, DecisionHolds
  <1>2. \A d \in Calls : ticks'[t][d] = a => d = c
    BY <1>1
  <1> QED BY <1>1, <1>2

\* What a solve decides holds as it starts.
LEMMA FreshDecisions ==
    ASSUME NEW m \in Decisions', NEW c \in Calls, m[c] \in Agents
    PROVE  DecisionHolds(c, m[c])' /\ \A d \in Calls : m[d] = m[c] => d = c
  <1>1. PICK n \in Matching' : \E held \in SUBSET Deferrable(n)' :
           m = [d \in Calls |-> IF d \in Waiting' /\ Exhausted(d)' THEN AllDeclined
                                ELSE IF d \in held THEN Deferred ELSE n[d]]
    BY DEF Decisions
  <1>2. \A d \in Calls : m[d] \in Agents => m[d] = n[d]
    BY <1>1, ConstantsAssumption
  <1>3. \A d \in Calls : m[d] = m[c] => n[d] = n[c] /\ n[d] \in Agents
    BY <1>2
  <1>4. n[c] # NoAgent
    BY <1>2, ConstantsAssumption
  <1>5. c \in Waiting' /\ Feasible(c, n[c])'
    BY <1>4 DEF Matching
  <1>6. \A d \in Calls : n[d] = n[c] => d = c
    BY <1>4 DEF Matching
  <1>7. DecisionHolds(c, n[c])'
    BY <1>5 DEF DecisionHolds, Waiting, Feasible
  <1> QED BY <1>2, <1>3, <1>6, <1>7

LEMMA TickStarts ==
    ASSUME Orderly, ticks \in [Ticks -> [Calls -> Decision]], NEW t \in Ticks, StartTick(t)
    PROVE  DecisionsHold'
  <1>1. PICK m \in Decisions' : ticks' = [ticks EXCEPT ![t] = m]
    BY DEF StartTick
  <1>2. ticks'[t] = m /\ \A u \in Ticks : u = t
    BY <1>1 DEF Orderly
  <1>3. ASSUME NEW c \in Calls, m[c] \in Agents
        PROVE  DecisionHolds(c, m[c])' /\ \A d \in Calls : m[d] = m[c] => d = c
    BY <1>3, FreshDecisions
  <1> QED BY <1>2, <1>3 DEF DecisionsHold

-----------------------------------------------------------------------------
(* The handlers.                                                           *)

\* What each call of PresenceService makes of the axis, the load and the clock.
LEMMA PresenceOperations ==
    ASSUME NEW d \in Desk, NEW i \in AgentIntent
    PROVE  /\ SignedIn(d).load = 0 /\ SignedIn(d).clock = d.clock
           /\ Gone(d).load = d.load /\ ~Gone(d).clock
           /\ d.system = "AFTER_CALL_WORK" =>
                 Declared(d, i).system = "AVAILABLE" /\ ~Declared(d, i).clock
           /\ d.system # "AFTER_CALL_WORK" =>
                 Declared(d, i).system = d.system /\ Declared(d, i).clock = d.clock
           /\ Declared(d, i).load = d.load
           /\ Rung(d).system = "OFFERING" /\ Rung(d).load = d.load /\ Rung(d).clock = d.clock
           /\ Talking(d).load = d.load + 1 /\ Talking(d).clock = d.clock
           /\ AfterCall(d).clock /\ (d.load = 1 => AfterCall(d).load = 0)
           /\ Released(d).load = d.load /\ Released(d).clock = d.clock
           /\ OutOfRotation(d).load = d.load /\ OutOfRotation(d).clock = d.clock
  <1> USE DEF Desk
  <1>1. /\ SignedIn(d).load = 0 /\ SignedIn(d).clock = d.clock
        /\ Gone(d).load = d.load /\ ~Gone(d).clock
    BY DEF SignedIn, Gone
  <1>2. /\ d.system = "AFTER_CALL_WORK" =>
              Declared(d, i).system = "AVAILABLE" /\ ~Declared(d, i).clock
        /\ d.system # "AFTER_CALL_WORK" =>
              Declared(d, i).system = d.system /\ Declared(d, i).clock = d.clock
        /\ Declared(d, i).load = d.load
    BY DEF Declared
  <1>3. /\ Rung(d).system = "OFFERING" /\ Rung(d).load = d.load /\ Rung(d).clock = d.clock
        /\ Released(d).load = d.load /\ Released(d).clock = d.clock
        /\ OutOfRotation(d).load = d.load /\ OutOfRotation(d).clock = d.clock
    BY DEF Rung, Released, OutOfRotation
  <1>4. Talking(d).load = d.load + 1 /\ Talking(d).clock = d.clock
    BY DEF Talking
  <1>5. AfterCall(d).clock /\ (d.load = 1 => AfterCall(d).load = 0)
    BY DEF AfterCall
  <1> QED BY <1>1, <1>2, <1>3, <1>4, <1>5

\* A desk that was ringing is let go.
LEMMA OfferGone ==
    ASSUME Floor, TypeOK', NEW c \in Calls, open[c] # NoAgent, NEW result \in Outcome \ {"ACCEPTED"},
           Close(c, open[c], result), NEW after, desk' = [desk EXCEPT ![open[c]] = after],
           after.system = "AVAILABLE", after.load = desk[open[c]].load,
           after.clock = desk[open[c]].clock,
           NEW to \in CallState \ {"IN_CALL"}, state' = [state EXCEPT ![c] = to],
           UNCHANGED <<acw, earlier>>
    PROVE  WrappedIsOver' /\ DesksFit'
  <1>1. Ringing(c)
    BY OpenOffer DEF Floor
  <1>2. PICK r \in Agents : r = open[c]
    BY <1>1 DEF Ringing
  <1>3. /\ DeskFits(r) /\ desk[r].system = "OFFERING" /\ desk'[r] = after
        /\ \A b \in Agents \ {r} : DeskFits(b) /\ desk'[b] = desk[b]
        /\ open'[c] = NoAgent /\ state'[c] # "IN_CALL"
        /\ \A d \in Calls \ {c} : open'[d] = open[d] /\ state'[d] = state[d]
        /\ \A d \in Calls, b \in Agents : Accepted(d, b)' <=> Accepted(d, b)
        /\ \A b \in Agents : ~Accepted(c, b)
    BY <1>1, <1>2 DEF Floor, DesksFit, Ring, TypeOK, DeskFits, Ringing, Close, Accepted
  <1>4. WrappedIsOver'
    BY <1>1, <1>3 DEF Floor, WrappedIsOver, Ringing
  <1>5. ASSUME NEW b \in Agents \ {r} PROVE DeskFits(b)'
    <2>1. \A d \in Calls : open'[d] = b => open[d] = b
      BY <1>3, ConstantsAssumption
    <2>2. \A d \in Calls : Accepted(d, b) =>
             (state'[d] = "IN_CALL" <=> state[d] = "IN_CALL") /\ acw'[d] = acw[d]
      BY <1>3
    <2> QED BY <1>3, <2>1, <2>2, DeskUntouched
  <1>6. DeskFits(r)'
    <2>1. \A d \in Calls : AtDesk(d, r) => d = c
      BY <1>2, <1>3 DEF DeskFits, AtDesk
    <2>2. \A d \in Calls : open'[d] # r
      BY <1>3, <2>1, ConstantsAssumption DEF AtDesk
    <2>3. \A d \in Calls : ~InCall(d, r)'
      <3> SUFFICES ASSUME NEW d \in Calls, InCall(d, r)' PROVE FALSE
        OBVIOUS
      <3>1. Accepted(d, r) /\ d # c
        BY <1>3 DEF InCall
      <3>2. InCall(d, r)
        BY <1>3, <3>1 DEF InCall
      <3> QED BY <2>1, <3>1, <3>2 DEF AtDesk
    <2>4. desk'[r].load = 0 /\ ~desk'[r].clock /\ desk'[r].system = "AVAILABLE"
      BY <1>2, <1>3 DEF DeskFits
    <2> QED BY <2>2, <2>3, <2>4, DeskIsFree
  <1> QED BY <1>4, <1>5, <1>6 DEF DesksFit

\* A call that is not in progress, before or after, moves; desks do not.
LEMMA CallGoesOn ==
    ASSUME Floor, UNCHANGED <<desk, open, outcome, acw, earlier>>,
           \A c \in Calls : /\ state'[c] = "IN_CALL" <=> state[c] = "IN_CALL"
                            /\ state[c] \in {"WRAP_UP", "CLOSED"} =>
                                  state'[c] \in {"WRAP_UP", "CLOSED"}
    PROVE  WrappedIsOver' /\ DesksFit'
  BY DesksUntouched DEF Floor, WrappedIsOver, DesksFit

LEMMA AcceptFits ==
    ASSUME Floor, TypeOK', NEW c \in Calls, Accept(c) PROVE WrappedIsOver' /\ DesksFit'
  <1>1. Ringing(c)
    BY OpenOffer DEF Floor, Accept
  <1>2. PICK r \in Agents : r = open[c]
    BY <1>1 DEF Ringing
  <1>3. /\ DeskFits(r) /\ desk[r].system = "OFFERING" /\ desk'[r] = Talking(desk[r])
        /\ \A b \in Agents \ {r} : DeskFits(b) /\ desk'[b] = desk[b]
        /\ open'[c] = NoAgent /\ state'[c] = "IN_CALL" /\ state[c] = "OFFERED"
        /\ \A d \in Calls \ {c} : open'[d] = open[d] /\ state'[d] = state[d]
        /\ UNCHANGED <<acw, earlier>>
    BY <1>1, <1>2 DEF Floor, DesksFit, Ring, TypeOK, DeskFits, Ringing, Close, Accept, Move
  <1>4. /\ \A d \in Calls, b \in Agents : Accepted(d, b)' <=> Accepted(d, b) \/ (d = c /\ b = r)
        /\ \A b \in Agents : ~Accepted(c, b)
    BY <1>1, <1>2 DEF Floor, Ring, TypeOK, Ringing, Close, Accept, Accepted
  <1>5. WrappedIsOver'
    BY <1>3, <1>1 DEF Floor, WrappedIsOver
  <1>6. ASSUME NEW b \in Agents \ {r} PROVE DeskFits(b)'
    <2>1. \A d \in Calls : open'[d] = b => open[d] = b
      BY <1>3, ConstantsAssumption
    <2>2. \A d \in Calls : Accepted(d, b)' <=> Accepted(d, b)
      BY <1>4
    <2>3. \A d \in Calls : Accepted(d, b) =>
             (state'[d] = "IN_CALL" <=> state[d] = "IN_CALL") /\ acw'[d] = acw[d]
      BY <1>3, <1>4
    <2> QED BY <1>3, <2>1, <2>2, <2>3, DeskUntouched
  <1>7. \A d \in Calls : InCall(d, r)' <=> d = c
    <2>1. \A d \in Calls : AtDesk(d, r) => d = c
      BY <1>2, <1>3 DEF DeskFits, AtDesk
    <2>2. \A d \in Calls \ {c} : InCall(d, r)' => InCall(d, r)
      BY <1>3, <1>4 DEF InCall
    <2>3. InCall(c, r)'
      BY <1>3, <1>4 DEF InCall
    <2> QED BY <2>1, <2>2, <2>3 DEF AtDesk
  <1>8. \A d \in Calls : AtDesk(d, r)' <=> d = c
    <2>1. \A d \in Calls : open'[d] # r
      BY <1>2, <1>3, ConstantsAssumption DEF DeskFits, AtDesk
    <2> QED BY <1>7, <2>1 DEF AtDesk
  <1>9. /\ desk'[r].system = "ON_CALL" /\ desk'[r].load = 1 /\ ~desk'[r].clock
    <2>1. desk[r] \in Desk /\ "READY" \in AgentIntent
      BY DEF Floor, Ring, TypeOK, AgentIntent
    <2>2. desk[r].load = 0 /\ ~desk[r].clock
      BY <1>3 DEF DeskFits
    <2>3. /\ Talking(desk[r]).system = "ON_CALL" /\ Talking(desk[r]).load = desk[r].load + 1
          /\ Talking(desk[r]).clock = desk[r].clock
      BY <2>1, DeskOperations, PresenceOperations
    <2>4. Talking(desk[r]).load = 1
      BY <2>2, <2>3
    <2>5. ~Talking(desk[r]).clock
      BY <2>2, <2>3, Zenon
    <2> QED BY <1>3, <2>3, <2>4, <2>5
  <1>10. DeskFits(r)'
    <2>1. \A d \in Calls : open'[d] # r
      BY <1>2, <1>3, ConstantsAssumption DEF DeskFits, AtDesk
    <2> QED BY <1>7, <1>8, <1>9, <2>1 DEF DeskFits
  <1> QED BY <1>5, <1>6, <1>10 DEF DesksFit

\* An agent's call is over: theirs is the last to be filed at that desk.
LEMMA EndCallFits ==
    ASSUME Floor, TypeOK', NEW c \in Calls, NEW a \in Agents, EndCall(c, a),
           UNCHANGED <<outcome, open>>
    PROVE  WrappedIsOver' /\ DesksFit'
  <1>1. state[c] = "IN_CALL" /\ state' = [state EXCEPT ![c] = "WRAP_UP"]
    BY ComesFrom DEF EndCall, Move, Floor, Ring, TypeOK
  <1>2. /\ DeskFits(a) /\ desk'[a] = AfterCall(desk[a]) /\ Accepted(c, a)
        /\ \A b \in Agents \ {a} : DeskFits(b) /\ desk'[b] = desk[b] /\ ~Accepted(c, b)
        /\ state'[c] = "WRAP_UP" /\ \A d \in Calls \ {c} : state'[d] = state[d]
        /\ \A d \in Calls, b \in Agents : Accepted(d, b)' <=> Accepted(d, b)
    BY <1>1 DEF EndCall, Floor, DesksFit, Ring, TypeOK, AnsweredOnce, Accepted
  <1>3. /\ acw[c] = "none" /\ acw'[c] = "running"
        /\ \A d \in Calls \ {c} : acw'[d] = acw[d] /\ earlier'[d] = earlier[d] \ {c}
        /\ earlier'[c] = {e \in Calls : acw[e] # "none"} \ {c}
    BY <1>1 DEF EndCall, StampAcwStart, Floor, WrappedIsOver, Ring, TypeOK
  <1>4. WrappedIsOver'
    BY <1>2, <1>3 DEF Floor, WrappedIsOver
  <1>5. ASSUME NEW b \in Agents \ {a} PROVE DeskFits(b)'
    <2>1. \A d \in Calls : Accepted(d, b) => d # c
      BY <1>2
    <2>2. \A d \in Calls : Accepted(d, b) =>
             (state'[d] = "IN_CALL" <=> state[d] = "IN_CALL") /\ acw'[d] = acw[d]
      BY <1>2, <1>3, <2>1
    <2>3. \A d, e \in Calls : Accepted(d, b) /\ Accepted(e, b) /\ e \in earlier[d] => e \in earlier'[d]
      BY <1>3, <2>1
    <2> QED BY <1>2, <2>2, <2>3, DeskUntouched
  <1>6. InCall(c, a) /\ \A d \in Calls : AtDesk(d, a) => d = c
    BY <1>1, <1>2 DEF DeskFits, InCall, AtDesk
  <1>7. desk'[a].system = "AFTER_CALL_WORK" /\ desk'[a].load = 0 /\ desk'[a].clock
    <2>1. desk[a] \in Desk /\ "READY" \in AgentIntent
      BY DEF Floor, Ring, TypeOK, AgentIntent
    <2>2. desk[a].load = 1
      BY <1>2, <1>6 DEF DeskFits
    <2>3. /\ AfterCall(desk[a]).system = "AFTER_CALL_WORK" /\ AfterCall(desk[a]).clock
          /\ desk[a].load = 1 => AfterCall(desk[a]).load = 0
      BY <2>1, DeskOperations, PresenceOperations
    <2> QED BY <1>2, <2>2, <2>3
  <1>8. \A d \in Calls : open'[d] # a /\ ~InCall(d, a)'
    <2>1. \A d \in Calls : open[d] # a
      BY <1>2, <1>6 DEF DeskFits
    <2>2. \A d \in Calls : InCall(d, a)' => d # c /\ InCall(d, a)
      BY <1>2 DEF InCall
    <2> QED BY <1>6, <2>1, <2>2 DEF AtDesk
  <1>9. LastToFile(c, a)'
    <2>1. ToFile(c, a)'
      BY <1>2, <1>3 DEF ToFile
    <2>2. \A d \in Calls \ {c} : ToFile(d, a)' => d \in earlier'[c]
      BY <1>3 DEF ToFile
    <2> QED BY <2>1, <2>2 DEF LastToFile
  <1>10. DeskFits(a)'
    <2>1. \A d \in Calls : ~AtDesk(d, a)'
      BY <1>8 DEF AtDesk
    <2> QED BY <1>7, <1>8, <1>9, <2>1 DEF DeskFits
  <1> QED BY <1>4, <1>5, <1>10 DEF DesksFit

\* The tick rings the desk it chose: nobody is there, and nobody is promised it.
LEMMA OfferFits ==
    ASSUME Orderly, Floor, TypeOK', NEW c \in Calls, NEW t \in Ticks, ApplyOffer(t, c)
    PROVE  WrappedIsOver' /\ DesksFit' /\ DecisionsHold'
  <1>1. PICK a \in Agents : a = ticks[t][c]
    BY DEF ApplyOffer
  <1>2. /\ desk[a].system \in {"AVAILABLE", "OFFLINE"}
        /\ \A d \in Calls : ticks[t][d] = a => d = c
        /\ DeskFits(a)
    BY <1>1 DEF Floor, DecisionsHold, DecisionHolds, DesksFit
  <1>3. /\ desk'[a] = Rung(desk[a]) /\ \A b \in Agents \ {a} : desk'[b] = desk[b]
        /\ open'[c] = a /\ \A d \in Calls \ {c} : open'[d] = open[d]
        /\ state[c] = "MATCHED" /\ state'[c] = "OFFERED"
        /\ \A d \in Calls \ {c} : state'[d] = state[d]
        /\ UNCHANGED <<acw, earlier, excluded>>
    BY <1>1 DEF ApplyOffer, Offer, Move, Floor, Ring, TypeOK
  <1>4. \A d \in Calls, b \in Agents : Accepted(d, b)' <=> Accepted(d, b)
    <2>1. \A b \in Agents : ~Accepted(c, b)
      BY <1>3 DEF Floor, Ring, AnsweredOnce
    <2>2. outcome' = [outcome EXCEPT ![c][a] = "PENDING"]
      BY <1>1 DEF ApplyOffer, Offer
    <2> QED BY <2>1, <2>2 DEF Accepted, Floor, Ring, TypeOK
  <1>5. WrappedIsOver'
    BY <1>3 DEF Floor, WrappedIsOver
  <1>6. ASSUME NEW b \in Agents \ {a} PROVE DeskFits(b)'
    BY <1>3, <1>4, DeskUntouched DEF Floor, DesksFit
  <1>7. DeskFits(a)'
    <2>1. \A d \in Calls : open[d] # a /\ ~InCall(d, a)
      BY <1>2, FreeDesk
    <2>2. \A d \in Calls : ~InCall(d, a)'
      BY <1>3, <1>4, <2>1 DEF InCall
    <2>3. \A d \in Calls : AtDesk(d, a)' => d = c
      BY <1>3, <2>1, <2>2 DEF AtDesk
    <2>4. desk'[a].system = "OFFERING" /\ desk'[a].load = 0 /\ ~desk'[a].clock
      <3>1. desk[a] \in Desk /\ "READY" \in AgentIntent
        BY DEF Floor, Ring, TypeOK, AgentIntent
      <3>2. desk[a].load = 0 /\ ~desk[a].clock
        BY <1>2 DEF DeskFits
      <3>3. /\ Rung(desk[a]).system = "OFFERING" /\ Rung(desk[a]).load = desk[a].load
            /\ Rung(desk[a]).clock = desk[a].clock
        BY <3>1, PresenceOperations
      <3>4. ~Rung(desk[a]).clock
        BY <3>2, <3>3, Zenon
      <3> QED BY <1>3, <3>2, <3>3, <3>4
    <2> QED BY <2>2, <2>3, <2>4 DEF DeskFits
  <1>8. DecisionsHold'
    <2> SUFFICES ASSUME NEW d \in Calls, ticks'[t][d] \in Agents
                 PROVE  /\ ticks'[t][d] = ticks[t][d]
                        /\ DecisionHolds(d, ticks[t][d]) => DecisionHolds(d, ticks[t][d])'
      BY DecisionsGoOn DEF Floor, Ring, Orderly
    <2>1. d # c /\ ticks'[t][d] = ticks[t][d]
      BY ConstantsAssumption DEF ApplyOffer, Applied, Floor, Ring, TypeOK
    <2>2. PICK b \in Agents : b = ticks[t][d]
      BY <2>1
    <2>3. b # a
      BY <1>2, <2>1, <2>2
    <2> QED BY <1>3, <2>1, <2>2, <2>3 DEF DecisionHolds
  <1> QED BY <1>5, <1>6, <1>7, <1>8 DEF DesksFit

\* Somebody at a desk without a call changes it, and goes on without one.
LEMMA DeskAloneFits ==
    ASSUME Floor, TypeOK', NEW a \in Agents, NEW after, desk' = [desk EXCEPT ![a] = after],
           desk[a].system \notin {"OFFERING", "ON_CALL"},
           after.system \in {"OFFLINE", "AVAILABLE"}, after.load = 0, ~after.clock,
           UNCHANGED <<state, open, outcome, acw, earlier>>
    PROVE  WrappedIsOver' /\ DesksFit'
  <1>1. /\ DeskFits(a) /\ desk'[a] = after
        /\ \A b \in Agents \ {a} : DeskFits(b) /\ desk'[b] = desk[b]
    BY DEF Floor, DesksFit, Ring, TypeOK
  <1>2. \A d \in Calls : open'[d] # a /\ ~InCall(d, a)'
    BY <1>1, FreeDesk DEF InCall, Accepted
  <1>3. DeskFits(a)'
    BY <1>1, <1>2, DeskIsFree
  <1>4. \A b \in Agents \ {a} : DeskFits(b)'
    BY <1>1, DeskUntouched DEF Accepted
  <1> QED BY <1>3, <1>4 DEF Floor, WrappedIsOver, DesksFit

\* Decisions pending hold on: no ring starts, nobody is excluded who is not
\* ringing, and no free desk is taken.
LEMMA DecisionsKept ==
    ASSUME Floor, TypeOK',
           \A t \in Ticks, c \in Calls : ticks'[t][c] \in Agents => ticks'[t][c] = ticks[t][c],
           \A c \in Calls : open[c] = NoAgent =>
              open'[c] = NoAgent /\ excluded'[c] \subseteq excluded[c],
           \A a \in Agents : desk[a].system \in {"AVAILABLE", "OFFLINE"} =>
              desk'[a].system \in {"AVAILABLE", "OFFLINE"}
    PROVE  DecisionsHold'
  <1>1. \A c \in Calls, a \in Agents : DecisionHolds(c, a) => DecisionHolds(c, a)'
    BY DEF DecisionHolds
  <1> QED BY <1>1, DecisionsGoOn DEF Floor, Ring

\* What a desk under after-call work has left to file is filed.
LEMMA DeclareFits ==
    ASSUME Floor, TypeOK', NEW a \in Agents, NEW i \in DeclaredIntents, NEW t \in Ticks,
           Declare(a, i, t)
    PROVE  WrappedIsOver' /\ DesksFit'
  <1>1. /\ DeskFits(a) /\ desk'[a] = Declared(desk[a], i)
        /\ \A b \in Agents \ {a} : DeskFits(b) /\ desk'[b] = desk[b]
        /\ UNCHANGED <<open, outcome, earlier>>
    BY DEF Declare, Floor, DesksFit, Ring, TypeOK
  <1>2. /\ desk[a].system = "AFTER_CALL_WORK" =>
              Declared(desk[a], i).system = "AVAILABLE" /\ ~Declared(desk[a], i).clock
        /\ desk[a].system # "AFTER_CALL_WORK" =>
              /\ Declared(desk[a], i).system = desk[a].system
              /\ Declared(desk[a], i).clock = desk[a].clock
        /\ Declared(desk[a], i).load = desk[a].load
    <2>1. desk[a] \in Desk /\ i \in AgentIntent
      BY ConstantsAssumption DEF Floor, Ring, TypeOK, Declarable
    <2> QED BY <2>1, PresenceOperations
  <1>3. CASE desk[a].system = "AFTER_CALL_WORK"
    <2>1. \A c \in LatestWrapping(a) : c \in Calls /\ Accepted(c, a) /\ acw[c] = "running"
      BY DEF LatestWrapping
    <2>2. /\ \A c \in Calls \ LatestWrapping(a) : acw'[c] = acw[c] /\ state'[c] = state[c]
          /\ \A c \in LatestWrapping(a) :
                acw'[c] = "ended" /\ (state'[c] = state[c] \/ state'[c] = "CLOSED")
      BY <1>3, <2>1 DEF Declare
    <2>3. \A c \in LatestWrapping(a) : state[c] \in {"WRAP_UP", "CLOSED"}
      BY <2>1 DEF Floor, WrappedIsOver
    <2>4. WrappedIsOver'
      BY <2>1, <2>2, <2>3 DEF Floor, WrappedIsOver
    <2>5. ASSUME NEW b \in Agents \ {a} PROVE DeskFits(b)'
      <3>1. \A c \in Calls : Accepted(c, b) => c \notin LatestWrapping(a)
        BY <2>1 DEF Floor, Ring, AnsweredOnce
      <3>2. \A c \in Calls : Accepted(c, b) =>
               (state'[c] = "IN_CALL" <=> state[c] = "IN_CALL") /\ acw'[c] = acw[c]
        BY <2>2, <3>1
      <3> QED BY <1>1, <3>2, DeskUntouched DEF Accepted
    <2>6. DeskFits(a)'
      <3>1. \A c \in Calls : open[c] # a /\ ~InCall(c, a)
        BY <1>1, <1>3, FreeDesk
      <3>2. \A c \in Calls : state'[c] = "IN_CALL" => state[c] = "IN_CALL"
        BY <2>1, <2>2, <2>3
      <3>3. \A c \in Calls : open'[c] # a /\ ~InCall(c, a)'
        BY <1>1, <3>1, <3>2 DEF InCall, Accepted
      <3>4. desk'[a].load = 0
        BY <1>1, <1>2, <1>3 DEF DeskFits
      <3> QED BY <1>1, <1>2, <1>3, <3>3, <3>4, DeskIsFree
    <2> QED BY <2>4, <2>5, <2>6 DEF DesksFit
  <1>4. CASE desk[a].system # "AFTER_CALL_WORK"
    <2>1. acw' = acw /\ state' = state
      BY <1>4 DEF Declare, Floor, Ring, TypeOK
    <2>2. \A c \in Calls, b \in Agents : Accepted(c, b)' <=> Accepted(c, b)
      BY <1>1 DEF Accepted
    <2>3. \A b \in Agents \ {a} : DeskFits(b)'
      BY <1>1, <2>1, <2>2, DeskUntouched
    <2>4. DeskFits(a)'
      <3>1. \A c \in Calls : (InCall(c, a)' <=> InCall(c, a)) /\ (AtDesk(c, a)' <=> AtDesk(c, a))
        BY <1>1, <2>1, <2>2 DEF InCall, AtDesk
      <3>2. ~desk[a].clock /\ desk'[a].system = desk[a].system /\ desk'[a].load = desk[a].load
        BY <1>1, <1>2, <1>4 DEF DeskFits
      <3>3. ~desk'[a].clock
        BY <1>1, <1>2, <1>4, <3>2, Zenon
      <3> QED BY <1>1, <1>4, <3>1, <3>2, <3>3 DEF DeskFits
    <2> QED BY <2>1, <2>3, <2>4 DEF Floor, WrappedIsOver, DesksFit
  <1> QED BY <1>3, <1>4

-----------------------------------------------------------------------------
(* Every step of an orderly floor.                                         *)

LEMMA FloorStep ==
    ASSUME Orderly, Floor, [Next]_vars PROVE Floor'
  <1>r. Ring' /\ StampsOrdered'
    BY RingStep, StampsStep DEF Floor, Ring
  <1>t. TypeOK /\ TypeOK'
    BY <1>r DEF Floor, Ring
  <1>k. ticks \in [Ticks -> [Calls -> Decision]]
    BY <1>t DEF TypeOK
  <1> SUFFICES WrappedIsOver' /\ DesksFit' /\ DecisionsHold'
    BY <1>r DEF Floor
  <1>1. ASSUME NEW c \in Calls, Arrive(c) \/ WaitGrows(c) \/ HangUpWaiting(c) \/ SaveWrapup(c)
        PROVE  WrappedIsOver' /\ DesksFit' /\ DecisionsHold'
    <2>1. UNCHANGED <<desk, open, outcome, acw, earlier, ticks, excluded>>
      BY <1>1 DEF Arrive, WaitGrows, HangUpWaiting, SaveWrapup
    <2>2. \A d \in Calls : /\ state'[d] = "IN_CALL" <=> state[d] = "IN_CALL"
                           /\ state[d] \in {"WRAP_UP", "CLOSED"} => state'[d] \in {"WRAP_UP", "CLOSED"}
      <3>1. CASE Arrive(c)
        <4>1. PICK step \in ArrivalSteps : state[c] = step[1] /\ Move(c, step[2])
          BY <3>1 DEF Arrive
        <4>2. step[1] \notin {"IN_CALL", "WRAP_UP", "CLOSED"} /\ step[2] # "IN_CALL"
          BY DEF ArrivalSteps
        <4> QED BY <1>t, <4>1, <4>2 DEF Move, TypeOK
      <3>2. CASE WaitGrows(c)
        BY <3>2 DEF WaitGrows
      <3>3. CASE HangUpWaiting(c)
        <4>1. state[c] \notin {"IN_CALL", "WRAP_UP", "CLOSED"}
          BY <3>3 DEF HangUpWaiting, Floor, Ring, AnsweredOnce
        <4> QED BY <1>t, <3>3, <4>1 DEF HangUpWaiting, Move, TypeOK
      <3>4. CASE SaveWrapup(c)
        BY <1>t, <3>4 DEF SaveWrapup, Move, TypeOK
      <3> QED BY <1>1, <3>1, <3>2, <3>3, <3>4
    <2>3. DecisionsHold'
      BY <1>t, <2>1, DecisionsKept
    <2> QED BY <2>1, <2>2, <2>3, CallGoesOn
  <1>2. ASSUME NEW c \in Calls, NEW t \in Ticks, Admit(c, t)
        PROVE  WrappedIsOver' /\ DesksFit' /\ DecisionsHold'
    <2>1. UNCHANGED <<desk, open, outcome, acw, earlier>> /\ StartTick(t)
      BY <1>2 DEF Admit
    <2>2. \A d \in Calls : /\ state'[d] = "IN_CALL" <=> state[d] = "IN_CALL"
                           /\ state[d] \in {"WRAP_UP", "CLOSED"} => state'[d] \in {"WRAP_UP", "CLOSED"}
      BY <1>t, <1>2 DEF Admit, Move, TypeOK
    <2> QED BY <1>k, <2>1, <2>2, CallGoesOn, TickStarts
  <1>3. ASSUME NEW t \in Ticks, SweepTick(t)
        PROVE  WrappedIsOver' /\ DesksFit' /\ DecisionsHold'
    <2>1. UNCHANGED <<desk, open, outcome, acw, earlier, state>> /\ StartTick(t)
      BY <1>3 DEF SweepTick
    <2> QED BY <1>k, <2>1, CallGoesOn, TickStarts
  <1>4. ASSUME NEW c \in Calls, HangUpRinging(c) \/ ExpireOffer(c) \/ \E t \in Ticks : Decline(c, t)
        PROVE  WrappedIsOver' /\ DesksFit' /\ DecisionsHold'
    <2>1. Ringing(c) /\ open[c] # NoAgent
      BY <1>4, OpenOffer, ConstantsAssumption
         DEF Floor, HangUpRinging, ExpireOffer, Decline, Reject, Ringing
    <2>2. PICK r \in Agents : r = open[c]
      BY <2>1 DEF Ringing
    <2>3. desk[r] \in Desk /\ "READY" \in AgentIntent /\ desk[r].system = "OFFERING"
      BY <2>2, <1>t DEF TypeOK, AgentIntent, Floor, DesksFit, DeskFits
    <2>4. /\ Released(desk[r]).system = "AVAILABLE" /\ Released(desk[r]).load = desk[r].load
          /\ Released(desk[r]).clock = desk[r].clock
          /\ OutOfRotation(desk[r]).system = "AVAILABLE"
          /\ OutOfRotation(desk[r]).load = desk[r].load
          /\ OutOfRotation(desk[r]).clock = desk[r].clock
      BY <2>3, DeskOperations, PresenceOperations
    <2>5. \E result \in Outcome \ {"ACCEPTED"}, after \in {Released(desk[r]), OutOfRotation(desk[r])},
             to \in CallState \ {"IN_CALL"} :
             /\ Close(c, open[c], result)
             /\ desk' = [desk EXCEPT ![open[c]] = after]
             /\ state' = [state EXCEPT ![c] = to]
      <3>1. /\ {"CANCELLED", "DECLINED", "TIMEOUT"} \subseteq Outcome \ {"ACCEPTED"}
            /\ {"MATCHED", "ABANDONED"} \subseteq CallState \ {"IN_CALL"}
        BY DEF Outcome, CallState
      <3>2. CASE HangUpRinging(c)
        BY <2>2, <3>1, <3>2 DEF HangUpRinging, Move
      <3>3. CASE ExpireOffer(c)
        BY <2>2, <3>1, <3>3 DEF ExpireOffer, Reject, Move
      <3>4. CASE \E t \in Ticks : Decline(c, t)
        BY <2>2, <3>1, <3>4 DEF Decline, Reject, Move
      <3> QED BY <1>4, <3>2, <3>3, <3>4
    <2>6. UNCHANGED <<acw, earlier>>
      BY <1>4 DEF HangUpRinging, ExpireOffer, Decline
    <2>7. WrappedIsOver' /\ DesksFit'
      <3>1. PICK result \in Outcome \ {"ACCEPTED"},
                 after \in {Released(desk[r]), OutOfRotation(desk[r])},
                 to \in CallState \ {"IN_CALL"} :
                 /\ Close(c, open[c], result)
                 /\ desk' = [desk EXCEPT ![open[c]] = after]
                 /\ state' = [state EXCEPT ![c] = to]
        BY <2>5
      <3>2. /\ after.system = "AVAILABLE" /\ after.load = desk[open[c]].load
            /\ after.clock = desk[open[c]].clock
        BY <2>2, <2>4, Zenon
      <3> QED BY <1>t, <2>1, <2>6, <3>1, <3>2, OfferGone
    <2>8. CASE HangUpRinging(c) \/ ExpireOffer(c)
      <3>1. UNCHANGED ticks
        BY <2>8 DEF HangUpRinging, ExpireOffer
      <3>2. \A d \in Calls : open[d] = NoAgent => open'[d] = NoAgent /\ excluded'[d] \subseteq excluded[d]
        BY <1>t, <2>1, <2>8 DEF HangUpRinging, ExpireOffer, Reject, Close, TypeOK
      <3>3. \A a \in Agents : desk[a].system \in {"AVAILABLE", "OFFLINE"} => desk'[a] = desk[a]
        BY <1>t, <2>2, <2>3, <2>5 DEF TypeOK
      <3> QED BY <1>t, <2>7, <3>1, <3>2, <3>3, DecisionsKept
    <2>9. CASE \E t \in Ticks : Decline(c, t)
      BY <1>k, <2>7, <2>9, TickStarts DEF Decline
    <2> QED BY <1>4, <2>8, <2>9
  <1>5. ASSUME NEW c \in Calls, HangUpInCall(c) \/ AgentEnds(c)
        PROVE  WrappedIsOver' /\ DesksFit' /\ DecisionsHold'
    <2>1. PICK a \in Agents : EndCall(c, a)
      BY <1>5 DEF HangUpInCall, AgentEnds
    <2>2. UNCHANGED <<outcome, open, ticks, excluded>>
      BY <1>5 DEF HangUpInCall, AgentEnds
    <2>3. \A b \in Agents : desk[b].system \in {"AVAILABLE", "OFFLINE"} => desk'[b] = desk[b]
      <3>1. state[c] = "IN_CALL" /\ Accepted(c, a)
        BY <1>t, <2>1, ComesFrom DEF EndCall, Move, TypeOK
      <3>2. desk[a].system = "ON_CALL"
        BY <3>1 DEF Floor, DesksFit, DeskFits, InCall
      <3> QED BY <1>t, <2>1, <3>2 DEF EndCall, TypeOK
    <2>4. DecisionsHold'
      BY <1>t, <2>2, <2>3, DecisionsKept
    <2> QED BY <1>t, <2>1, <2>2, <2>4, EndCallFits
  <1>6. ASSUME NEW c \in Calls, Accept(c)
        PROVE  WrappedIsOver' /\ DesksFit' /\ DecisionsHold'
    <2>1. PICK r \in Agents : r = open[c]
      BY <1>6, OpenOffer DEF Floor, Accept, Ringing
    <2>2. UNCHANGED <<ticks, excluded>> /\ \A d \in Calls : open[d] = NoAgent => open'[d] = NoAgent
      BY <1>6, <1>t DEF Accept, Close, TypeOK
    <2>3. \A b \in Agents : desk[b].system \in {"AVAILABLE", "OFFLINE"} => desk'[b] = desk[b]
      <3>1. desk[r].system = "OFFERING"
        BY <2>1 DEF Floor, DesksFit, DeskFits
      <3> QED BY <1>t, <1>6, <2>1, <3>1 DEF Accept, TypeOK
    <2>4. DecisionsHold'
      BY <1>t, <2>2, <2>3, DecisionsKept
    <2> QED BY <1>t, <1>6, <2>4, AcceptFits
  <1>7. ASSUME NEW c \in Calls, NEW t \in Ticks,
               \/ SkipDecision(t, c) \/ ApplyAllDeclined(t, c)
               \/ ApplyDeferred(t, c) \/ AbortTick(t, c)
        PROVE  WrappedIsOver' /\ DesksFit' /\ DecisionsHold'
    <2>1. UNCHANGED <<desk, open, outcome, acw, earlier, state>>
      BY <1>7 DEF SkipDecision, ApplyAllDeclined, ApplyDeferred, AbortTick
    <2>2. \A u \in Ticks, d \in Calls : ticks'[u][d] \in Agents => ticks'[u][d] = ticks[u][d]
      <3>1. CASE Applied(t, c)
        BY <1>t, <3>1, ConstantsAssumption DEF Applied, TypeOK
      <3>2. CASE ticks' = [ticks EXCEPT ![t] = NothingToApply]
        <4>1. \A d \in Calls : NothingToApply[d] \notin Agents
          BY ConstantsAssumption DEF NothingToApply
        <4> QED BY <1>t, <3>2, <4>1 DEF TypeOK
      <3> QED BY <1>7, <3>1, <3>2 DEF SkipDecision, ApplyAllDeclined, ApplyDeferred, AbortTick
    <2>3. \A d \in Calls : excluded'[d] \subseteq excluded[d]
      BY <1>t, <1>7 DEF SkipDecision, ApplyAllDeclined, ApplyDeferred, AbortTick, CircleBack, TypeOK
    <2>4. DecisionsHold'
      BY <1>t, <2>1, <2>2, <2>3, DecisionsKept
    <2> QED BY <2>1, <2>4, CallGoesOn
  <1>8. ASSUME NEW c \in Calls, NEW t \in Ticks, ApplyOffer(t, c)
        PROVE  WrappedIsOver' /\ DesksFit' /\ DecisionsHold'
    BY <1>t, <1>8, OfferFits
  <1>9. ASSUME NEW a \in Agents, SignIn(a) \/ Leaves(a)
        PROVE  WrappedIsOver' /\ DesksFit' /\ DecisionsHold'
    <2>1. UNCHANGED <<state, open, outcome, acw, earlier, ticks, excluded>>
      BY <1>9 DEF SignIn, Leaves
    <2>2. desk[a].system \notin {"OFFERING", "ON_CALL"}
      BY <1>9 DEF SignIn, Leaves, Orderly
    <2>3. desk[a] \in Desk /\ "READY" \in AgentIntent /\ desk[a].load = 0
      BY <1>t, <2>2 DEF TypeOK, AgentIntent, Floor, DesksFit, DeskFits
    <2>4. /\ SignedIn(desk[a]).system = "AVAILABLE" /\ SignedIn(desk[a]).load = 0
          /\ SignedIn(desk[a]).clock = desk[a].clock
          /\ Gone(desk[a]).system = "OFFLINE" /\ Gone(desk[a]).load = 0 /\ ~Gone(desk[a]).clock
      BY <2>3, DeskOperations, PresenceOperations
    <2>5. PICK after : /\ desk' = [desk EXCEPT ![a] = after] /\ after.load = 0
                       /\ after.system \in {"OFFLINE", "AVAILABLE"} /\ ~after.clock
      <3>1. CASE SignIn(a)
        <4>1. ~desk[a].clock
          BY <3>1 DEF SignIn, Orderly, Floor, DesksFit, DeskFits
        <4>2. ~SignedIn(desk[a]).clock
          BY <2>4, <4>1, Zenon
        <4> QED BY <2>4, <3>1, <4>2 DEF SignIn
      <3>2. CASE Leaves(a)
        BY <2>4, <3>2 DEF Leaves
      <3> QED BY <1>9, <3>1, <3>2
    <2>6. \A b \in Agents : desk[b].system \in {"AVAILABLE", "OFFLINE"} =>
             desk'[b].system \in {"AVAILABLE", "OFFLINE"}
      BY <1>t, <2>5 DEF TypeOK
    <2>7. WrappedIsOver' /\ DesksFit'
      BY <1>t, <2>1, <2>2, <2>5, DeskAloneFits
    <2> QED BY <1>t, <2>1, <2>6, <2>7, DecisionsKept
  <1>10. ASSUME NEW a \in Agents, NEW i \in DeclaredIntents, NEW t \in Ticks, Declare(a, i, t)
         PROVE  WrappedIsOver' /\ DesksFit' /\ DecisionsHold'
    <2>1. StartTick(t)
      BY <1>10 DEF Declare
    <2> QED BY <1>k, <1>t, <1>10, <2>1, DeclareFits, TickStarts
  <1>11. CASE UNCHANGED vars
    <2>1. UNCHANGED <<desk, open, outcome, acw, earlier, state, ticks, excluded>>
      BY <1>11 DEF vars
    <2>2. DecisionsHold'
      BY <1>t, <2>1, DecisionsKept
    <2> QED BY <2>1, <2>2, CallGoesOn
  <1>12. ~\E c \in Calls : AgentEndsAgain(c)
    BY DEF AgentEndsAgain, Orderly
  <1> QED
    BY <1>1, <1>2, <1>3, <1>4, <1>5, <1>6, <1>7, <1>8, <1>9, <1>10, <1>11, <1>12
    DEF Next, HangUp, Logout, HeartbeatExpires

LEMMA FloorInit == Init => Floor
  <1> SUFFICES ASSUME Init PROVE Floor
    OBVIOUS
  <1>1. Ring
    BY RingInit
  <1>2. StampsOrdered /\ WrappedIsOver
    BY DEF Init, StampsOrdered, WrappedIsOver
  <1>3. DesksFit
    <2> SUFFICES ASSUME NEW a \in Agents PROVE DeskFits(a)
      BY DEF DesksFit
    <2>1. \A c \in Calls : open[c] # a /\ ~Accepted(c, a)
      BY ConstantsAssumption DEF Init, Accepted
    <2>2. desk[a].system = "ABSENT" /\ desk[a].load = 0 /\ ~desk[a].clock
      BY DEF Init
    <2> QED BY <2>1, <2>2 DEF DeskFits, AtDesk, InCall
  <1>4. DecisionsHold
    BY ConstantsAssumption DEF Init, NothingToApply, DecisionsHold
  <1> QED BY <1>1, <1>2, <1>3, <1>4 DEF Floor

\* The inductive invariant of an orderly floor holds (OfferHandshake).
THEOREM FloorInvariant == ASSUME Orderly PROVE Spec => []Floor
  <1>1. Floor /\ [Next]_vars => Floor'
    BY FloorStep
  <1> QED BY <1>1, FloorInit, PTL DEF Spec

-----------------------------------------------------------------------------
(* What it is for.                                                         *)

\* What a desk has to file is one call, the latest.
LEMMA OneToFile ==
    ASSUME StampsOrdered, NEW a \in Agents, NEW c \in Calls, LastToFile(c, a)
    PROVE  Cardinality(LatestWrapping(a)) = 1
  <1>1. LatestWrapping(a) = {c}
    BY DEF LatestWrapping, LastToFile, ToFile, StampsOrdered
  <1> QED BY <1>1, FS_Singleton

LEMMA FloorMatches == Floor => PresenceMatchesCalls
  <1> SUFFICES ASSUME Floor PROVE PresenceMatchesCalls
    OBVIOUS
  <1>1. OneCallerPerDesk
    BY DEF Floor, DesksFit, DeskFits, AtDesk, InCall, OneCallerPerDesk
  <1>2. ASSUME NEW a \in Agents
        PROVE  /\ desk[a].system = "ON_CALL" <=>
                     \E c \in Calls : Accepted(c, a) /\ state[c] = "IN_CALL"
               /\ desk[a].load = Cardinality({c \in Calls : Accepted(c, a) /\ state[c] = "IN_CALL"})
               /\ desk[a].clock <=> desk[a].system = "AFTER_CALL_WORK"
               /\ desk[a].clock => Cardinality(LatestWrapping(a)) = 1
    <2>1. DeskFits(a)
      BY DEF Floor, DesksFit
    <2>2. desk[a].system = "ON_CALL" <=> \E c \in Calls : InCall(c, a)
      BY <2>1 DEF DeskFits
    <2>3. CASE desk[a].system = "ON_CALL"
      <3>1. PICK c \in Calls : InCall(c, a)
        BY <2>2, <2>3
      <3>2. {d \in Calls : Accepted(d, a) /\ state[d] = "IN_CALL"} = {c}
        BY <2>1, <3>1 DEF DeskFits, AtDesk, InCall
      <3> QED BY <2>1, <2>2, <2>3, <3>2, FS_Singleton, OneToFile DEF Floor, DeskFits, InCall
    <2>4. CASE desk[a].system # "ON_CALL"
      <3>1. {d \in Calls : Accepted(d, a) /\ state[d] = "IN_CALL"} = {}
        BY <2>2, <2>4 DEF InCall
      <3> QED BY <2>1, <2>2, <2>4, <3>1, FS_EmptySet, OneToFile DEF Floor, DeskFits, InCall
    <2> QED BY <2>3, <2>4
  <1> QED BY <1>1, <1>2 DEF PresenceMatchesCalls

\* On an orderly floor presence never lies about a call, whatever the number of
\* desks and callers: one caller per desk (B25), a load and an axis that are the
\* calls in progress (B34), and one call to file when the ACW clock runs (D45).
THEOREM PresenceNeverLies == ASSUME Orderly PROVE Spec => []PresenceMatchesCalls
  BY FloorInvariant, FloorMatches, PTL

-----------------------------------------------------------------------------
(* Refusals, whatever the desks do and however many ticks are in flight.   *)

\* Not every tick in flight is about to ask the desk that rings, or one that
\* has refused: the tick that asked it has applied that decision.
OneTickHasHeard ==
    \A c \in Calls, a \in Agents :
        open[c] = a \/ a \in excluded[c] => AboutToAsk(c, a) # Ticks

\* What is new in a tick's decisions is of callers not ringing, and of desks
\* that have not refused them.
LEMMA NewDecisions ==
    ASSUME TypeOK, [Next]_vars, NEW t \in Ticks, NEW c \in Calls, NEW a \in Agents,
           ticks'[t][c] = a, ticks[t][c] # a
    PROVE  open'[c] = NoAgent /\ a \notin excluded'[c]
  <1>1. ASSUME NEW u \in Ticks, StartTick(u) PROVE open'[c] = NoAgent /\ a \notin excluded'[c]
    <2>1. PICK m \in Decisions' : ticks' = [ticks EXCEPT ![u] = m]
      BY <1>1 DEF StartTick
    <2>2. m[c] = a
      BY <2>1 DEF TypeOK
    <2> QED BY <2>2, FreshDecisions DEF DecisionHolds
  <1>2. ASSUME NEW u \in Ticks, NEW d \in Calls,
               Applied(u, d) \/ ticks' = [ticks EXCEPT ![u] = NothingToApply]
        PROVE  FALSE
    BY <1>2, ConstantsAssumption DEF TypeOK, Applied, NothingToApply
  <1> QED
    BY <1>1, <1>2
    DEF Next, vars, HangUp, Logout, HeartbeatExpires, Arrive, WaitGrows, HangUpInCall,
        HangUpRinging, HangUpWaiting, Accept, AgentEnds, AgentEndsAgain, SaveWrapup,
        ExpireOffer, Admit, Decline, SkipDecision, ApplyAllDeclined, ApplyDeferred,
        ApplyOffer, AbortTick, SignIn, Leaves, Declare, SweepTick

\* A desk rings because a tick had decided so, and that decision is spent.
LEMMA NewRing ==
    ASSUME TypeOK, [Next]_vars, NEW c \in Calls, NEW a \in Agents, open[c] # a, open'[c] = a
    PROVE  \E t \in Ticks : ticks[t][c] = a /\ ticks'[t][c] # a
  <1>1. PICK t \in Ticks : ticks[t][c] = a /\ Applied(t, c)
    BY ConstantsAssumption
       DEF Next, vars, HangUp, Logout, HeartbeatExpires, Arrive, WaitGrows, HangUpInCall,
           HangUpRinging, HangUpWaiting, Accept, AgentEnds, AgentEndsAgain, SaveWrapup,
           ExpireOffer, Admit, Decline, SkipDecision, ApplyAllDeclined, ApplyDeferred,
           ApplyOffer, AbortTick, SignIn, Leaves, Declare, SweepTick, Reject, Close, Offer,
           TypeOK
  <1> QED BY <1>1, ConstantsAssumption DEF Applied, TypeOK

\* Only the desk that rings can refuse.
LEMMA NewRefusal ==
    ASSUME TypeOK, [Next]_vars, NEW c \in Calls, NEW a \in excluded'[c], a \notin excluded[c]
    PROVE  open[c] = a
  BY DEF Next, vars, HangUp, Logout, HeartbeatExpires, Arrive, WaitGrows, HangUpInCall,
         HangUpRinging, HangUpWaiting, Accept, AgentEnds, AgentEndsAgain, SaveWrapup,
         ExpireOffer, Admit, Decline, SkipDecision, ApplyAllDeclined, ApplyDeferred,
         ApplyOffer, AbortTick, SignIn, Leaves, Declare, SweepTick, Reject, CircleBack,
         TypeOK

\* What is decided for a caller who rings, or for a desk that has refused, is
\* not decided anew.
LEMMA FewerAsk ==
    ASSUME TypeOK, [Next]_vars, NEW c \in Calls, NEW a \in Agents,
           open'[c] = a \/ a \in excluded'[c]
    PROVE  AboutToAsk(c, a)' \subseteq AboutToAsk(c, a)
  <1> SUFFICES ASSUME NEW t \in Ticks, ticks'[t][c] = a PROVE ticks[t][c] = a
    BY DEF AboutToAsk
  <1> QED BY NewDecisions, ConstantsAssumption

LEMMA OneTickHears ==
    ASSUME TypeOK, TypeOK', OneTickHasHeard, [Next]_vars
    PROVE  OneTickHasHeard'
  <1> SUFFICES ASSUME NEW c \in Calls, NEW a \in Agents, open'[c] = a \/ a \in excluded'[c]
               PROVE  AboutToAsk(c, a)' # Ticks
    BY DEF OneTickHasHeard
  <1>1. AboutToAsk(c, a)' \subseteq AboutToAsk(c, a) /\ AboutToAsk(c, a) \subseteq Ticks
    BY FewerAsk DEF AboutToAsk
  <1>2. CASE open[c] = a \/ a \in excluded[c]
    <2>1. AboutToAsk(c, a) # Ticks
      BY <1>2 DEF OneTickHasHeard
    <2>2. PICK t \in Ticks : t \notin AboutToAsk(c, a)
      BY <1>1, <2>1
    <2> QED BY <1>1, <2>2
  <1>3. CASE open[c] # a /\ a \notin excluded[c]
    <2>1. open'[c] = a
      BY <1>3, NewRefusal
    <2>2. PICK t \in Ticks : ticks'[t][c] # a
      BY <1>3, <2>1, NewRing
    <2> QED BY <2>2 DEF AboutToAsk
  <1> QED BY <1>2, <1>3

\* On every floor, with any number of ticks in flight and any habits at the
\* desks, a refusal is heard by each tick that starts after it, and at most all
\* but one of those under way can still overlook it, once each (D52).
THEOREM RefusalsAreHeard == Spec => RefusalIsHeard
  <1>1. Init => OneTickHasHeard
    BY ConstantsAssumption DEF Init, OneTickHasHeard
  <1>2. TypeOK /\ TypeOK' /\ OneTickHasHeard /\ [Next]_vars => OneTickHasHeard'
    BY OneTickHears
  <1>3. TypeOK /\ TypeOK' /\ OneTickHasHeard /\ [Next]_vars =>
           [\A c \in Calls : \A a \in excluded'[c] :
               IF a \in excluded[c]
               THEN /\ AboutToAsk(c, a)' \subseteq AboutToAsk(c, a)
                    /\ open[c] # a /\ open'[c] = a => AboutToAsk(c, a)' # AboutToAsk(c, a)
               ELSE AboutToAsk(c, a)' # Ticks]_vars
    <2> SUFFICES ASSUME TypeOK, TypeOK', OneTickHasHeard, [Next]_vars,
                        NEW c \in Calls, NEW a \in excluded'[c]
                 PROVE  /\ AboutToAsk(c, a)' \subseteq AboutToAsk(c, a)
                        /\ open[c] # a /\ open'[c] = a => AboutToAsk(c, a)' # AboutToAsk(c, a)
                        /\ AboutToAsk(c, a)' # Ticks
      OBVIOUS
    <2>1. a \in Agents
      BY DEF TypeOK
    <2>2. AboutToAsk(c, a)' \subseteq AboutToAsk(c, a)
      BY <2>1, FewerAsk
    <2>3. ASSUME open[c] # a, open'[c] = a PROVE AboutToAsk(c, a)' # AboutToAsk(c, a)
      <3>1. PICK t \in Ticks : ticks[t][c] = a /\ ticks'[t][c] # a
        BY <2>1, <2>3, NewRing
      <3> QED BY <3>1 DEF AboutToAsk
    <2>4. AboutToAsk(c, a)' # Ticks
      <3>1. OneTickHasHeard'
        BY OneTickHears
      <3> QED BY <2>1, <3>1 DEF OneTickHasHeard, AboutToAsk
    <2> QED BY <2>2, <2>3, <2>4
  <1> QED BY <1>1, <1>2, <1>3, TypeCorrect, PTL DEF Spec, RefusalIsHeard

=============================================================================
