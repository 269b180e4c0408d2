---------------------------- MODULE AgentsCalls -----------------------------
(***************************************************************************)
(* What one agent's screen says of the calls they were offered: which call *)
(* is theirs, which form is open, what is still to be filed, and to whom a *)
(* call may be handed (the shaping half of api/routers/agent.py and        *)
(* services/transfer/service.py).                                          *)
(*                                                                         *)
(* Nothing of this is stored.  Each answer is derived from the assignments *)
(* of the agent, oldest first, and from the calls they name, and several   *)
(* derivations answer nearly the same question.  A handler is one step, as *)
(* in OfferHandshake; an agent leaves after-call work by declaring.        *)
(***************************************************************************)
EXTENDS Integers, Sequences, SequencesExt, FiniteSets, FiniteSetsExt

CONSTANTS
    MaxMyCalls,  \* bound: calls that ring at this desk
    MaxOffers,   \* bound: offers to it; a refused caller comes round again
    Reason,      \* reason codes of insurers.yaml
    Insurer      \* insurer codes

\* The company is the one on the customer's policy, whatever the file lists:
\* a flag of the request, not a code of the file.
FromPolicy == "from_policy"

ASSUME AgentsCallsAssumption ==
    /\ MaxMyCalls \in Nat \ {0} /\ MaxOffers \in Nat \ {0}
    /\ Reason # {} /\ Insurer # {} /\ FromPolicy \notin Insurer

VARIABLES
    mine,   \* call -> its state, its policy, the hand-off on record, its wrap-up
    offers,  \* the assignments of this agent
    ended,  \* those with an acw_started_at, the latest last
    duty,   \* the desk
    pack    \* insurers.yaml

recordVars == <<mine, offers, ended, duty, pack>>

MyCalls == 1 .. MaxMyCalls

NoCall == 0

Line == {"here", "elsewhere"}

NoHandOff == [reason |-> "none"]

Waits == [state |-> "MATCHED", policy |-> FALSE, handed |-> NoHandOff, filed |-> FALSE]

-----------------------------------------------------------------------------
(* insurers.yaml: a company names the lines it writes, or none for all; a  *)
(* reason may need a policy.  A code that is there twice is refused.       *)

Entries(codes, values) == UNION {[some -> values] : some \in SUBSET codes}

\* A slip: any list that is not empty will do.
PackLoadsAnyReasons(p) == DOMAIN p.insurers # {} /\ DOMAIN p.needs # {}

PackLoads(p) ==
    /\ DOMAIN p.insurers # {} /\ DOMAIN p.needs # {}
    /\ \E r \in DOMAIN p.needs : ~p.needs[r]

Covers(p, i, line) == p.insurers[i] = {} \/ line \in p.insurers[i]

InsurersFor(p, line) == {i \in DOMAIN p.insurers : Covers(p, i, line)}

RecordInit ==
    /\ pack \in {p \in [insurers : Entries(Insurer, {{}, {"here"}}),
                        needs : Entries(Reason, BOOLEAN)] : PackLoads(p)}
    /\ mine \in [MyCalls -> {[Waits EXCEPT !.policy = b] : b \in BOOLEAN}]
    /\ offers = <<>> /\ ended = <<>> /\ duty = "free"

\* Where the agent's calls are not the subject.
NoRecord ==
    /\ pack = [insurers |-> <<>>, needs |-> <<>>]
    /\ mine = [c \in MyCalls |-> Waits]
    /\ offers = <<>> /\ ended = <<>> /\ duty = "free"

-----------------------------------------------------------------------------
(* Which call is whose.                                                    *)

Newest(those) == IF those = {} THEN 0 ELSE Max(those)

CallOf(i) == IF i = 0 THEN NoCall ELSE offers[i].call

StillHeld(c) == {i \in DOMAIN offers : offers[i].call = c /\ offers[i].outcome # "over"}

\* A slip (B28): the first assignment the store has for the call.
AssignmentForFirst(c) ==
    LET all == {i \in DOMAIN offers : offers[i].call = c} IN IF all = {} THEN 0 ELSE Min(all)

AssignmentFor(c) == Newest(StillHeld(c))

\* As the code has it: whatever became of the offer.
ActiveCall == CallOf(Newest({i \in DOMAIN offers : mine[offers[i].call].state \in {"IN_CALL", "WRAP_UP"}}))

Wraps(i) == offers[i].acw = "running"

\* The form on the screen: the newest offer whose after-call work goes on.
WrappingCall == CallOf(Newest({i \in DOMAIN offers : Wraps(i)}))

\* What a declaration closes: the latest to have ended.
LatestWrapping ==
    LET at == Newest({k \in DOMAIN ended : Wraps(ended[k])}) IN IF at = 0 THEN 0 ELSE ended[at]

Backlog == {c \in MyCalls : ~mine[c].filed /\ \E i \in DOMAIN offers : offers[i].call = c /\ offers[i].acw = "ended"}

\* What the wrap-up form is prefilled with.
HandOffShown == IF WrappingCall = NoCall THEN NoHandOff ELSE mine[WrappingCall].handed

-----------------------------------------------------------------------------
(* The offer and the call.                                                 *)

Ring(c) ==
    /\ duty = "free" /\ mine[c].state = "MATCHED" /\ Len(offers) < MaxOffers
    /\ mine' = [mine EXCEPT ![c].state = "OFFERED"]
    /\ offers' = Append(offers, [call |-> c, outcome |-> "pending", acw |-> "none"])
    /\ duty' = "ringing"
    /\ UNCHANGED <<ended, pack>>

RingEnds(c, state, outcome, then) ==
    /\ mine[c].state = "OFFERED"
    /\ mine' = [mine EXCEPT ![c].state = state]
    /\ offers' = [offers EXCEPT ![Len(offers)].outcome = outcome]
    /\ duty' = then
    /\ UNCHANGED <<ended, pack>>

PickedUp(c) == RingEnds(c, "IN_CALL", "accepted", "talking")

Declined(c) == RingEnds(c, "MATCHED", "over", "free")

GivenUp(c) == RingEnds(c, "ABANDONED", "over", "free")

\* A caller who is not ringing here is taken by another desk, and so on.
Elsewhere(c) ==
    /\ AssignmentFor(c) = 0
    /\ \E step \in {<<"MATCHED", "IN_CALL">>, <<"IN_CALL", "WRAP_UP">>, <<"WRAP_UP", "CLOSED">>} :
          mine[c].state = step[1] /\ mine' = [mine EXCEPT ![c].state = step[2]]
    /\ UNCHANGED <<offers, ended, duty, pack>>

\* An offer is among them once.
Stamped(i) == Append(RemoveFirst(ended, i), i)

\* end_call of the service: stamped before the transition, which is refused
\* for a call that has ended.
Ends(i, handed) ==
    LET c == offers[i].call IN
    IF offers[i].outcome # "accepted"
    THEN /\ mine' = [mine EXCEPT ![c].handed = handed]
         /\ UNCHANGED <<offers, ended, duty>>
    ELSE /\ ended' = Stamped(i)
         /\ IF mine[c].state = "IN_CALL"
            THEN /\ mine' = [mine EXCEPT ![c].state = "WRAP_UP", ![c].handed = handed]
                 /\ offers' = [offers EXCEPT ![i].acw = "running"]
                 /\ duty' = "wrapping"
            ELSE /\ mine' = [mine EXCEPT ![c].handed = handed]
                 /\ UNCHANGED <<offers, duty>>

\* By the agent, or because the customer hung up.
EndMyCall(c) ==
    /\ AssignmentFor(c) # 0
    /\ Ends(AssignmentFor(c), mine[c].handed)
    /\ UNCHANGED pack

-----------------------------------------------------------------------------
(* Handing over.                                                           *)

ReasonOffered(p, c, r) == mine[c].policy \/ ~p.needs[r]

\* handoff_options, for a call on `line`.
Options(p, c, line) ==
    [reasons |-> {r \in DOMAIN p.needs : ReasonOffered(p, c, r)},
     to |-> InsurersFor(p, line) \cup (IF mine[c].policy THEN {FromPolicy} ELSE {})]

\* What the server accepts, by itself.
MayHandOff(p, c, r, to) ==
    /\ r \in DOMAIN p.needs
    /\ IF to = FromPolicy THEN mine[c].policy ELSE to \in DOMAIN p.insurers
    /\ p.needs[r] => mine[c].policy

\* Recorded, and then the call ends like any other.
HandOff(c, r, to) ==
    /\ AssignmentFor(c) # 0
    /\ MayHandOff(pack, c, r, to)
    /\ Ends(AssignmentFor(c), [reason |-> r, to |-> to])
    /\ UNCHANGED pack

-----------------------------------------------------------------------------
(* The record of the call, and the end of after-call work.                 *)

MayFile(c) == AssignmentFor(c) # 0 /\ (mine[c].state = "WRAP_UP" \/ (mine[c].state = "CLOSED" /\ ~mine[c].filed))

FileWrapup(c) ==
    /\ MayFile(c)
    /\ mine' = [mine EXCEPT ![c].state = "CLOSED", ![c].filed = TRUE]
    /\ UNCHANGED <<offers, ended, duty, pack>>

\* A slip (B10): the measured work is filed, the call stays in WRAP_UP.
DeclareLeavesCall ==
    /\ duty = "wrapping" /\ duty' = "free"
    /\ offers' = [offers EXCEPT ![LatestWrapping].acw = "ended"]
    /\ UNCHANGED <<mine, ended, pack>>

\* Whatever is declared.
DeclareNext ==
    /\ duty = "wrapping" /\ duty' = "free"
    /\ offers' = [offers EXCEPT ![LatestWrapping].acw = "ended"]
    /\ mine' = [mine EXCEPT ![CallOf(LatestWrapping)].state = "CLOSED"]
    /\ UNCHANGED <<ended, pack>>

RecordStep ==
    \/ DeclareNext
    \/ \E c \in MyCalls :
          \/ Ring(c) \/ PickedUp(c) \/ Declined(c) \/ GivenUp(c) \/ Elsewhere(c)
          \/ EndMyCall(c) \/ FileWrapup(c)
          \/ \E r \in Reason, to \in Insurer \cup {FromPolicy} : HandOff(c, r, to)

RecordSpec == RecordInit /\ [][RecordStep]_recordVars

-----------------------------------------------------------------------------
(* What must hold.                                                         *)

\* A call this agent answered, and whose after-call work is not over.
OnHand(c) == \E i \in StillHeld(c) : offers[i].outcome = "accepted" /\ offers[i].acw # "ended"

\* Every derivation answers for one call at a time (B10, B28, D68, D87).  The
\* call in conversation is the one on the screen and the one that can be ended;
\* in after-call work the form, what the declaration closes and the call that is
\* to be filed are the same, however often its end was asked for; what is done
\* with does not come back; and the backlog lists what may still be filed.
OneCallAtATime ==
    /\ Cardinality({c \in MyCalls : OnHand(c)}) <= 1
    /\ \A c \in MyCalls :
          /\ duty = "talking" /\ OnHand(c) =>
                /\ ActiveCall = c /\ WrappingCall = NoCall
                /\ AssignmentFor(c) # 0 /\ offers[AssignmentFor(c)].outcome = "accepted"
          /\ duty = "wrapping" /\ OnHand(c) =>
                /\ WrappingCall = c /\ CallOf(LatestWrapping) = c
                /\ mine[c].filed \/ ActiveCall = c
          /\ ActiveCall = c /\ ~OnHand(c) => AssignmentFor(c) = 0
          /\ c \in Backlog <=> MayFile(c) /\ mine[c].state = "CLOSED"
    /\ duty \in {"talking", "wrapping"} <=> \E c \in MyCalls : OnHand(c)

\* What the rail offers is what the server takes, and there is always a reason
\* to give; a record that needs a policy is of a caller who has one.
OptionsAreHonoured ==
    \A c \in MyCalls :
        /\ \A line \in Line : LET offered == Options(pack, c, line) IN
              /\ DOMAIN pack.needs # {} => offered.reasons # {}
              /\ \A r \in offered.reasons, to \in offered.to : MayHandOff(pack, c, r, to)
        /\ mine[c].handed # NoHandOff /\ pack.needs[mine[c].handed.reason] => mine[c].policy

\* "The call this agent is on, or wrapping up. Not one they were merely
\* offered." (_active_call_id)
ActiveCallIsMine == ActiveCall # NoCall => AssignmentFor(ActiveCall) # 0
=============================================================================
