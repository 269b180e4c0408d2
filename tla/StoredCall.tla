----------------------------- MODULE StoredCall -----------------------------
(***************************************************************************)
(* One call kept in a database: STORAGE_BACKEND=postgres.                  *)
(*                                                                         *)
(* Three things change with that backend.  Every repository call is an     *)
(* await, so handlers overlap at each of them.  get() builds a new session *)
(* object from the row, so a handler works on a copy of its own, while the *)
(* waiting pool keeps the object it was admitted with; save() writes the   *)
(* whole row from whichever object it is given.  And the process may stop  *)
(* between any two awaits: restore() then rebuilds the working set from    *)
(* the rows.                                                               *)
(*                                                                         *)
(* A handler is a job that moves from await to await.  What it does to     *)
(* memory and the await that follows are one step where nothing but a      *)
(* restart could tell them apart.                                          *)
(***************************************************************************)
EXTENDS Naturals, FiniteSetsExt, CallLifecycle

CONSTANTS
    Agents,       \* the desks qualified for this call
    NoAgent,      \* nobody
    Jobs,         \* bound: how many handlers are in flight at once
    MaxOffers,    \* bound: offers made, over all restarts
    MaxSaid,      \* bound: attestations
    MaxRestarts,  \* bound: restarts of the process
    EarlyScreens  \* does a desk refresh its screen while an offer is being made

ASSUME StoredCallAssumption ==
    /\ NoAgent \notin Agents
    /\ MaxOffers \in Nat /\ MaxSaid \in Nat /\ MaxRestarts \in Nat
    /\ EarlyScreens \in BOOLEAN

VARIABLES
    row,       \* call_sessions: the state and the identity columns
    rows,      \* assignments: per offer, the outcome its row has
    log,       \* attestations: the disclosure log
    held,      \* the session object in the pool and in place_call's hands
    waiting,   \* is the call in DispatchService._waiting
    outcome,   \* AssignmentService._assignments: per offer, its outcome
    asked,     \* per offer, whose desk it is for
    open,      \* _open_by_call
    excluded,  \* excluded_agent_ids
    desk,      \* what presence knows of each agent
    identity,  \* identity_for_call
    history,   \* AttestationService: attestations of the call
    original,  \* _CallIdentityState.original: unset, or does it name somebody
    job,       \* the handlers in flight
    said,      \* attestations made so far, which dates the next one
    told,      \* the attestations whose agent was told they are accepted
    life       \* restarts so far

stored == <<row, rows, log>>
offers == <<outcome, asked, open, excluded>>
who == <<identity, history, original>>
vars == <<stored, held, waiting, offers, desk, who, job, said, told, life>>

\* Whom the call names and how sure we are; "L3" is what an agent attested.
Identity == [named : BOOLEAN, level : {"L0", "L1", "L3"}]

Session == [state : CallState, identity : Identity]

Said == {"CONFIRMED", "THIRD_PARTY", "NOT_THIS_PERSON"}

Attestation == [n : 1 .. MaxSaid, outcome : Said, rejected : BOOLEAN]

Desk == {"offline", "free", "away", "ringing", "talking", "wrapping"}

JobKind == {"offer", "accept", "decline", "timeout", "cancel", "ring_off",
            "end", "abandon", "attest"}

Offers == 1 .. MaxOffers
NoOffer == 0

Outcome == {"NONE", "PENDING", "ACCEPTED", "DECLINED", "TIMEOUT", "CANCELLED"}

Place == {"decide", "store", "desk", "move"}

Waiting == {"not_yet", "in_pool", "out"}

NoJob == [kind |-> "none"]

Job == {NoJob} \cup
       [kind : JobKind, offer : Offers \cup {NoOffer}, at : Place,
        copy : Session \cup {NoJob}, says : Attestation \cup {NoJob}]

Finished == TerminalStates

Live == row.state \notin Finished

TypeOK ==
    /\ row \in Session /\ held \in Session
    /\ rows \in [Offers -> Outcome] /\ outcome \in [Offers -> Outcome]
    /\ asked \in [Offers -> Agents \cup {NoAgent}]
    /\ excluded \subseteq Agents
    /\ log \subseteq Attestation /\ history \subseteq Attestation
    /\ waiting \in Waiting
    /\ open \in Offers \cup {NoOffer}
    /\ desk \in [Agents -> Desk]
    /\ identity \in Identity
    /\ original \in {"unset", "somebody", "nobody"}
    /\ job \in [Jobs -> Job]
    /\ said \in 0 .. MaxSaid /\ told \subseteq 1 .. MaxSaid
    /\ life \in 0 .. MaxRestarts

\* place_call has moved the call to MATCHED and has yet to admit it.
Init ==
    /\ row = [state |-> "MATCHED", identity |-> [named |-> TRUE, level |-> "L1"]]
    /\ held = row
    /\ rows = [o \in Offers |-> "NONE"] /\ outcome = rows
    /\ asked = [o \in Offers |-> NoAgent]
    /\ excluded = {} /\ log = {} /\ history = {}
    /\ waiting = "not_yet" /\ open = NoOffer
    /\ desk = [a \in Agents |-> "offline"]
    /\ identity = row.identity /\ original = "unset"
    /\ job = [j \in Jobs |-> NoJob]
    /\ said = 0 /\ told = {} /\ life = 0

-----------------------------------------------------------------------------
(* Starting a handler.  Everything a copy is loaded for reads the row.     *)

Free(j) == job[j] = NoJob

\* The sweep and the tick hold the pool's object; everybody else their copy.
PoolsObject(k) == k \in {"offer", "timeout"}

Starts(j, kind, o, at) ==
    /\ Free(j)
    /\ job' = [job EXCEPT ![j] = [kind |-> kind, offer |-> o, at |-> at,
                                  copy |-> IF PoolsObject(kind) THEN NoJob ELSE row,
                                  says |-> NoJob]]

GoesOn(j, at) == job' = [job EXCEPT ![j].at = at]

Ends(j) == job' = [job EXCEPT ![j] = NoJob]

\* place_call: dispatch.admit, after the transition's awaits.
Admit ==
    /\ waiting = "not_yet"
    /\ waiting' = "in_pool"
    /\ UNCHANGED <<stored, held, offers, desk, who, job, said, told, life>>

\* tick: the pool's own object says MATCHED and no offer is open.
Offerable == waiting = "in_pool" /\ held.state = "MATCHED" /\ open = NoOffer

\* offer, up to its first await: a new assignment, indexed.
MakeOffer(j, o, a) ==
    /\ Offerable /\ desk[a] = "free" /\ a \notin excluded
    /\ \A p \in Offers : asked[p] = NoAgent <=> p >= o
    /\ Starts(j, "offer", o, "store")
    /\ outcome' = [outcome EXCEPT ![o] = "PENDING"]
    /\ asked' = [asked EXCEPT ![o] = a]
    /\ open' = o
    /\ UNCHANGED <<stored, held, waiting, excluded, who, said, told, life>>

\* A slip: the desk is rung before the offer is durable.
OfferRingsFirst(j, o, a) ==
    /\ MakeOffer(j, o, a)
    /\ desk' = [desk EXCEPT ![a] = "ringing"]

Offer(j, o, a) == MakeOffer(j, o, a) /\ UNCHANGED desk

\* _circle_back: everyone qualified has refused.
CircleBack ==
    /\ Offerable /\ excluded = Agents
    /\ excluded' = {}
    /\ UNCHANGED <<stored, held, waiting, outcome, asked, open, desk, who, job, said, told, life>>

\* _snapshot shows a desk its open assignment, as memory has it; what is pushed
\* to the screen is pushed when offer() has returned, or fails on its way.
OnScreen(o) ==
    /\ outcome[o] = "PENDING"
    /\ EarlyScreens \/ \A j \in Jobs : job[j].kind = "offer" => job[j].offer # o

\* accept_offer and decline_offer: own the assignment, load the session.
Answer(j, o) ==
    /\ OnScreen(o)
    /\ \E kind \in {"accept", "decline"} : Starts(j, kind, o, "decide")
    /\ UNCHANGED <<stored, held, waiting, offers, desk, who, said, told, life>>

\* expire_offers: the pool's object, not a copy.  Nothing is overdue while the
\* offer is still being made: the timeout is longer than a write.
Expire(j) ==
    /\ waiting = "in_pool" /\ open # NoOffer
    /\ \A i \in Jobs : job[i].kind # "offer"
    /\ Starts(j, "timeout", open, "decide")
    /\ UNCHANGED <<stored, held, waiting, offers, desk, who, said, told, life>>

\* end_call: the agent of the accepted assignment presses End.
AgentEnds(j, o) ==
    /\ outcome[o] = "ACCEPTED" /\ Live
    /\ Starts(j, "end", o, "store")
    /\ UNCHANGED <<stored, held, waiting, offers, desk, who, said, told, life>>

LiveCallStates == {"CONNECTING", "IVR", "QUEUED", "MATCHED", "OFFERED", "IN_CALL"}

\* accepted_for_call.
Taken == {o \in Offers : outcome[o] = "ACCEPTED"}

\* mobile.hang_up: which ending it is, is read off the assignments.
HangUp(j) ==
    /\ row.state \in LiveCallStates
    /\ \/ \E o \in Taken : Starts(j, "ring_off", o, "store")
       \/ Taken = {} /\ open # NoOffer /\ Starts(j, "cancel", open, "decide")
       \/ Taken = {} /\ open = NoOffer /\ Starts(j, "abandon", NoOffer, "move")
    /\ UNCHANGED <<stored, held, waiting, offers, desk, who, said, told, life>>

-----------------------------------------------------------------------------
(* The awaits of the handshake.                                            *)

At(j, place) == job[j] # NoJob /\ job[j].kind # "attest" /\ job[j].at = place

Result == [offer |-> "PENDING", accept |-> "ACCEPTED", decline |-> "DECLINED",
           timeout |-> "TIMEOUT", cancel |-> "CANCELLED", end |-> "ACCEPTED",
           ring_off |-> "ACCEPTED"]

Target == [offer |-> "OFFERED", accept |-> "IN_CALL", decline |-> "MATCHED",
           timeout |-> "MATCHED", cancel |-> "ABANDONED", end |-> "WRAP_UP",
           ring_off |-> "WRAP_UP", abandon |-> "ABANDONED"]

NewDesk == [offer |-> "ringing", accept |-> "talking", decline |-> "free",
            timeout |-> "away", cancel |-> "free", end |-> "wrapping",
            ring_off |-> "wrapping"]

Refusal == {"decline", "timeout"}

\* end_call moves the call first and the desk after it; the others the desk first.
DeskLast == {"end", "ring_off"}

\* _require_open: an offer already resolved refuses the second answer.
Decide(j) ==
    /\ At(j, "decide")
    /\ LET o == job[j].offer IN
       \/ /\ outcome[o] = "PENDING"
          /\ outcome' = [outcome EXCEPT ![o] = Result[job[j].kind]]
          /\ open' = NoOffer
          /\ GoesOn(j, "store")
       \/ /\ outcome[o] # "PENDING"
          /\ Ends(j)
          /\ UNCHANGED <<outcome, open>>
    /\ UNCHANGED <<stored, held, waiting, asked, excluded, desk, who, said, told, life>>

\* The assignment's row is committed.
Store(j) ==
    /\ At(j, "store")
    /\ rows' = [rows EXCEPT ![job[j].offer] = Result[job[j].kind]]
    /\ GoesOn(j, IF job[j].kind \in DeskLast THEN "move" ELSE "desk")
    /\ UNCHANGED <<row, log, held, waiting, offers, desk, who, said, told, life>>

\* Presence, and the exclusion a refusal leaves.
MoveDesk(j) ==
    /\ At(j, "desk")
    /\ LET k == job[j].kind  a == asked[job[j].offer] IN
       /\ excluded' = IF k \in Refusal THEN excluded \cup {a} ELSE excluded
       /\ desk' = [desk EXCEPT ![a] = NewDesk[k]]
       /\ IF k \in DeskLast THEN Ends(j) ELSE GoesOn(j, "move")
    /\ UNCHANGED <<stored, held, waiting, outcome, asked, open, who, said, told, life>>

\* dispatch.release, which accept_offer and hang_up end with.
Released(k) ==
    IF k \in {"accept", "cancel", "ring_off", "abandon"} /\ waiting = "in_pool"
    THEN "out" ELSE waiting

\* orchestrator.transition: check the object's state, change it, save all of it.
MoveCall(j) ==
    /\ At(j, "move")
    /\ LET k == job[j].kind
           object == IF PoolsObject(k) THEN held ELSE job[j].copy
           moved == [object EXCEPT !.state = Target[k]]
       IN \/ /\ CanMove(object.state, Target[k])
             /\ row' = moved
             /\ held' = IF PoolsObject(k) THEN moved ELSE held
             /\ waiting' = Released(k)
             /\ IF k \in DeskLast THEN GoesOn(j, "desk") ELSE Ends(j)
          \/ /\ ~CanMove(object.state, Target[k])
             /\ Ends(j)
             /\ UNCHANGED <<row, held, waiting>>
    /\ UNCHANGED <<rows, log, offers, desk, who, said, told, life>>

-----------------------------------------------------------------------------
(* attest_identity and AttestationService.attest.                          *)

Nobody == [named |-> FALSE, level |-> "L0"]
Attested == [named |-> TRUE, level |-> "L3"]

\* What attest makes of the call's identity.
Becomes(o) == IF o = "NOT_THIS_PERSON" THEN Nobody ELSE Attested

Names(i) == IF i.named THEN "somebody" ELSE "nobody"

OriginalNow == IF original = "unset" THEN Names(identity) ELSE original

\* Confirming, or acting for somebody, needs somebody proposed: now, or at first.
Attestable(o) ==
    o = "NOT_THIS_PERSON" \/ identity.named \/ OriginalNow = "somebody"

AppendStatement(j, e) ==
    /\ job[j].says = NoJob
    /\ history' = history \cup {e}
    /\ job' = [job EXCEPT ![j].says = e]

\* The session is loaded; the control locks after the first statement unless
\* the agent reopens it, which she always may.
Attest(j, o) ==
    /\ outcome[o] \in {"PENDING", "ACCEPTED"} /\ said < MaxSaid
    /\ Starts(j, "attest", o, "decide")
    /\ UNCHANGED <<stored, held, waiting, offers, desk, who, said, told, life>>

\* The statement, up to the await that makes it durable.
Say(j) ==
    /\ job[j] # NoJob /\ job[j].kind = "attest" /\ job[j].says = NoJob
    /\ said < MaxSaid
    /\ \E o \in {s \in Said : Attestable(s)} :
          AppendStatement(j, [n |-> said + 1, outcome |-> o,
                              rejected |-> o = "NOT_THIS_PERSON" /\ identity.named])
    /\ original' = OriginalNow
    /\ said' = said + 1
    /\ UNCHANGED <<stored, held, waiting, offers, desk, identity, told, life>>

\* The log's row is committed.
Logged(j) ==
    /\ job[j] # NoJob /\ job[j].kind = "attest" /\ job[j].says # NoJob
    /\ job[j].at = "decide"
    /\ log' = log \cup {job[j].says}
    /\ GoesOn(j, "move")
    /\ UNCHANGED <<row, rows, held, waiting, offers, desk, who, said, told, life>>

\* set_identity: in memory, and the whole of the copy into the row.
SetIdentity(j) ==
    /\ job[j] # NoJob /\ job[j].kind = "attest" /\ job[j].at = "move"
    /\ identity' = Becomes(job[j].says.outcome)
    /\ row' = [job[j].copy EXCEPT !.identity = identity']
    /\ told' = told \cup {job[j].says.n}
    /\ Ends(j)
    /\ UNCHANGED <<rows, log, held, waiting, offers, desk, history,
                   original, said, life>>

-----------------------------------------------------------------------------
(* Desks, and the restart.                                                 *)

\* Signing in, or declaring ready again after a missed ring.
Ready(a) ==
    /\ desk[a] \in {"offline", "away"}
    /\ desk' = [desk EXCEPT ![a] = "free"]
    /\ UNCHANGED <<stored, held, waiting, offers, who, job, said, told, life>>

\* A slip: only the live identity is looked at.
RestoredOriginalLiveOnly ==
    IF log = {} THEN "unset" ELSE Names(row.identity)

\* AttestationService.restore: the live identity if it still names somebody,
\* otherwise whoever the log says was rejected.
RestoredOriginal ==
    IF log = {} THEN "unset"
    ELSE IF row.identity.named \/ \E e \in log : e.rejected THEN "somebody"
    ELSE "unset"

RowsWith(results) == {asked[o] : o \in {p \in Offers : rows[p] \in results}}

\* A slip: a missed ring is not counted as a refusal.
RestoredExclusionsDeclinedOnly == RowsWith({"DECLINED"})

\* AssignmentService.restore: who may not be asked again.
RestoredExclusions == RowsWith({"DECLINED", "TIMEOUT"})

\* AttestationService.restore: the history behind the control's lock.
RestoredHistory == log

\* What comes back of a call that has not finished.
RestoreLive ==
    /\ Live
    /\ waiting' = IF row.state \in {"QUEUED", "MATCHED", "OFFERED"} THEN "in_pool" ELSE "out"
    /\ outcome' = rows
    /\ open' = Max({o \in Offers : rows[o] = "PENDING"} \cup {NoOffer})
    /\ excluded' = RestoredExclusions
    /\ history' = RestoredHistory
    /\ original' = RestoredOriginal

\* A call that has finished is not loaded at all.
RestoreFinished ==
    /\ ~Live
    /\ waiting' = "out"
    /\ outcome' = [o \in Offers |-> "NONE"]
    /\ open' = NoOffer /\ excluded' = {} /\ history' = {} /\ original' = "unset"

\* The process stops between two awaits and comes back: Container.restore.
Restart ==
    /\ life < MaxRestarts
    /\ life' = life + 1
    /\ RestoreLive \/ RestoreFinished
    /\ held' = row
    /\ identity' = row.identity
    /\ desk' = [a \in Agents |-> "offline"]
    /\ job' = [j \in Jobs |-> NoJob]
    /\ UNCHANGED <<stored, asked, said, told>>

Step(j) ==
    \/ Expire(j) \/ HangUp(j) \/ Decide(j) \/ Store(j) \/ MoveDesk(j) \/ MoveCall(j)
    \/ Say(j) \/ Logged(j) \/ SetIdentity(j)
    \/ \E o \in Offers : Answer(j, o) \/ AgentEnds(j, o) \/ Attest(j, o)
    \/ \E o \in Offers, a \in Agents : Offer(j, o, a)

Next ==
    \/ \E j \in Jobs : Step(j)
    \/ \E a \in Agents : Ready(a)
    \/ Admit \/ CircleBack \/ Restart

Spec == Init /\ [][Next]_vars

-----------------------------------------------------------------------------
\* The offer the desk still rings for, which a hang-up may have ended already.
RingsForAnother(o) ==
    \E p \in Offers \ {o} : asked[p] = asked[o] /\ rows[p] # "NONE"

\* A desk rings only for an offer whose row is committed.
RingsWhatIsStored ==
    \A o \in Offers :
        outcome[o] = "PENDING" /\ desk[asked[o]] = "ringing"
        => rows[o] = "PENDING" \/ RingsForAnother(o)

\* What is said of who is calling is in the log.
IdentityIsInTheLog ==
    \A i \in {identity, row.identity} :
        /\ i.level = "L3" => \E e \in log : e.outcome # "NOT_THIS_PERSON"
        /\ ~i.named => \E e \in log : e.outcome = "NOT_THIS_PERSON"

(* Nothing is acted on that a restart would not know of: a desk rings only *)
(* for an offer whose row is committed (AssignmentService.offer), and no   *)
(* call is at an attested level, or stripped of its customer, in memory or *)
(* in its row, without the statement that says so being in the log         *)
(* (AttestationService.attest), at whatever await the process is stopped.  *)
StoredFirst == RingsWhatIsStored /\ IdentityIsInTheLog

(* The lock on the identity control does not open by itself: as long as    *)
(* the call lives, every statement an agent was told is accepted is in the *)
(* history the lock looks at, over any number of restarts.                 *)
LockNeverOpens == Live => told \subseteq {e.n : e \in history}

(* A rejection can always be taken back: once anything has been said, the  *)
(* service still knows whom the resolver proposed, also when the rejection *)
(* was the last thing before a restart (AttestationService.restore, D71).  *)
ProposalComesBack == history # {} => original = "somebody"

\* What was said about who is calling outlives every restart: the lock and the
\* proposal both (AttestationService).
AttestationsSurvive == LockNeverOpens /\ ProposalComesBack

(* A restart forgets no refusal: whoever may not be asked again before it  *)
(* may not be asked again after it, the missed rings included (D52).       *)
RestartKeepsRefusals == [][life' # life /\ Live => excluded \subseteq excluded']_vars

(* A caller whose offer was refused is back where the next tick can find   *)
(* them: with no handler in flight, a call the database has as matched and *)
(* unoffered is one the pool sees as matched too (_reject, "the next tick  *)
(* re-solves with this agent excluded").                                   *)
RefusedIsFoundAgain ==
    /\ waiting = "in_pool" /\ open = NoOffer /\ row.state = "MATCHED"
    /\ \A j \in Jobs : job[j] = NoJob
    => held.state = "MATCHED"

=============================================================================
