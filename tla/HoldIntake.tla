----------------------------- MODULE HoldIntake -----------------------------
(***************************************************************************)
(* What one caller hears and says between the queue and the agent: the     *)
(* offer to record, the recording, the second offer, and the three things  *)
(* that end them (silence, the maximum duration, an agent pressing Accept).*)
(*                                                                         *)
(* Five services keep the state: HoldMachine and IntakeService (hold),     *)
(* PassiveRecordIntake (intake), TranscriptionService with its stream      *)
(* (leg), RecordingService (tape) and the orchestrator (state, consents).  *)
(* The offer handshake is reduced to which desk is ringing.                *)
(*                                                                         *)
(* The one await that takes real time is the transcriber's drain: closing  *)
(* a leg pops it at once and then waits until everything heard has been    *)
(* through the speech model.  An Accept, and a sweep, are therefore two    *)
(* steps each, and other handlers run in between.                          *)
(*                                                                         *)
(* Time is counted in units of INTAKE_SILENCE_TIMEOUT_S.                   *)
(***************************************************************************)
EXTENDS Naturals, CallLifecycle

CONSTANTS
    Desks,         \* desks that may be rung for this caller, once each
    NoDesk,        \* nobody
    Sweep,         \* the sweep, where it is what closes the leg
    MaxSilences,   \* menu_settings.max_silences
    MaxDuration,   \* INTAKE_MAX_DURATION_S
    ReofferAfter,  \* INTAKE_REOFFER_AFTER_S
    Utterances,    \* bound: how many things the caller says aloud
    Notes          \* bound: how many notes the caller types

ASSUME HoldAssumption ==
    /\ NoDesk \notin Desks /\ Sweep \notin Desks \cup {NoDesk}
    /\ MaxSilences \in Nat \ {0}
    /\ MaxDuration \in Nat \ {0}
    /\ ReofferAfter \in Nat \ {0}
    /\ Utterances \in Nat /\ Notes \in Nat

HoldPhase == {"OFFERING", "RECORDING", "HOLDING", "DONE"}

\* "WAITING": no outcome yet.
HoldOutcome == {"WAITING", "RECORDED", "CUT_SHORT", "DECLINED", "IGNORED"}

FinalizeReason == {"SILENCE_TIMEOUT", "MAX_DURATION", "OFFER_ACCEPTED"}

Degradation == {"NONE", "STT_UNAVAILABLE"}

Scope == {"RECORDING", "AI_PROCESSING"}

VARIABLES
    state,      \* session.state
    consents,   \* session.consents: the scope and whether it was granted
    hold,       \* HoldRun and _LiveHold
    intake,     \* PassiveRecordIntake
    leg,        \* TranscriptionService._live and its stream
    tape,       \* RecordingService: the caller's audio
    ringing,    \* the desk that rings for, or talks to, the caller
    rung,       \* desks that have been rung
    answering,  \* per desk, its Accept: not pressed, being handled, handled
    closer      \* who waits for the transcriber to drain

vars == <<state, consents, hold, intake, leg, tape, ringing, rung, answering, closer>>

Hold == [phase : HoldPhase, live : BOOLEAN, offers : 0 .. 2,
         consented : {"unasked", "yes", "no"}, spoke : BOOLEAN,
         silences : 0 .. MaxSilences, waited : 0 .. ReofferAfter,
         lost : Nat, outcome : HoldOutcome]

Intake == [status : {"unstarted", "running", "final"},
           reason : FinalizeReason \cup {"none"},
           degraded : Degradation, turns : Nat]

\* "closing": popped, and draining.  reprompted: the silence since the last
\* turn has fired already.
Leg == [status : {"shut", "open", "closing"}, pending : Nat, said : Nat,
        late : Nat, reprompted : BOOLEAN,
        age : 0 .. MaxDuration, quiet : 0 .. MaxDuration]

TypeOK ==
    /\ state \in CallState
    /\ consents \subseteq Scope \X BOOLEAN
    /\ hold \in Hold
    /\ intake \in Intake
    /\ leg \in Leg
    /\ tape \in {"none", "open", "sealed", "stored", "discarded"}
    /\ ringing \in Desks \cup {NoDesk}
    /\ rung \subseteq Desks
    /\ answering \in [Desks -> {"no", "yes", "done"}]
    /\ closer \in Desks \cup {NoDesk, Sweep}

Init ==
    /\ state = "QUEUED"
    /\ consents = {}
    /\ hold = [phase |-> "OFFERING", live |-> FALSE, offers |-> 0,
               consented |-> "unasked", spoke |-> FALSE, silences |-> 0,
               waited |-> 0, lost |-> 0, outcome |-> "WAITING"]
    /\ intake = [status |-> "unstarted", reason |-> "none",
                 degraded |-> "NONE", turns |-> 0]
    /\ leg = [status |-> "shut", pending |-> 0, said |-> 0, late |-> 0,
              reprompted |-> FALSE, age |-> 0, quiet |-> 0]
    /\ tape = "none"
    /\ ringing = NoDesk
    /\ rung = {}
    /\ answering = [d \in Desks |-> "no"]
    /\ closer = NoDesk

Running == intake.status = "running"

Recording == hold.live /\ hold.phase = "RECORDING"

Granted(scope) == <<scope, TRUE>> \in consents

handshake == <<ringing, rung, answering>>

-----------------------------------------------------------------------------
(* demo.place_call from the queue on: the offer, its answer, and matching. *)

\* run_offer: nothing yet.  A wrong key or the repeat key plays the offer
\* again, so an offer ends in one of three ways.
Offered == [hold EXCEPT !.phase = "OFFERING", !.live = TRUE, !.offers = @ + 1]

AtFirstOffer == state = "QUEUED" /\ ~hold.live /\ hold.offers = 0

\* A slip: the recording is started on the strength of one scope.
AcceptRecordingOneScope ==
    /\ AtFirstOffer
    /\ state' = "INTAKE_ACTIVE"
    /\ consents' = consents \cup {<<"RECORDING", TRUE>>}
    /\ hold' = [Offered EXCEPT !.phase = "RECORDING", !.consented = "yes", !.spoke = TRUE]
    /\ intake' = [intake EXCEPT !.status = "running"]
    /\ leg' = [leg EXCEPT !.status = "open"]
    /\ tape' = "open"
    /\ UNCHANGED <<handshake, closer>>

\* Pressed 1: both scopes, the intake, and the two users of the audio leg.
AcceptRecording ==
    /\ AtFirstOffer
    /\ state' = "INTAKE_ACTIVE"
    /\ consents' = consents \cup (Scope \X {TRUE})
    /\ hold' = [Offered EXCEPT !.phase = "RECORDING", !.consented = "yes", !.spoke = TRUE]
    /\ intake' = [intake EXCEPT !.status = "running"]
    /\ leg' = [leg EXCEPT !.status = "open"]
    /\ tape' = "open"
    /\ UNCHANGED <<handshake, closer>>

\* Pressed 2: a refusal is kept as evidence.
DeclineRecording ==
    /\ AtFirstOffer
    /\ hold' = [Offered EXCEPT !.phase = "HOLDING", !.consented = "no"]
    /\ consents' = consents \cup {<<"AI_PROCESSING", FALSE>>}
    /\ UNCHANGED <<state, intake, leg, tape, handshake, closer>>

\* Silence, or a sender stuck on a wrong key.
IgnoreOffer ==
    /\ AtFirstOffer
    /\ hold' = [Offered EXCEPT !.phase = "HOLDING"]
    /\ UNCHANGED <<state, consents, intake, leg, tape, handshake, closer>>

\* The end of place_call.  A recording goes on: the caller is matched while
\* still talking (D21).
Match ==
    /\ hold.live
    /\ state \in {"QUEUED", "INTAKE_ACTIVE", "INTAKE_COMPLETE"}
    /\ CanMove(state, "MATCHED")
    /\ state' = "MATCHED"
    /\ UNCHANGED <<consents, hold, intake, leg, tape, handshake, closer>>

-----------------------------------------------------------------------------
(* The caller's words.                                                     *)

\* The caller says something into an open leg: it waits for the model.
Speak ==
    /\ leg.status = "open"
    /\ state \notin TerminalStates
    /\ leg.said < Utterances
    /\ leg' = [leg EXCEPT !.said = @ + 1, !.pending = @ + 1]
    /\ UNCHANGED <<state, consents, hold, intake, tape, handshake, closer>>

\* One utterance leaves the model; the leg that is still live notes the time.
Decoded ==
    IF leg.status = "open"
    THEN [leg EXCEPT !.pending = @ - 1, !.quiet = 0, !.reprompted = FALSE]
    ELSE [leg EXCEPT !.pending = @ - 1]

\* A slip: the strategy keeps turns for as long as there is a hold (B24).
TurnArrivesAnyTime ==
    /\ leg.pending > 0
    /\ intake' = [intake EXCEPT !.turns = IF hold.live THEN @ + 1 ELSE @]
    /\ leg' = Decoded
    /\ UNCHANGED <<state, consents, hold, tape, handshake, closer>>

\* A turn.  Once the intake is closed it is logged and dropped.
TurnArrives ==
    /\ leg.pending > 0
    /\ IF hold.live /\ Running
       THEN /\ intake' = [intake EXCEPT !.turns = @ + 1]
            /\ leg' = Decoded
       ELSE /\ leg' = [Decoded EXCEPT !.late = @ + 1]
            /\ UNCHANGED intake
    /\ UNCHANGED <<state, consents, hold, tape, handshake, closer>>

\* The engine failed on it: reported to the hold, if there still is one.
EngineFails ==
    /\ leg.pending > 0
    /\ leg' = [leg EXCEPT !.pending = @ - 1]
    /\ hold' = [hold EXCEPT !.lost = IF hold.live THEN @ + 1 ELSE @]
    /\ UNCHANGED <<state, consents, intake, tape, handshake, closer>>

\* The guards of TranscriptionStream._publish: what the model made of it is
\* nothing a caller said.  Neither a turn nor a loss.
GuardsDrop ==
    /\ leg.pending > 0
    /\ leg' = [leg EXCEPT !.pending = @ - 1]
    /\ UNCHANGED <<state, consents, hold, intake, tape, handshake, closer>>

\* app_intake_note: typed words are a turn like any other.
TypeNote ==
    /\ state \in {"QUEUED", "MATCHED", "OFFERED", "IN_CALL"}
    /\ Recording /\ Running
    /\ intake.turns < Utterances + Notes
    /\ intake' = [intake EXCEPT !.turns = @ + 1]
    /\ UNCHANGED <<state, consents, hold, leg, tape, handshake, closer>>

\* app_hangup.  Of the five services only the orchestrator is told.
HangUp ==
    /\ state \in {"QUEUED", "MATCHED", "OFFERED", "IN_CALL"}
    /\ state' = IF state = "IN_CALL" THEN "WRAP_UP" ELSE "ABANDONED"
    /\ ringing' = IF state = "IN_CALL" THEN ringing ELSE NoDesk
    /\ UNCHANGED <<consents, hold, intake, leg, tape, rung, answering, closer>>

-----------------------------------------------------------------------------
(* Ending the recording.                                                   *)

\* IntakeService._degradation: the engine is blamed for an empty transcript
\* only if it failed.
Reason ==
    IF hold.lost > 0 /\ intake.turns = 0 THEN "STT_UNAVAILABLE" ELSE "NONE"

\* PassiveRecordIntake.finalize: the second caller gets the first result.
Finalized(reason) ==
    IF Running
    THEN [intake EXCEPT !.status = "final", !.reason = reason, !.degraded = Reason]
    ELSE intake

\* IntakeService._close moves the call on only if it still is in its intake.
AfterIntake == IF Running /\ state = "INTAKE_ACTIVE" THEN "INTAKE_COMPLETE" ELSE state

\* HoldMachine._stop_recording and what the driver does for it.
StopRecording(reason) ==
    /\ intake' = Finalized(reason)
    /\ state' = AfterIntake
    /\ hold' = [hold EXCEPT !.phase = "HOLDING"]

SweepIdle == closer # Sweep

SilenceDue == leg.status = "open" /\ leg.quiet >= 1 /\ ~leg.reprompted

\* A slip: only calls that are still going on are timed out.
MaxDurationDueLiveOnly ==
    leg.status = "open" /\ leg.age >= MaxDuration /\ state \notin TerminalStates

MaxDurationDue == leg.status = "open" /\ leg.age >= MaxDuration

\* check_timeouts, on a leg that has been quiet and not for too long.  A leg
\* is open only while its hold is recording (ListensOnlyWhileRecording).
SilenceHeard == SweepIdle /\ SilenceDue /\ ~MaxDurationDue /\ Recording

\* The caller hears the instruction again.
SweepReprompt ==
    /\ SilenceHeard /\ hold.silences + 1 < MaxSilences
    /\ hold' = [hold EXCEPT !.silences = @ + 1]
    /\ leg' = [leg EXCEPT !.reprompted = TRUE]
    /\ UNCHANGED <<state, consents, intake, tape, handshake, closer>>

\* The last silence: the recording is stopped first and the leg closed then.
SweepSilence ==
    /\ SilenceHeard /\ hold.silences + 1 >= MaxSilences
    /\ StopRecording("SILENCE_TIMEOUT")
    /\ leg' = [leg EXCEPT !.status = "closing", !.reprompted = TRUE]
    /\ closer' = Sweep
    /\ UNCHANGED <<consents, tape, handshake>>

\* The same pass, on a leg that has been open for too long.
SweepMaxDuration ==
    /\ SweepIdle /\ MaxDurationDue /\ Recording
    /\ StopRecording("MAX_DURATION")
    /\ leg' = [leg EXCEPT !.status = "closing"]
    /\ closer' = Sweep
    /\ UNCHANGED <<consents, tape, handshake>>

\* The drain is over: the sweep goes on to its other passes.
SweepGoesOn ==
    /\ closer = Sweep /\ leg.pending = 0
    /\ leg' = [leg EXCEPT !.status = "shut"]
    /\ closer' = NoDesk
    /\ UNCHANGED <<state, consents, hold, intake, tape, handshake>>

\* IntakeService.reoffer_due.  Nothing collects the answer to this offer.
SweepReoffer ==
    /\ SweepIdle
    /\ hold.live /\ hold.phase = "HOLDING"
    /\ hold.offers < 2 /\ ~hold.spoke
    /\ hold.waited >= ReofferAfter
    /\ hold' = Offered
    /\ UNCHANGED <<state, consents, intake, leg, tape, handshake, closer>>

\* Time does not run past a pass of the sweep that is due, unless the sweep
\* is waiting for the transcriber.
TimePasses ==
    /\ hold.live
    /\ SweepIdle => ~SilenceDue /\ ~MaxDurationDue
    /\ hold' = [hold EXCEPT !.waited = IF @ < ReofferAfter THEN @ + 1 ELSE @]
    /\ leg' = IF leg.status = "open" /\ leg.age < MaxDuration
              THEN [leg EXCEPT !.age = @ + 1, !.quiet = @ + 1]
              ELSE leg
    /\ UNCHANGED <<state, consents, intake, tape, handshake, closer>>

-----------------------------------------------------------------------------
(* The handshake, as far as the hold sees it.                              *)

Ring(d) ==
    /\ state = "MATCHED"
    /\ d \notin rung
    /\ state' = "OFFERED"
    /\ ringing' = d
    /\ rung' = rung \cup {d}
    /\ UNCHANGED <<consents, hold, intake, leg, tape, answering, closer>>

\* decline, or expire_offers in the sweep.
Unanswered ==
    /\ state = "OFFERED"
    /\ state' = "MATCHED"
    /\ ringing' = NoDesk
    /\ UNCHANGED <<consents, hold, intake, leg, tape, rung, answering, closer>>

\* accept_offer.  The desk's card may be answered after the offer has ended:
\* the handler looks only at whose assignment it is.
PressAccept(d) ==
    /\ d \in rung /\ answering[d] = "no"
    /\ answering' = [answering EXCEPT ![d] = "yes"]
    /\ IF leg.status = "open"
       THEN /\ leg' = [leg EXCEPT !.status = "closing"]
            /\ closer' = d
       ELSE UNCHANGED <<leg, closer>>
    /\ UNCHANGED <<state, consents, hold, intake, tape, ringing, rung>>

\* RecordingService.close: consent is looked at when the tape is sealed.
Sealed ==
    IF tape # "open" THEN tape
    ELSE IF leg.said > 0 /\ Granted("RECORDING") THEN "sealed" ELSE "discarded"

\* A slip: the ending is named after the recording has been stopped.
EndingKindAfterStop ==
    IF hold.spoke THEN "RECORDED"
    ELSE IF hold.consented = "no" THEN "DECLINED"
    ELSE "IGNORED"

\* HoldMachine._ending_kind.
EndingKind ==
    IF hold.phase = "RECORDING" THEN "CUT_SHORT"
    ELSE IF hold.spoke THEN "RECORDED"
    ELSE IF hold.consented = "no" THEN "DECLINED"
    ELSE "IGNORED"

\* IntakeService.on_agent_accepted: the hold ends, a recording with it.
AgentAccepted ==
    IF hold.live
    THEN /\ hold' = [hold EXCEPT !.phase = "DONE", !.live = FALSE, !.outcome = EndingKind]
         /\ intake' = IF hold.phase = "RECORDING" THEN Finalized("OFFER_ACCEPTED") ELSE intake
    ELSE UNCHANGED <<hold, intake>>

\* A slip: any card of this caller's answers whatever offer is open (B28).
FinishAcceptAnyCard(d) ==
    /\ answering[d] = "yes"
    /\ closer = d => leg.pending = 0
    /\ answering' = [answering EXCEPT ![d] = "done"]
    /\ leg' = IF closer = d THEN [leg EXCEPT !.status = "shut"] ELSE leg
    /\ closer' = IF closer = d THEN NoDesk ELSE closer
    /\ tape' = Sealed
    /\ AgentAccepted
    /\ state' = IF state = "OFFERED" THEN "IN_CALL" ELSE state
    /\ ringing' = IF state = "OFFERED" THEN d ELSE ringing
    /\ UNCHANGED <<consents, rung>>

\* The rest of accept_offer, once its own drain is over: the tape, the
\* intake, and only then whether the offer is still open.
FinishAccept(d) ==
    /\ answering[d] = "yes"
    /\ closer = d => leg.pending = 0
    /\ answering' = [answering EXCEPT ![d] = "done"]
    /\ leg' = IF closer = d THEN [leg EXCEPT !.status = "shut"] ELSE leg
    /\ closer' = IF closer = d THEN NoDesk ELSE closer
    /\ tape' = Sealed
    /\ AgentAccepted
    /\ state' = IF state = "OFFERED" /\ ringing = d THEN "IN_CALL" ELSE state
    /\ UNCHANGED <<consents, ringing, rung>>

-----------------------------------------------------------------------------
(* RecordingService, away from the accept path.                            *)

\* _on_state_changed, when the pump delivers the end of the call.
PumpSealsTape ==
    /\ state \in TerminalStates /\ tape = "open"
    /\ tape' = Sealed
    /\ UNCHANGED <<state, consents, hold, intake, leg, handshake, closer>>

\* flush_pending: uploaded, or given up; a passing failure changes nothing.
SweepUploads ==
    /\ SweepIdle
    /\ tape = "sealed"
    /\ tape' \in {"stored", "discarded"}
    /\ UNCHANGED <<state, consents, hold, intake, leg, handshake, closer>>

-----------------------------------------------------------------------------
Next ==
    \/ AcceptRecording \/ DeclineRecording \/ IgnoreOffer \/ Match
    \/ Speak \/ TurnArrives \/ EngineFails \/ GuardsDrop \/ TypeNote \/ HangUp
    \/ SweepReprompt \/ SweepSilence \/ SweepMaxDuration \/ SweepGoesOn
    \/ SweepReoffer
    \/ TimePasses
    \/ \E d \in Desks : Ring(d) \/ PressAccept(d) \/ FinishAccept(d)
    \/ Unanswered
    \/ PumpSealsTape \/ SweepUploads

Spec == Init /\ [][Next]_vars

\* The clock runs, the sweep and the pump come round, the speech model
\* answers or fails, and a handler that waited for it goes on.  Nothing is
\* assumed of the caller and the agents.
Fairness ==
    /\ WF_vars(TimePasses)
    /\ WF_vars(SweepReprompt) /\ WF_vars(SweepSilence)
    /\ WF_vars(SweepMaxDuration) /\ WF_vars(SweepGoesOn)
    /\ WF_vars(TurnArrives \/ EngineFails \/ GuardsDrop)
    /\ WF_vars(PumpSealsTape)
    /\ \A d \in Desks : WF_vars(FinishAccept(d))

FairSpec == Spec /\ Fairness

-----------------------------------------------------------------------------
(* Safety.                                                                 *)

\* D14: nothing is listened to, and nothing is stored, without the consent
\* for it, and a refusal is on file; whoever asked, however often, and
\* whatever ended the recording (_grant_consent, _decline_consent, _consented).
HeardWithConsent ==
    /\ intake.status # "unstarted" \/ leg.status # "shut" => Granted("AI_PROCESSING")
    /\ tape \in {"open", "sealed", "stored"} => Granted("RECORDING")
    /\ hold.consented = "no" => <<"AI_PROCESSING", FALSE>> \in consents
                                /\ intake.status = "unstarted"

\* The rules' machine and the recording it drives, kept by two objects, tell
\* one story while the hold lasts and after it has ended: recording is
\* running, and what the brief says of the ending is how the recording ended
\* (HoldRun, PassiveRecordIntake; D21's race).
OutcomeTellsIntake ==
    /\ Running <=> Recording
    /\ hold.outcome = "CUT_SHORT" <=> intake.reason = "OFFER_ACCEPTED"
    /\ hold.outcome = "RECORDED" => intake.reason \in {"SILENCE_TIMEOUT", "MAX_DURATION"}
    /\ hold.outcome \in {"DECLINED", "IGNORED"} => intake.status = "unstarted"
    /\ intake.status = "final" <=> intake.reason # "none"

\* The transcriber listens only to a caller who is recording: no ending, by
\* the sweep or by an agent, leaves the leg open (check_timeouts, accept_offer).
ListensOnlyWhileRecording ==
    leg.status = "open" => Running

\* The first ending of a recording is its ending: neither a second one, nor
\* a turn decoded late, changes the result the agent reads (D21).
ResultIsFinal ==
    [][intake.status = "final" => UNCHANGED intake]_vars

-----------------------------------------------------------------------------
(* Liveness under the sweep and the pump.                                  *)

\* D110: the audio of a call that is over does not stay in an open buffer.
TapeIsClosed == state \in TerminalStates /\ tape = "open" ~> tape # "open"

\* B7: a recording ends although nobody does anything, also when its caller
\* has hung up without the hold being told, and its audio is let go.
EveryIntakeEnds == (Running ~> ~Running) /\ TapeIsClosed

-----------------------------------------------------------------------------
(* D12, D37: whatever becomes of the offer and the recording, the caller's *)
(* way to an agent is the one CallerService promises.                      *)

CallerPhase ==
    CASE state = "MATCHED" -> "waiting"
      [] state = "OFFERED" -> "ringing"
      [] state = "IN_CALL" -> "talking"
      [] state = "WRAP_UP" -> "filing"
      [] state = "ABANDONED" -> "gone"
      [] OTHER -> "arriving"

Promise == INSTANCE CallerService WITH
    Calls <- {"caller"}, Agents <- Desks, NoAgent <- NoDesk,
    phase <- [c \in {"caller"} |-> CallerPhase],
    with <- [c \in {"caller"} |-> ringing]

HoldKeepsPromise == Promise!Spec

=============================================================================
