-------------------------- MODULE HoldIntakeProofs --------------------------
(***************************************************************************)
(* What HoldIntake guarantees for any number of desks, silences and        *)
(* utterances and any time limits.                                         *)
(*                                                                         *)
(* HInv is inductive.  Beyond the invariants themselves it needs to know   *)
(* that the hold and the intake were started by the same key (Started),    *)
(* that nobody is rung before the first offer is answered (OfferedFirst),  *)
(* and that an Accept has already closed the transcriber (ClosedByAccept). *)
(***************************************************************************)
EXTENDS HoldIntake, TLAPS

\* Nothing has happened before the first offer; a live hold has no outcome.
Started ==
    /\ hold.live => hold.offers > 0 /\ hold.outcome = "WAITING"
    /\ hold.offers = 0 => hold.silences = 0 /\ hold.outcome = "WAITING"
    /\ hold.spoke <=> intake.status # "unstarted"
    /\ hold.spoke => hold.offers > 0

OfferedFirst ==
    /\ state \notin {"QUEUED", "ABANDONED"} => hold.offers > 0
    /\ rung # {} => hold.offers > 0

ClosedByAccept ==
    \A d \in Desks : answering[d] # "no" => d \in rung /\ leg.status # "open"

\* The counters that keep TypeOK: a silence can still be counted while the
\* recording goes on, and no leg is quiet for longer than it is open.
Counters ==
    /\ Recording => hold.silences < MaxSilences
    /\ leg.quiet <= leg.age

HInv ==
    /\ TypeOK
    /\ HeardWithConsent
    /\ OutcomeTellsIntake
    /\ ListensOnlyWhileRecording
    /\ Started
    /\ OfferedFirst
    /\ ClosedByAccept
    /\ Counters

-----------------------------------------------------------------------------
(* What the helpers and the larger handlers do, field by field.            *)

\* HoldMachine._offer.
LEMMA OfferedIs ==
    ASSUME hold \in Hold, hold.offers < 2
    PROVE  /\ Offered \in Hold
           /\ Offered.phase = "OFFERING" /\ Offered.live = TRUE
           /\ Offered.offers = hold.offers + 1
           /\ Offered.consented = hold.consented /\ Offered.spoke = hold.spoke
           /\ Offered.silences = hold.silences /\ Offered.outcome = hold.outcome
  <1>1. hold.offers + 1 \in 0 .. 2
    BY DEF Hold
  <1> QED BY <1>1 DEF Offered, Hold, HoldPhase

\* The recording is accepted.
LEMMA AcceptRecordingIs ==
    ASSUME hold \in Hold, intake \in Intake, leg \in Leg, AcceptRecording
    PROVE  /\ hold' \in Hold
           /\ hold'.phase = "RECORDING" /\ hold'.live = TRUE
           /\ hold'.offers = 1 /\ hold'.consented = "yes" /\ hold'.spoke = TRUE
           /\ hold'.silences = hold.silences /\ hold'.outcome = hold.outcome
           /\ intake' \in Intake
           /\ intake'.status = "running" /\ intake'.reason = intake.reason
           /\ leg' \in Leg
           /\ leg'.status = "open" /\ leg'.quiet = leg.quiet /\ leg'.age = leg.age
           /\ AtFirstOffer
           /\ state' = "INTAKE_ACTIVE" /\ tape' = "open"
           /\ consents' = consents \cup (Scope \X {TRUE})
           /\ UNCHANGED <<ringing, rung, answering, closer>>
  <1> DEFINE o == Offered
  <1>1. /\ o \in Hold
        /\ o.live = TRUE /\ o.offers = 1
        /\ o.silences = hold.silences /\ o.outcome = hold.outcome
    <2>1. hold.offers = 0 /\ 0 < 2 /\ 0 + 1 = 1
      BY DEF AcceptRecording, AtFirstOffer
    <2> QED BY <2>1, OfferedIs, Zenon
  <1>2. hold' = [o EXCEPT !.phase = "RECORDING", !.consented = "yes", !.spoke = TRUE]
    BY DEF AcceptRecording
  <1> HIDE DEF o
  <1>3. /\ hold' \in Hold
        /\ hold'.phase = "RECORDING" /\ hold'.live = TRUE
        /\ hold'.offers = 1 /\ hold'.consented = "yes" /\ hold'.spoke = TRUE
        /\ hold'.silences = hold.silences /\ hold'.outcome = hold.outcome
    BY <1>1, <1>2 DEF Hold, HoldPhase
  <1>4. /\ intake' \in Intake
        /\ intake'.status = "running" /\ intake'.reason = intake.reason
    BY DEF AcceptRecording, Intake
  <1>5. /\ leg' \in Leg
        /\ leg'.status = "open" /\ leg'.quiet = leg.quiet /\ leg'.age = leg.age
    BY DEF AcceptRecording, Leg
  <1>6. /\ AtFirstOffer
        /\ state' = "INTAKE_ACTIVE" /\ tape' = "open"
        /\ consents' = consents \cup (Scope \X {TRUE})
        /\ UNCHANGED <<ringing, rung, answering, closer>>
    BY DEF AcceptRecording, handshake
  <1> QED BY <1>3, <1>4, <1>5, <1>6

\* It is refused, or the offer is ignored.
LEMMA NoRecordingIs ==
    ASSUME hold \in Hold, NEW answer \in {"no", "unasked"},
           IF answer = "no" THEN DeclineRecording ELSE IgnoreOffer
    PROVE  /\ hold' \in Hold
           /\ hold'.phase = "HOLDING" /\ hold'.live = TRUE
           /\ hold'.offers = 1 /\ hold'.spoke = hold.spoke
           /\ hold'.silences = hold.silences /\ hold'.outcome = hold.outcome
           /\ hold'.consented = IF answer = "no" THEN "no" ELSE hold.consented
           /\ consents' = IF answer = "no"
                          THEN consents \cup {<<"AI_PROCESSING", FALSE>>}
                          ELSE consents
           /\ AtFirstOffer
           /\ UNCHANGED <<state, intake, leg, tape, ringing, rung, answering, closer>>
  <1> DEFINE o == Offered
  <1>1. /\ AtFirstOffer
        /\ UNCHANGED <<state, intake, leg, tape, ringing, rung, answering, closer>>
        /\ answer = "no" => hold' = [o EXCEPT !.phase = "HOLDING", !.consented = "no"]
        /\ answer # "no" => hold' = [o EXCEPT !.phase = "HOLDING"]
        /\ consents' = IF answer = "no"
                       THEN consents \cup {<<"AI_PROCESSING", FALSE>>}
                       ELSE consents
    BY Zenon DEF DeclineRecording, IgnoreOffer, handshake
  <1>2. /\ o \in Hold
        /\ o.live = TRUE /\ o.offers = 1
        /\ o.consented = hold.consented /\ o.spoke = hold.spoke
        /\ o.silences = hold.silences /\ o.outcome = hold.outcome
    <2>1. hold.offers = 0 /\ 0 < 2 /\ 0 + 1 = 1
      BY <1>1 DEF AtFirstOffer
    <2> QED BY <2>1, OfferedIs, Zenon
  <1> HIDE DEF o
  <1>3. CASE answer = "no"
    BY <1>1, <1>2, <1>3 DEF Hold, HoldPhase
  <1>4. CASE answer # "no"
    BY <1>1, <1>2, <1>4 DEF Hold, HoldPhase
  <1> QED BY <1>3, <1>4

\* One utterance has left the speech model.
LEMMA DecodedIs ==
    ASSUME leg \in Leg, leg.pending > 0
    PROVE  /\ Decoded \in Leg
           /\ Decoded.status = leg.status
           /\ Decoded.age = leg.age /\ Decoded.quiet \in {0, leg.quiet}
           /\ Decoded.late = leg.late
  <1>1. leg.pending - 1 \in Nat /\ 0 \in 0 .. MaxDuration
    BY HoldAssumption DEF Leg
  <1> QED BY <1>1 DEF Decoded, Leg

\* A turn, kept or late.
LEMMA TurnArrivesIs ==
    ASSUME leg \in Leg, intake \in Intake, TurnArrives
    PROVE  /\ leg' \in Leg
           /\ leg'.status = leg.status
           /\ leg'.age = leg.age /\ leg'.quiet \in {0, leg.quiet}
           /\ intake' \in Intake
           /\ intake'.status = intake.status /\ intake'.reason = intake.reason
           /\ intake.status # "running" => intake' = intake
           /\ UNCHANGED <<state, consents, hold, tape, ringing, rung, answering, closer>>
  <1> DEFINE l == Decoded
  <1>1. /\ l \in Leg
        /\ l.status = leg.status
        /\ l.age = leg.age /\ l.quiet \in {0, leg.quiet}
    BY DecodedIs DEF TurnArrives
  <1>2. leg' = l \/ leg' = [l EXCEPT !.late = l.late + 1]
    BY DEF TurnArrives
  <1> HIDE DEF l
  <1>3. /\ leg' \in Leg
        /\ leg'.status = leg.status
        /\ leg'.age = leg.age /\ leg'.quiet \in {0, leg.quiet}
    BY <1>1, <1>2 DEF Leg
  <1>4. /\ intake' \in Intake
        /\ intake'.status = intake.status /\ intake'.reason = intake.reason
        /\ intake.status # "running" => intake' = intake
    BY DEF TurnArrives, Intake, Running
  <1>5. UNCHANGED <<state, consents, hold, tape, ringing, rung, answering, closer>>
    BY DEF TurnArrives, handshake
  <1> QED BY <1>3, <1>4, <1>5

\* PassiveRecordIntake.finalize: once.
LEMMA FinalizedIs ==
    ASSUME intake \in Intake, NEW r \in FinalizeReason
    PROVE  /\ Finalized(r) \in Intake
           /\ Running => Finalized(r).status = "final" /\ Finalized(r).reason = r
           /\ ~Running => Finalized(r) = intake
  <1>1. Reason \in Degradation
    BY DEF Reason, Degradation
  <1> QED BY <1>1 DEF Finalized, Running, Intake

\* The end of the recording by the sweep.
LEMMA SweepEndsRecordingIs ==
    ASSUME hold \in Hold, intake \in Intake, leg \in Leg, Running,
           SweepSilence \/ SweepMaxDuration
    PROVE  /\ hold' \in Hold
           /\ hold'.phase = "HOLDING" /\ hold'.live = hold.live
           /\ hold'.offers = hold.offers /\ hold'.consented = hold.consented
           /\ hold'.spoke = hold.spoke /\ hold'.silences = hold.silences
           /\ hold'.outcome = hold.outcome
           /\ intake' \in Intake
           /\ intake'.status = "final"
           /\ intake'.reason \in {"SILENCE_TIMEOUT", "MAX_DURATION"}
           /\ leg' \in Leg
           /\ leg'.status = "closing" /\ leg'.age = leg.age /\ leg'.quiet = leg.quiet
           /\ state' \in {state, "INTAKE_COMPLETE"}
           /\ state \in {"QUEUED", "ABANDONED"} => state' = state
           /\ closer' = Sweep
           /\ UNCHANGED <<consents, tape, ringing, rung, answering>>
  <1>1. PICK r \in {"SILENCE_TIMEOUT", "MAX_DURATION"} : StopRecording(r)
    BY DEF SweepSilence, SweepMaxDuration
  <1>2. /\ hold' \in Hold
        /\ hold'.phase = "HOLDING" /\ hold'.live = hold.live
        /\ hold'.offers = hold.offers /\ hold'.consented = hold.consented
        /\ hold'.spoke = hold.spoke /\ hold'.silences = hold.silences
        /\ hold'.outcome = hold.outcome
    BY <1>1 DEF StopRecording, Hold, HoldPhase
  <1>3. intake' \in Intake /\ intake'.status = "final" /\ intake'.reason = r
    <2>1. r \in FinalizeReason
      BY DEF FinalizeReason
    <2> QED BY <1>1, <2>1, FinalizedIs DEF StopRecording
  <1>4. /\ state' \in {state, "INTAKE_COMPLETE"}
        /\ state \in {"QUEUED", "ABANDONED"} => state' = state
    BY <1>1 DEF StopRecording, AfterIntake
  <1>5. /\ leg' \in Leg
        /\ leg'.status = "closing" /\ leg'.age = leg.age /\ leg'.quiet = leg.quiet
    <2>1. CASE SweepSilence
      BY <2>1 DEF SweepSilence, Leg
    <2>2. CASE SweepMaxDuration
      BY <2>2 DEF SweepMaxDuration, Leg
    <2> QED BY <2>1, <2>2
  <1>6. closer' = Sweep /\ UNCHANGED <<consents, tape, ringing, rung, answering>>
    BY DEF SweepSilence, SweepMaxDuration, handshake
  <1> QED BY <1>2, <1>3, <1>4, <1>5, <1>6

\* The end of the hold by an agent.
LEMMA AgentAcceptedIs ==
    ASSUME hold \in Hold, intake \in Intake, Running <=> Recording, AgentAccepted
    PROVE  /\ hold' \in Hold
           /\ intake' \in Intake
           /\ hold'.live = FALSE
           /\ hold'.offers = hold.offers /\ hold'.consented = hold.consented
           /\ hold'.spoke = hold.spoke /\ hold'.silences = hold.silences
           /\ hold'.outcome = IF hold.live THEN EndingKind ELSE hold.outcome
           /\ Running => intake'.status = "final" /\ intake'.reason = "OFFER_ACCEPTED"
           /\ ~Running => intake' = intake
  <1>1. CASE hold.live
    <2>1. EndingKind \in HoldOutcome
      BY DEF EndingKind, HoldOutcome
    <2> DEFINE e == EndingKind
    <2>2. hold' = [hold EXCEPT !.phase = "DONE", !.live = FALSE, !.outcome = e]
      BY <1>1 DEF AgentAccepted
    <2> HIDE DEF e
    <2>3. /\ hold' \in Hold
          /\ hold'.live = FALSE
          /\ hold'.offers = hold.offers /\ hold'.consented = hold.consented
          /\ hold'.spoke = hold.spoke /\ hold'.silences = hold.silences
          /\ hold'.outcome = e
      BY <2>1, <2>2 DEF e, Hold, HoldPhase
    <2>4. /\ intake' \in Intake
          /\ Running => intake'.status = "final" /\ intake'.reason = "OFFER_ACCEPTED"
          /\ ~Running => intake' = intake
      <3>1. "OFFER_ACCEPTED" \in FinalizeReason
        BY DEF FinalizeReason
      <3>2. intake' = IF Running THEN Finalized("OFFER_ACCEPTED") ELSE intake
        BY <1>1 DEF AgentAccepted, Recording
      <3> QED BY <3>1, <3>2, FinalizedIs
    <2> QED BY <1>1, <2>3, <2>4 DEF e
  <1>2. CASE ~hold.live
    <2>1. UNCHANGED <<hold, intake>> /\ ~Running
      BY <1>2 DEF AgentAccepted, Recording
    <2>2. hold.live = FALSE
      BY <1>2 DEF Hold
    <2> QED BY <1>2, <2>1, <2>2
  <1> QED BY <1>1, <1>2

\* accept_offer after its drain, but for what AgentAccepted does.
LEMMA FinishAcceptIs ==
    ASSUME hold \in Hold, intake \in Intake, leg \in Leg, Running <=> Recording,
           NEW d \in Desks, FinishAccept(d)
    PROVE  /\ leg' \in Leg
           /\ leg'.status \in {leg.status, "shut"}
           /\ leg'.age = leg.age /\ leg'.quiet = leg.quiet
           /\ tape' = Sealed
           /\ AgentAccepted
           /\ answering[d] = "yes" /\ answering' = [answering EXCEPT ![d] = "done"]
           /\ closer' \in {closer, NoDesk}
           /\ state' = IF state = "OFFERED" /\ ringing = d THEN "IN_CALL" ELSE state
           /\ UNCHANGED <<consents, ringing, rung>>
  <1>1. /\ leg' \in Leg
        /\ leg'.status \in {leg.status, "shut"}
        /\ leg'.age = leg.age /\ leg'.quiet = leg.quiet
    <2>1. leg' = leg \/ leg' = [leg EXCEPT !.status = "shut"]
      BY DEF FinishAccept
    <2> QED BY <2>1 DEF Leg
  <1>2. closer' \in {closer, NoDesk}
    BY DEF FinishAccept
  <1> QED BY <1>1, <1>2 DEF FinishAccept

-----------------------------------------------------------------------------
(* HInv is inductive.                                                      *)

LEMMA InitHolds == Init => HInv
  BY HoldAssumption
  DEF Init, HInv, TypeOK, CallState, Scope, Hold, HoldPhase, HoldOutcome,
      Intake, FinalizeReason, Degradation, Leg, HeardWithConsent,
      OutcomeTellsIntake, ListensOnlyWhileRecording, Started, OfferedFirst,
      ClosedByAccept, Counters, Running, Recording, Granted

\* Every step keeps the types; the counters need Counters.
LEMMA TypeStep == HInv /\ [Next]_vars => TypeOK'
  <1> SUFFICES ASSUME HInv, [Next]_vars
               PROVE  TypeOK'
    OBVIOUS
  <1> USE HoldAssumption DEF HInv, TypeOK
  <1>a. {"INTAKE_ACTIVE", "INTAKE_COMPLETE", "MATCHED", "OFFERED", "IN_CALL",
         "WRAP_UP", "ABANDONED"} \subseteq CallState
    BY DEF CallState
  <1>1. CASE AcceptRecording
    BY <1>1, <1>a, AcceptRecordingIs DEF Scope
  <1>2. CASE DeclineRecording
    <2>1. /\ hold' \in Hold
          /\ consents' = consents \cup {<<"AI_PROCESSING", FALSE>>}
          /\ UNCHANGED <<state, intake, leg, tape, ringing, rung, answering, closer>>
      <3>1. "no" \in {"no", "unasked"}
        OBVIOUS
      <3> QED BY <1>2, <3>1, NoRecordingIs
    <2>2. consents' \subseteq Scope \X BOOLEAN
      <3>1. <<"AI_PROCESSING", FALSE>> \in Scope \X BOOLEAN
        BY DEF Scope
      <3> QED BY <2>1, <3>1
    <2> QED BY <2>1, <2>2
  <1>3. CASE IgnoreOffer
    BY <1>3, NoRecordingIs
  <1>4. CASE Match
    BY <1>4, <1>a DEF Match, handshake
  <1>5. CASE Speak
    <2>1. leg.said + 1 \in Nat /\ leg.pending + 1 \in Nat
      BY DEF Leg
    <2>2. leg' \in Leg
      BY <1>5, <2>1 DEF Speak, Leg
    <2> QED BY <1>5, <2>2 DEF Speak, handshake
  <1>6. CASE TurnArrives
    BY <1>6, TurnArrivesIs
  <1>7. CASE EngineFails
    <2>1. leg' \in Leg /\ hold' \in Hold
      BY <1>7 DEF EngineFails, Leg, Hold
    <2> QED BY <1>7, <2>1 DEF EngineFails, handshake
  <1>8. CASE GuardsDrop
    <2>1. leg' \in Leg
      BY <1>8 DEF GuardsDrop, Leg
    <2> QED BY <1>8, <2>1 DEF GuardsDrop, handshake
  <1>9. CASE TypeNote
    <2>1. intake' \in Intake
      BY <1>9 DEF TypeNote, Intake
    <2> QED BY <1>9, <2>1 DEF TypeNote, handshake
  <1>10. CASE HangUp
    BY <1>10, <1>a DEF HangUp
  <1>11. CASE SweepReprompt
    <2>1. hold.silences + 1 \in 0 .. MaxSilences
      BY <1>11 DEF SweepReprompt, Hold
    <2>2. hold' \in Hold
      BY <1>11, <2>1 DEF SweepReprompt, Hold
    <2>3. leg' \in Leg
      BY <1>11 DEF SweepReprompt, Leg
    <2> QED BY <1>11, <2>2, <2>3 DEF SweepReprompt, handshake
  <1>12. CASE SweepSilence \/ SweepMaxDuration
    <2>1. Running
      BY <1>12 DEF SweepSilence, SilenceHeard, SweepMaxDuration, OutcomeTellsIntake
    <2> QED BY <1>12, <1>a, <2>1, SweepEndsRecordingIs
  <1>13. CASE SweepGoesOn
    <2>1. leg' \in Leg
      BY <1>13 DEF SweepGoesOn, Leg
    <2> QED BY <1>13, <2>1 DEF SweepGoesOn, handshake
  <1>14. CASE SweepReoffer
    BY <1>14, OfferedIs DEF SweepReoffer, handshake
  <1>15. CASE TimePasses
    <2>1. hold' \in Hold
      BY <1>15 DEF TimePasses, Hold
    <2>2. leg' \in Leg
      <3>1. CASE leg.status = "open" /\ leg.age < MaxDuration
        <4>1. leg.age + 1 \in 0 .. MaxDuration /\ leg.quiet + 1 \in 0 .. MaxDuration
          BY <3>1 DEF Counters, Leg
        <4> QED BY <1>15, <3>1, <4>1 DEF TimePasses, Leg
      <3> QED BY <1>15, <3>1 DEF TimePasses
    <2> QED BY <1>15, <2>1, <2>2 DEF TimePasses, handshake
  <1>16. CASE Unanswered
    BY <1>16, <1>a DEF Unanswered
  <1>17. CASE PumpSealsTape
    BY <1>17 DEF PumpSealsTape, Sealed, handshake
  <1>18. CASE SweepUploads
    BY <1>18 DEF SweepUploads, handshake
  <1>19. ASSUME NEW d \in Desks, Ring(d)
           PROVE  TypeOK'
    BY <1>19, <1>a DEF Ring
  <1>20. ASSUME NEW d \in Desks, PressAccept(d)
           PROVE  TypeOK'
    <2>1. leg' \in Leg /\ closer' \in {closer, d}
      BY <1>20 DEF PressAccept, Leg
    <2> QED BY <1>20, <2>1 DEF PressAccept
  <1>21. ASSUME NEW d \in Desks, FinishAccept(d)
           PROVE  TypeOK'
    <2>1. hold' \in Hold /\ intake' \in Intake
      BY <1>21, FinishAcceptIs, AgentAcceptedIs DEF OutcomeTellsIntake
    <2> QED BY <1>21, <1>a, <2>1, FinishAcceptIs DEF Sealed, OutcomeTellsIntake
  <1>22. CASE UNCHANGED vars
    BY <1>22 DEF vars
  <1> QED BY <1>1, <1>2, <1>3, <1>4, <1>5, <1>6, <1>7, <1>8, <1>9, <1>10, <1>11,
      <1>12, <1>13, <1>14, <1>15, <1>16, <1>17, <1>18, <1>19, <1>20, <1>21, <1>22 DEF
      Next

\* Every step keeps the rest of HInv.
LEMMA SafeStep == HInv /\ TypeOK' /\ [Next]_vars => HInv'
  <1> SUFFICES ASSUME HInv, TypeOK', [Next]_vars
               PROVE  HInv'
    OBVIOUS
  <1> USE HoldAssumption DEF HInv, TypeOK, Running, Recording, Granted,
      HeardWithConsent, OutcomeTellsIntake, ListensOnlyWhileRecording, Started,
                             OfferedFirst, ClosedByAccept, Counters
  <1>1. CASE AcceptRecording
    <2>1. /\ hold.offers = 0 /\ ~hold.live
          /\ <<"RECORDING", TRUE>> \in consents' /\ <<"AI_PROCESSING", TRUE>> \in consents'
      BY <1>1, AcceptRecordingIs DEF AtFirstOffer, Scope
    <2>2. HeardWithConsent'
      BY <1>1, <2>1, AcceptRecordingIs
    <2>3. intake.status = "unstarted" /\ intake.reason = "none"
      BY <2>1 DEF Intake
    <2>4. OutcomeTellsIntake' /\ ListensOnlyWhileRecording'
      BY <1>1, <2>1, <2>3, AcceptRecordingIs
    <2>5. Started' /\ OfferedFirst'
      <3>1. /\ hold'.live = TRUE /\ hold'.offers = 1 /\ hold'.spoke = TRUE
            /\ hold'.outcome = hold.outcome /\ intake'.status = "running"
        BY <1>1, AcceptRecordingIs
      <3> QED BY <2>1, <3>1
    <2>6. Counters'
      <3>1. /\ hold'.silences = 0 /\ leg'.quiet = leg.quiet /\ leg'.age = leg.age
        BY <1>1, <2>1, AcceptRecordingIs
      <3> QED BY <3>1
    <2>7. ClosedByAccept'
      BY <1>1, <2>1, AcceptRecordingIs
    <2> QED BY <2>2, <2>4, <2>5, <2>6, <2>7
  <1>2. CASE DeclineRecording
    <2>1. /\ hold'.phase = "HOLDING" /\ hold'.live = TRUE
          /\ hold'.offers = 1 /\ hold'.spoke = hold.spoke
          /\ hold'.silences = hold.silences /\ hold'.outcome = hold.outcome
          /\ hold'.consented = "no"
          /\ consents' = consents \cup {<<"AI_PROCESSING", FALSE>>}
          /\ AtFirstOffer
          /\ UNCHANGED <<state, intake, leg, tape, ringing, rung, answering, closer>>
      <3>1. "no" \in {"no", "unasked"}
        OBVIOUS
      <3> QED BY <1>2, <3>1, NoRecordingIs
    <2>2. HeardWithConsent'
      BY <2>1 DEF AtFirstOffer
    <2>3. OutcomeTellsIntake' /\ ListensOnlyWhileRecording'
      BY <2>1 DEF AtFirstOffer
    <2>4. Started'
      BY <2>1 DEF AtFirstOffer
    <2>5. OfferedFirst' /\ ClosedByAccept' /\ Counters'
      BY <2>1 DEF AtFirstOffer
    <2> QED BY <2>2, <2>3, <2>4, <2>5
  <1>3. CASE IgnoreOffer
    BY <1>3, NoRecordingIs DEF AtFirstOffer
  <1>4. CASE Match
    BY <1>4 DEF Match, handshake
  <1>5. CASE Speak
    <2>1. leg'.status = leg.status /\ leg'.quiet = leg.quiet /\ leg'.age = leg.age
      BY <1>5 DEF Speak, Leg
    <2> QED BY <1>5, <2>1 DEF Speak, handshake
  <1>6. CASE TurnArrives
    BY <1>6, TurnArrivesIs DEF Leg
  <1>7. CASE EngineFails
    BY <1>7 DEF EngineFails, handshake, Leg, Hold
  <1>8. CASE GuardsDrop
    BY <1>8 DEF GuardsDrop, handshake, Leg
  <1>9. CASE TypeNote
    BY <1>9 DEF TypeNote, handshake, Intake
  <1>10. CASE HangUp
    BY <1>10 DEF HangUp
  <1>11. CASE SweepReprompt
    BY <1>11 DEF SweepReprompt, SilenceHeard, handshake, Leg, Hold
  <1>12. CASE SweepSilence \/ SweepMaxDuration
    <2>1. Running
      BY <1>12 DEF SweepSilence, SilenceHeard, SweepMaxDuration
    <2> QED BY <1>12, <2>1, SweepEndsRecordingIs
  <1>13. CASE SweepGoesOn
    BY <1>13 DEF SweepGoesOn, handshake, Leg
  <1>14. CASE SweepReoffer
    <2>1. /\ hold.live /\ hold.phase = "HOLDING" /\ hold.offers < 2 /\ hold' = Offered
          /\ UNCHANGED <<state, consents, intake, leg, tape, ringing, rung, answering, closer>>
      BY <1>14 DEF SweepReoffer, handshake
    <2>2. /\ hold'.phase = "OFFERING" /\ hold'.live = TRUE
          /\ hold'.offers = hold.offers + 1
          /\ hold'.consented = hold.consented /\ hold'.spoke = hold.spoke
          /\ hold'.silences = hold.silences /\ hold'.outcome = hold.outcome
      BY <2>1, OfferedIs
    <2>3. hold.offers + 1 > 0
      BY DEF Hold
    <2> QED BY <2>1, <2>2, <2>3
  <1>15. CASE TimePasses
    BY <1>15 DEF TimePasses, handshake, Leg, Hold
  <1>16. CASE Unanswered
    BY <1>16 DEF Unanswered
  <1>17. CASE PumpSealsTape
    BY <1>17 DEF PumpSealsTape, Sealed, handshake
  <1>18. CASE SweepUploads
    BY <1>18 DEF SweepUploads, handshake
  <1>19. ASSUME NEW d \in Desks, Ring(d)
           PROVE  HInv'
    BY <1>19 DEF Ring
  <1>20. ASSUME NEW d \in Desks, PressAccept(d)
           PROVE  HInv'
    BY <1>20 DEF PressAccept, Leg
  <1>21. ASSUME NEW d \in Desks, FinishAccept(d)
           PROVE  HInv'
    <2>1. /\ leg'.status \in {leg.status, "shut"}
          /\ leg'.age = leg.age /\ leg'.quiet = leg.quiet
          /\ tape' = Sealed
          /\ answering[d] = "yes" /\ answering' = [answering EXCEPT ![d] = "done"]
          /\ state' = IF state = "OFFERED" /\ ringing = d THEN "IN_CALL" ELSE state
          /\ UNCHANGED <<consents, ringing, rung>>
      BY <1>21, FinishAcceptIs
    <2>2. /\ hold'.live = FALSE
          /\ hold'.offers = hold.offers /\ hold'.consented = hold.consented
          /\ hold'.spoke = hold.spoke /\ hold'.silences = hold.silences
          /\ hold'.outcome = IF hold.live THEN EndingKind ELSE hold.outcome
          /\ Running => intake'.status = "final" /\ intake'.reason = "OFFER_ACCEPTED"
          /\ ~Running => intake' = intake
      BY <1>21, FinishAcceptIs, AgentAcceptedIs
    <2>3. HeardWithConsent'
      BY <2>1, <2>2 DEF Sealed
    <2>4. OutcomeTellsIntake'
      <3>1. intake.status \in {"unstarted", "running", "final"} /\ intake.reason \in FinalizeReason \cup {"none"}
        BY DEF Intake
      <3> QED BY <2>2, <3>1 DEF EndingKind, FinalizeReason
    <2>5. ListensOnlyWhileRecording' /\ ClosedByAccept'
      BY <2>1, <2>2
    <2>6. Started' /\ OfferedFirst' /\ Counters'
      BY <2>1, <2>2
    <2> QED BY <2>3, <2>4, <2>5, <2>6
  <1>22. CASE UNCHANGED vars
    BY <1>22 DEF vars
  <1> QED BY <1>1, <1>2, <1>3, <1>4, <1>5, <1>6, <1>7, <1>8, <1>9, <1>10, <1>11,
      <1>12, <1>13, <1>14, <1>15, <1>16, <1>17, <1>18, <1>19, <1>20, <1>21, <1>22 DEF
      Next

\* HInv, in every reachable state, for all values of the constants.
THEOREM HoldInvariant == Spec => []HInv
  BY InitHolds, TypeStep, SafeStep, PTL DEF Spec

\* Every counter stays within its limit and every variable keeps its type.
THEOREM HoldTypeCorrect == Spec => []TypeOK
  BY HoldInvariant, PTL DEF HInv

\* Nothing is listened to or stored without consent, and a refusal is on file.
THEOREM ConsentHolds == Spec => []HeardWithConsent
  BY HoldInvariant, PTL DEF HInv

\* The hold and the intake agree on whether a recording runs and how it ended.
THEOREM OneStory == Spec => []OutcomeTellsIntake
  BY HoldInvariant, PTL DEF HInv

\* The transcriber listens to nobody whose recording has ended.
THEOREM NobodyOverheard == Spec => []ListensOnlyWhileRecording
  BY HoldInvariant, PTL DEF HInv

\* A result, once there, is never another one.
LEMMA ResultStep == HInv /\ [Next]_vars => (intake.status = "final" => UNCHANGED intake)
  <1> SUFFICES ASSUME HInv, [Next]_vars, intake.status = "final"
               PROVE  UNCHANGED intake
    OBVIOUS
  <1>1. ~Running /\ ~Recording /\ ~AtFirstOffer
    BY DEF HInv, TypeOK, OutcomeTellsIntake, Started, Running, AtFirstOffer
  <1>2. ASSUME NEW d \in Desks, FinishAccept(d)
        PROVE  UNCHANGED intake
    BY <1>1, <1>2, Zenon DEF FinishAccept, AgentAccepted, Finalized
  <1>3. ASSUME NEW d \in Desks, Ring(d) \/ PressAccept(d)
        PROVE  UNCHANGED intake
    BY <1>3, Zenon DEF Ring, PressAccept
  <1>4. CASE TurnArrives
    BY <1>1, <1>4, Zenon DEF TurnArrives
  <1>5. CASE SweepSilence \/ SweepReprompt \/ SweepMaxDuration
    BY <1>1, <1>5, Zenon DEF SweepSilence, SweepReprompt, SweepMaxDuration, SilenceHeard
  <1>6. CASE AcceptRecording \/ DeclineRecording \/ IgnoreOffer \/ TypeNote
    BY <1>1, <1>6, Zenon DEF AcceptRecording, DeclineRecording, IgnoreOffer, TypeNote
  <1>7. CASE Match \/ Speak \/ EngineFails \/ GuardsDrop \/ HangUp
    BY <1>7, Zenon DEF Match, Speak, EngineFails, GuardsDrop, HangUp
  <1>8. CASE SweepGoesOn \/ SweepReoffer \/ TimePasses \/ Unanswered
             \/ PumpSealsTape \/ SweepUploads
    BY <1>8, Zenon DEF SweepGoesOn, SweepReoffer, TimePasses, Unanswered,
        PumpSealsTape, SweepUploads
  <1>9. CASE UNCHANGED vars
    BY <1>9, Zenon DEF vars
  <1> QED BY <1>2, <1>3, <1>4, <1>5, <1>6, <1>7, <1>8, <1>9 DEF Next

\* Whichever ending comes first stands: a result is never written over (PassiveRecordIntake).
THEOREM FirstEndingStands == Spec => ResultIsFinal
  <1>1. HInv /\ [Next]_vars => [intake.status = "final" => UNCHANGED intake]_vars
    BY ResultStep
  <1> QED BY <1>1, HoldInvariant, PTL DEF Spec, ResultIsFinal

-----------------------------------------------------------------------------
(* The promise to the caller.                                              *)

\* The desk of the offer handshake, as far as it is kept here: somebody rings
\* for, talks to or files for exactly the callers who are past matching.
WhoRings ==
    /\ state = "OFFERED" => ringing \in Desks
    /\ state \in {"OFFERED", "IN_CALL", "WRAP_UP"} <=> ringing # NoDesk

\* Every step keeps WhoRings.
LEMMA WhoRingsStep == TypeOK /\ WhoRings /\ [Next]_vars => WhoRings'
  <1> SUFFICES ASSUME TypeOK, WhoRings, [Next]_vars
               PROVE  WhoRings'
    OBVIOUS
  <1> USE HoldAssumption DEF WhoRings
  <1>1. CASE UNCHANGED <<state, ringing>>
    BY <1>1
  <1>2. CASE AcceptRecording
    BY <1>2 DEF AcceptRecording, AtFirstOffer, handshake
  <1>3. CASE Match
    BY <1>3 DEF Match, handshake
  <1>4. CASE HangUp
    BY <1>4 DEF HangUp
  <1>5. CASE SweepSilence \/ SweepMaxDuration
    BY <1>5 DEF SweepSilence, SweepMaxDuration, StopRecording, AfterIntake, handshake
  <1>6. CASE Unanswered
    BY <1>6 DEF Unanswered
  <1>7. ASSUME NEW d \in Desks, Ring(d)
        PROVE  WhoRings'
    BY <1>7 DEF Ring
  <1>8. ASSUME NEW d \in Desks, FinishAccept(d)
        PROVE  WhoRings'
    BY <1>8 DEF FinishAccept
  <1>9. ASSUME NEW d \in Desks, PressAccept(d)
        PROVE  UNCHANGED <<state, ringing>>
    BY <1>9, Zenon DEF PressAccept
  <1>10. CASE DeclineRecording \/ IgnoreOffer \/ Speak \/ TurnArrives \/ EngineFails
              \/ GuardsDrop \/ TypeNote
    BY <1>1, <1>10, Zenon
    DEF DeclineRecording, IgnoreOffer, Speak, TurnArrives, EngineFails, GuardsDrop,
        TypeNote, handshake
  <1>11. CASE SweepReprompt \/ SweepGoesOn \/ SweepReoffer \/ TimePasses
              \/ PumpSealsTape \/ SweepUploads \/ UNCHANGED vars
    BY <1>1, <1>11, Zenon
    DEF SweepReprompt, SweepGoesOn, SweepReoffer, TimePasses, PumpSealsTape,
        SweepUploads, handshake, vars
  <1> QED BY <1>1, <1>2, <1>3, <1>4, <1>5, <1>6, <1>7, <1>8, <1>9, <1>10, <1>11 DEF Next

\* A step of CallerService, from the phases before and after.
LEMMA CallerSteps ==
    ASSUME NEW a, ringing' = a
    PROVE  Promise!Step("caller", CallerPhase, CallerPhase', a)
  BY DEF Promise!Step

LEMMA PromiseInit == Init => Promise!Init
  BY DEF Init, Promise!Init, CallerPhase

\* Every step is a promised step or a stutter.
LEMMA PromiseStep ==
    TypeOK /\ WhoRings /\ [Next]_vars => [Promise!Next]_(Promise!vars)
  <1> SUFFICES ASSUME TypeOK, WhoRings, [Next]_vars
               PROVE  [Promise!Next]_(Promise!vars)
    OBVIOUS
  <1> USE HoldAssumption DEF WhoRings
  <1>a. Promise!Step("caller", CallerPhase, CallerPhase', ringing')
    BY CallerSteps
  <1>1. CASE CallerPhase' = CallerPhase /\ ringing' = ringing
    BY <1>1 DEF Promise!vars
  <1>2. CASE AcceptRecording
    BY <1>1, <1>2 DEF AcceptRecording, AtFirstOffer, handshake, CallerPhase
  <1>3. CASE Match
    <2>1. CallerPhase = "arriving" /\ CallerPhase' = "waiting" /\ ringing' = NoDesk
      BY <1>3 DEF Match, handshake, CallerPhase
    <2> QED BY <1>a, <2>1 DEF Promise!Next, Promise!Queue
  <1>4. CASE HangUp
    <2>1. CASE state = "IN_CALL"
      <3>1. CallerPhase = "talking" /\ CallerPhase' = "filing" /\ ringing' = ringing
        BY <1>4, <2>1 DEF HangUp, CallerPhase
      <3> QED BY <1>a, <3>1 DEF Promise!Next, Promise!Disconnect
    <2>2. CASE state # "IN_CALL"
      <3>1. /\ CallerPhase \in {"arriving", "waiting", "ringing"}
            /\ CallerPhase' = "gone" /\ ringing' = NoDesk
        BY <1>4, <2>2 DEF HangUp, CallerPhase
      <3> QED BY <1>a, <3>1 DEF Promise!Next, Promise!HangUp
    <2> QED BY <2>1, <2>2
  <1>5. CASE SweepSilence \/ SweepMaxDuration
    <2>1. CallerPhase' = CallerPhase /\ ringing' = ringing
      BY <1>5 DEF SweepSilence, SweepMaxDuration, StopRecording, AfterIntake,
          handshake, CallerPhase
    <2> QED BY <1>1, <2>1
  <1>6. CASE Unanswered
    <2>1. CallerPhase = "ringing" /\ CallerPhase' = "waiting" /\ ringing' = NoDesk
      BY <1>6 DEF Unanswered, CallerPhase
    <2> QED BY <1>a, <2>1 DEF Promise!Next, Promise!Unanswered
  <1>7. ASSUME NEW d \in Desks, Ring(d)
        PROVE  [Promise!Next]_(Promise!vars)
    <2>1. CallerPhase = "waiting" /\ CallerPhase' = "ringing" /\ ringing' = d
      BY <1>7 DEF Ring, CallerPhase
    <2> QED BY <1>a, <2>1 DEF Promise!Next, Promise!Ring
  <1>8. ASSUME NEW d \in Desks, FinishAccept(d)
        PROVE  [Promise!Next]_(Promise!vars)
    <2>1. CASE state = "OFFERED" /\ ringing = d
      <3>1. CallerPhase = "ringing" /\ CallerPhase' = "talking" /\ ringing' = ringing
        BY <1>8, <2>1 DEF FinishAccept, CallerPhase
      <3> QED BY <1>a, <3>1 DEF Promise!Next, Promise!Answer
    <2>2. CASE ~(state = "OFFERED" /\ ringing = d)
      BY <1>1, <1>8, <2>2 DEF FinishAccept, CallerPhase
    <2> QED BY <2>1, <2>2
  <1>9. ASSUME NEW d \in Desks, PressAccept(d)
        PROVE  [Promise!Next]_(Promise!vars)
    BY <1>1, <1>9 DEF PressAccept, CallerPhase
  <1>10. CASE DeclineRecording \/ IgnoreOffer \/ Speak \/ TurnArrives \/ EngineFails
              \/ GuardsDrop \/ TypeNote
    <2>1. UNCHANGED <<state, ringing>>
      BY <1>10, Zenon
      DEF DeclineRecording, IgnoreOffer, Speak, TurnArrives, EngineFails, GuardsDrop,
          TypeNote, handshake
    <2> QED BY <1>1, <2>1 DEF CallerPhase
  <1>11. CASE SweepReprompt \/ SweepGoesOn \/ SweepReoffer \/ TimePasses
              \/ PumpSealsTape \/ SweepUploads \/ UNCHANGED vars
    <2>1. UNCHANGED <<state, ringing>>
      BY <1>11, Zenon
      DEF SweepReprompt, SweepGoesOn, SweepReoffer, TimePasses, PumpSealsTape,
          SweepUploads, handshake, vars
    <2> QED BY <1>1, <2>1 DEF CallerPhase
  <1> QED BY <1>2, <1>3, <1>4, <1>5, <1>6, <1>7, <1>8, <1>9, <1>10, <1>11 DEF Next

\* Offering, recording and every way of ending it leave the caller on the way
\* to an agent that CallerService promises.
THEOREM HoldPromiseKept == Spec => HoldKeepsPromise
  <1>1. Init => WhoRings
    BY DEF Init, WhoRings
  <1> QED
    BY <1>1, HoldTypeCorrect, WhoRingsStep, PromiseInit, PromiseStep, PTL
    DEF Spec, HoldKeepsPromise, Promise!Spec

=============================================================================
