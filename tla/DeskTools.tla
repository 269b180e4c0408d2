----------------------------- MODULE DeskTools -----------------------------
(***************************************************************************)
(* The tools an agent has beside a call: the keypad capture, the           *)
(* customer's screen, the comparison of plans and its written reasons, the *)
(* record of the agent's own calls, the roster for a transfer and the      *)
(* switch of the language model.                                           *)
(*                                                                         *)
(* They share the agent's page and nothing else: no handler of one reads   *)
(* or writes the state of another, so a behaviour of them all is a shuffle *)
(* of one of each, and a property about one of them is decided by the      *)
(* behaviours in which only that one moves.  `tool` says which.  A switch  *)
(* of the model empties the comparison's caches as well: ComparisonReasons *)
(* has that half of it as a step of its own.                               *)
(***************************************************************************)
EXTENDS KeypadCapture, PairedScreen, ComparisonReasons, PlanTable,
        AgentsCalls, TransferRoster, ModelSwitch

VARIABLE tool

vars == <<captureVars, screenVars, comparisonVars, tableVars, recordVars, rosterVars, switchVars,
          tool>>

\* What a tool reads of the floor is fixed where it is not the subject.
Init ==
    /\ tool \in {"keypad", "screen", "comparison", "plans", "record", "roster", "models"}
    /\ CaptureInit /\ ScreenInit /\ ComparisonInit
    /\ tool # "comparison" => picked = CHOOSE l \in Lines : TRUE
    /\ IF tool = "plans" THEN TableInit ELSE NoTable
    /\ IF tool = "record" THEN RecordInit ELSE NoRecord
    /\ IF tool = "roster" THEN RosterInit ELSE NoRoster
    /\ IF tool = "models" THEN SwitchInit ELSE NoSwitch

Next ==
    /\ UNCHANGED tool
    /\ \/ /\ tool = "keypad"
          /\ CaptureRestart \/ \E t \in Tabs : CaptureStep(t)
          /\ UNCHANGED <<screenVars, comparisonVars, tableVars, recordVars, rosterVars, switchVars>>
       \/ /\ tool = "screen" /\ ScreenStep
          /\ UNCHANGED <<captureVars, comparisonVars, tableVars, recordVars, rosterVars, switchVars>>
       \/ /\ tool = "comparison" /\ ComparisonStep
          /\ UNCHANGED <<captureVars, screenVars, tableVars, recordVars, rosterVars, switchVars>>
       \/ /\ tool = "plans" /\ TableStep
          /\ UNCHANGED <<captureVars, screenVars, comparisonVars, recordVars, rosterVars, switchVars>>
       \/ /\ tool = "record" /\ RecordStep
          /\ UNCHANGED <<captureVars, screenVars, comparisonVars, tableVars, rosterVars, switchVars>>
       \/ /\ tool = "roster" /\ RosterStep
          /\ UNCHANGED <<captureVars, screenVars, comparisonVars, tableVars, recordVars, switchVars>>
       \/ /\ tool = "models" /\ SwitchStep
          /\ UNCHANGED <<captureVars, screenVars, comparisonVars, tableVars, recordVars, rosterVars>>

Alone ==
    /\ tool = "comparison"
    /\ UNCHANGED <<captureVars, screenVars, tableVars, recordVars, rosterVars, switchVars, tool>>

\* A model has a deadline, a task that was started runs; the panel's timer
\* fires, and its requests are answered or lost.
Fairness ==
    /\ \A t \in Task : WF_comparisonVars(Alone /\ \E is \in Outcome : Written(t, is))
    /\ \A q \in Requests : /\ WF_comparisonVars(Alone /\ Answers(q))
                           /\ WF_comparisonVars(Alone /\ Arrives(q))
                           /\ WF_comparisonVars(Alone /\ AsksAgain(q))

Spec == Init /\ [][Next]_vars /\ Fairness

\* To whom a call may go: what is offered is taken, what is listed is the floor.
HandOverWorks == OptionsAreHonoured /\ RosterIsTheFloor
=============================================================================
