--------------------------- MODULE CallLifecycle ---------------------------
(***************************************************************************)
(* The life of one call: the states a call session may be in and the       *)
(* transition table every change of state is checked against.              *)
(* CallOrchestrator.transition is the single writer of session.state, and  *)
(* it refuses any move this table does not list.                           *)
(***************************************************************************)

CallState ==
    {"INTENT_CREATED", "CONNECTING", "IVR", "QUEUED", "INTAKE_ACTIVE",
     "INTAKE_COMPLETE", "MATCHED", "OFFERED", "IN_CALL", "WRAP_UP",
     "CLOSED", "ABANDONED", "VOICEMAIL", "TRANSFERRED", "FAILED"}

TerminalStates ==
    {"CLOSED", "ABANDONED", "VOICEMAIL", "TRANSFERRED", "FAILED"}

StartStates == {"INTENT_CREATED", "CONNECTING"}

Transitions ==
    [s \in CallState |->
        CASE s = "INTENT_CREATED" -> {"CONNECTING", "FAILED"}
          [] s = "CONNECTING" -> {"IVR", "QUEUED", "ABANDONED", "FAILED"}
          [] s = "IVR" -> {"QUEUED", "VOICEMAIL", "ABANDONED", "FAILED"}
          [] s = "QUEUED" -> {"INTAKE_ACTIVE", "MATCHED", "VOICEMAIL", "ABANDONED", "FAILED"}
          [] s = "INTAKE_ACTIVE" -> {"INTAKE_COMPLETE", "MATCHED", "ABANDONED", "FAILED"}
          [] s = "INTAKE_COMPLETE" -> {"MATCHED", "ABANDONED", "FAILED"}
          [] s = "MATCHED" -> {"OFFERED", "MATCHED", "QUEUED", "ABANDONED", "FAILED"}
          [] s = "OFFERED" -> {"IN_CALL", "MATCHED", "ABANDONED", "FAILED"}
          [] s = "IN_CALL" -> {"WRAP_UP", "TRANSFERRED", "FAILED"}
          [] s = "WRAP_UP" -> {"CLOSED", "FAILED"}
          [] OTHER -> {}]

(* machine.can: what assert_can lets through and transition performs. *)
CanMove(from, to) == to \in Transitions[from]

=============================================================================
