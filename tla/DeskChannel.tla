---------------------------- MODULE DeskChannel -----------------------------
(***************************************************************************)
(* What reaches the agent's screen: the turns and the summary of a call    *)
(* (CallSummary, over TranscriptFeed), and the link every message of the   *)
(* hub goes through (AgentSocket).                                         *)
(*                                                                         *)
(* They meet in one call: the delivery's Show is the hub's Send, which     *)
(* numbers the message and never looks into it.  So a property of one is   *)
(* decided by the behaviours in which only that one moves.  `side` says    *)
(* which.                                                                  *)
(***************************************************************************)
EXTENDS CallSummary, AgentSocket

VARIABLE side

vars == <<transcriptVars, socketVars, side>>

Init ==
    /\ side \in {"transcript", "socket"}
    /\ TranscriptInit /\ SocketInit

InTranscript == side = "transcript" /\ UNCHANGED <<socketVars, side>>

InSocket == side = "socket" /\ UNCHANGED <<transcriptVars, side>>

Next ==
    \/ InTranscript /\ TranscriptNext
    \/ InSocket /\ SocketNext

\* The pump wakes for ever, a drain with an event in hand goes on, a task that
\* was created runs, and the model's deadline bounds it.
TranscriptFairness ==
    /\ WF_vars(InTranscript /\ Pop("pump") /\ UNCHANGED summaryVars)
    /\ \A d \in Drainers :
           WF_vars(InTranscript /\ (NextHandler(d) \/ EventDone(d)) /\ UNCHANGED summaryVars)
    /\ \A t \in Tasks :
           /\ WF_vars(InTranscript /\ Begin(t))
           /\ WF_vars(InTranscript /\ (NoAnswer(t) \/ SummaryAnswer(t)))

Spec == Init /\ [][Next]_vars /\ TranscriptFairness

-----------------------------------------------------------------------------
(* What must hold, and what must happen.                                   *)

\* A desk is sent the words of its own caller and a tab the messages of its own
\* session, and nobody else's (D52, D106, B27).
ReadsItsOwn == OnlyTheTakerReads /\ NobodyElsesMessages

\* The words reach the screen of whoever took the call and the recorder, in
\* order and by themselves: no request need come to carry them, and a handler
\* that raises costs nobody else's event.
TurnsReachTheDesk ==
    said > 0 ~> /\ recorded = 1 .. said
                /\ phase = "connected" => screen[desk] = Newest
=============================================================================
