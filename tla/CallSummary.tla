----------------------------- MODULE CallSummary -----------------------------
(***************************************************************************)
(* The model's summary of a call, over the transcript that has reached the *)
(* delivery: summarise_call, its previews while the card rings and its     *)
(* final pass after the accept (api/deps.py).                              *)
(*                                                                         *)
(* Every pass is a task: it reads the turns and what is held, asks the     *)
(* model, and writes when the answer comes, if one comes.                  *)
(***************************************************************************)
EXTENDS TranscriptFeed

CONSTANT MaxPreviews   \* _MAX_PREVIEWS

ASSUME SummaryAssumption == MaxPreviews \in Nat

VARIABLES
    summary,   \* ai_summaries and ai_summary_turns for the call
    previews,  \* ai_preview_count
    task       \* per task: not there, due, or the turns it asked about

summaryVars == <<summary, previews, task>>

transcriptVars == <<feedVars, summaryVars>>

Absent == [stage |-> "absent", of |-> <<>>]

\* One task per offer, the sweep's own, and the one the accept starts.
Tasks == (1 .. MaxOffers) \cup {MaxOffers + 1, MaxOffers + 2}

Sweep == MaxOffers + 1

Final == MaxOffers + 2

NoSummary == [of |-> <<>>, final |-> FALSE]

TranscriptInit ==
    /\ FeedInit
    /\ summary = NoSummary /\ previews = 0
    /\ task = [t \in Tasks |-> Absent]

\* What makes summarise_call return at once.
Worthless(t) ==
    \/ held = <<>>
    \/ summary.final
    \/ t # Final /\ summary # NoSummary /\ Len(held) <= Len(summary.of)
    \/ t # Final /\ previews >= MaxPreviews

Begin(t) ==
    /\ task[t].stage = "due"
    /\ task' = [task EXCEPT ![t] = IF Worthless(t) THEN Absent
                                   ELSE [stage |-> "asking", of |-> held]]
    /\ UNCHANGED <<feedVars, summary, previews>>

\* refresh_previews, while the card rings: one at a time, as the sweep waits.
RefreshPreview ==
    /\ phase \in {"ringing", "accepting"} /\ ~summary.final
    /\ task[Sweep] = Absent /\ ~Worthless(Sweep)
    /\ task' = [task EXCEPT ![Sweep] = [stage |-> "asking", of |-> held]]
    /\ UNCHANGED <<feedVars, summary, previews>>

\* Too little said, a model that fails, declines or states a figure.
NoAnswer(t) ==
    /\ task[t].stage = "asking"
    /\ task' = [task EXCEPT ![t] = Absent]
    /\ UNCHANGED <<feedVars, summary, previews>>

\* A slip: whoever answers last is believed.
AnswerOverwrites(t) ==
    /\ task[t].stage = "asking"
    /\ summary' = [of |-> task[t].of, final |-> t = Final]
    /\ previews' = IF t # Final /\ previews < MaxPreviews THEN previews + 1 ELSE previews
    /\ task' = [task EXCEPT ![t] = Absent]
    /\ UNCHANGED feedVars

\* A preview that comes after the final pass is thrown away.
SummaryAnswer(t) ==
    /\ task[t].stage = "asking"
    /\ IF summary.final /\ t # Final
       THEN UNCHANGED <<summary, previews>>
       ELSE /\ summary' = [of |-> task[t].of, final |-> t = Final]
            /\ previews' = IF t # Final THEN previews + 1 ELSE previews
    /\ task' = [task EXCEPT ![t] = Absent]
    /\ UNCHANGED feedVars

-----------------------------------------------------------------------------
\* The dispatcher's on_offer hook, and accept_offer: each starts a task.
StartsTask ==
    task' = CASE offers' > offers -> [task EXCEPT ![offers'].stage = "due"]
              [] phase = "accepting" /\ phase' = "connected" ->
                    [task EXCEPT ![Final].stage = "due"]
              [] OTHER -> task

TranscriptNext ==
    \/ FeedNext /\ StartsTask /\ UNCHANGED <<summary, previews>>
    \/ RefreshPreview
    \/ \E t \in Tasks : Begin(t) \/ NoAnswer(t) \/ SummaryAnswer(t)

-----------------------------------------------------------------------------
(* What must hold.                                                         *)

\* "a final result is never replaced by anything" (deps.py:1116): not by a
\* preview that was still being written when the agent pressed Accept.
FinalIsNeverReplaced == [][summary.final => summary' = summary]_transcriptVars
=============================================================================
