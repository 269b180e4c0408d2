------------------------- MODULE ComparisonReasons -------------------------
(***************************************************************************)
(* The model's sentences beside a comparison of plans, for one call: the   *)
(* endpoint and its background task (api/routers/agent.py), the switch to  *)
(* another model (apply_llm_choice in api/deps.py), and the panel that     *)
(* asks again for as long as it is told that more is coming (App.tsx).     *)
(*                                                                         *)
(* The endpoint answers at once from a cache and starts a task where       *)
(* nothing is cached or under way.  The requests of a panel may overtake   *)
(* each other.  What the sentences say is abstracted to whose they are.    *)
(***************************************************************************)
EXTENDS Naturals, FiniteSets

CONSTANTS
    Lines,         \* product lines with a comparison
    MaxAttempts,   \* _COMPARISON_REASON_MAX_ATTEMPTS
    MaxSwitches,   \* bound: switches to another model
    MaxPicks,      \* bound: times the agent picks a line
    Requests       \* bound: requests of the panel in flight at once

ASSUME ComparisonAssumption ==
    /\ MaxAttempts \in Nat \ {0} /\ MaxSwitches \in Nat /\ MaxPicks \in Nat

VARIABLES
    model,      \* the model that writes, by the number of switches before it
    cache,      \* comparison_reason_cache: whose answer, or NoAnswer
    inflight,   \* comparison_reason_inflight
    attempts,   \* comparison_reason_attempts
    writing,    \* tasks that wait for a model
    picked,     \* the line selected
    picks,
    query,      \* per request: not there, the line asked for, or what was answered
    panel       \* the comparison shown, and whether its timer is still to fire

comparisonVars == <<model, cache, inflight, attempts, writing, picked, picks, query, panel>>

Models == 0 .. MaxSwitches

\* What a model leaves in the cache: sentences, or the fact that all were refused.
Outcome == {"none", "sentences", "refused"}

NoAnswer == [by |-> 0, is |-> "none"]

NotThere == [at |-> "none"]

Nobody == [line |-> "none", pending |-> FALSE, armed |-> FALSE]

\* A task is known by its line, its model and the attempt it is.
Task == [line : Lines, by : Models, attempt : 1 .. MaxAttempts]

ComparisonInit ==
    /\ model = 0 /\ picks = 0
    /\ cache = [l \in Lines |-> NoAnswer]
    /\ inflight = {} /\ attempts = [l \in Lines |-> 0] /\ writing = {}
    /\ picked \in Lines
    /\ query = [q \in Requests |-> NotThere]
    /\ panel = Nobody

serverVars == <<model, cache, inflight, attempts, writing>>
panelVars == <<picked, picks, query, panel>>

-----------------------------------------------------------------------------
(* The server.                                                             *)

Starts(l) == cache[l].is = "none" /\ l \notin inflight /\ attempts[l] < MaxAttempts

\* More is coming: a task is under way, or this request starts one.
Pending(l) == cache[l].is = "none" /\ (l \in inflight \/ attempts[l] < MaxAttempts)

Answers(q) ==
    /\ query[q].at = "sent"
    /\ LET l == query[q].line IN
       /\ query' = [query EXCEPT ![q] = [at |-> "answered", line |-> l, pending |-> Pending(l)]]
       /\ IF Starts(l)
          THEN /\ attempts' = [attempts EXCEPT ![l] = @ + 1]
               /\ inflight' = inflight \cup {l}
               /\ writing' = writing \cup {[line |-> l, by |-> model, attempt |-> attempts[l] + 1]}
          ELSE UNCHANGED <<attempts, inflight, writing>>
    /\ UNCHANGED <<model, cache, picked, picks, panel>>

\* A slip: only an answer clears the flag.
WrittenClearsOnAnswer(t, is) ==
    /\ t \in writing
    /\ writing' = writing \ {t}
    /\ IF is = "none" THEN UNCHANGED <<cache, inflight>>
       ELSE /\ cache' = [cache EXCEPT ![t.line] = [by |-> t.by, is |-> is]]
            /\ inflight' = inflight \ {t.line}
    /\ UNCHANGED <<model, attempts, panelVars>>

\* The task ends: with sentences, with all of them refused, or not at all,
\* which is not cached.
Written(t, is) ==
    /\ t \in writing
    /\ writing' = writing \ {t}
    /\ cache' = IF is = "none" THEN cache
                ELSE [cache EXCEPT ![t.line] = [by |-> t.by, is |-> is]]
    /\ inflight' = inflight \ {t.line}
    /\ UNCHANGED <<model, attempts, panelVars>>

\* Tasks of the model before go on.
SwitchModel ==
    /\ model < MaxSwitches
    /\ model' = model + 1
    /\ cache' = [l \in Lines |-> NoAnswer]
    /\ inflight' = {} /\ attempts' = [l \in Lines |-> 0]
    /\ UNCHANGED <<writing, panelVars>>

-----------------------------------------------------------------------------
(* The panel.                                                              *)

Free == {q \in Requests : query[q] = NotThere}

Ask(q, l) == query' = [query EXCEPT ![q] = [at |-> "sent", line |-> l]]

\* Opening the panel is picking its first line.
PickLine(q, l) ==
    /\ q \in Free /\ picks < MaxPicks
    /\ picks' = picks + 1 /\ picked' = l
    /\ Ask(q, l)
    /\ UNCHANGED <<serverVars, panel>>

\* A request that fails empties the panel.
Arrives(q) ==
    /\ query[q].at = "answered"
    /\ query' = [query EXCEPT ![q] = NotThere]
    /\ panel' = [line |-> query[q].line, pending |-> query[q].pending, armed |-> query[q].pending]
    /\ UNCHANGED <<serverVars, picked, picks>>

Lost(q) ==
    /\ query[q].at # "none"
    /\ query' = [query EXCEPT ![q] = NotThere]
    /\ panel' = Nobody
    /\ UNCHANGED <<serverVars, picked, picks>>

\* The timer fires once for every answer that says more is coming, and asks
\* for the line picked by now.
AsksAgain(q) ==
    /\ q \in Free /\ panel.armed
    /\ panel' = [panel EXCEPT !.armed = FALSE]
    /\ Ask(q, picked)
    /\ UNCHANGED <<serverVars, picked, picks>>

ComparisonStep ==
    \/ SwitchModel
    \/ \E t \in writing : \E is \in Outcome : Written(t, is)
    \/ \E q \in Requests : Answers(q) \/ Arrives(q) \/ Lost(q) \/ AsksAgain(q)
                           \/ \E l \in Lines : PickLine(q, l)

-----------------------------------------------------------------------------
(* What must hold.                                                         *)

\* "Then the generated sentences stand and pending goes false so the polling
\* stops" (_comparison_reasons): whatever the models do, however requests
\* overtake each other, and across a switch, the panel comes to rest.
PollingEnds == panel.pending ~> ~panel.pending
=============================================================================
