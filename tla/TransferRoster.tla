--------------------------- MODULE TransferRoster ---------------------------
(***************************************************************************)
(* "Who on this floor could take this call?" (internal_transfer_options of *)
(* the agent's router): the colleagues, the filter each fails, the fit of  *)
(* those who pass, and the one the system would choose.                    *)
(*                                                                         *)
(* It reads the floor and changes nothing.  What a row says comes from two *)
(* computations that know nothing of each other: the matcher's hard_filter *)
(* and score_fit, and presence's own view of who may be offered a call.    *)
(***************************************************************************)
EXTENDS Integers, Sequences, FiniteSets, FiniteSetsExt

CONSTANTS
    Colleagues,   \* agent ids, in their order, without the one who asks
    Skills,       \* codes of the floor
    Proficiency,  \* bound: levels of proficiency, 0 for none
    AtOnce,       \* Agent.max_concurrent
    SkillPoints,  \* weight of the skill in the fit
    LoadPoints    \* weight of the load

ASSUME RosterAssumption ==
    /\ Colleagues \subseteq Nat /\ IsFiniteSet(Colleagues) /\ Skills # {} /\ 0 \in Proficiency /\ Proficiency \subseteq Nat
    /\ AtOnce \in Nat \ {0} /\ SkillPoints \in Nat /\ LoadPoints \in Nat

VARIABLES
    people,    \* colleague -> skills, and whether they speak one of the languages
    presence,  \* colleague -> presence, or none before their first sign-in
    roster     \* the answer, once asked for

rosterVars == <<people, presence, roster>>

NotAsked == [skill |-> "none"]

NeverSeen == [system |-> "none"]

\* The load is of the call in progress.
Seen ==
    [system : {"OFFLINE", "AVAILABLE", "OFFERING", "AFTER_CALL_WORK"},
     intent : {"READY", "LUNCH", "LAST_CALL"}, load : {0}]
    \cup [system : {"ON_CALL"}, intent : {"READY", "LAST_CALL"}, load : {1}]

RosterInit ==
    /\ people \in [Colleagues -> [skill : [Skills -> Proficiency], speaks : BOOLEAN]]
    /\ presence \in [Colleagues -> {NeverSeen} \cup Seen]
    /\ roster = NotAsked

\* Where the roster is not the subject.
NoRoster ==
    /\ people = [a \in Colleagues |-> [skill |-> [s \in Skills |-> 0], speaks |-> TRUE]]
    /\ presence = [a \in Colleagues |-> NeverSeen]
    /\ roster = NotAsked

-----------------------------------------------------------------------------
(* What the matcher says of a colleague, and what presence says.           *)

Accepts(p) == p.intent = "READY" \/ (p.intent = "LAST_CALL" /\ p.system = "AVAILABLE")

\* PresenceView.offerable.
Offerable(p) == p # NeverSeen /\ p.system = "AVAILABLE" /\ Accepts(p)

\* A slip (B25): nobody looks at what the desk is doing.
FilterWhateverTheyDo(a, skill) ==
    CASE people[a].skill[skill] = 0 -> "skill"
      [] ~people[a].speaks -> "language"
      [] presence[a].system = "OFFLINE" -> "offline"
      [] ~Accepts(presence[a]) -> "not_ready"
      [] presence[a].load >= AtOnce -> "at_capacity"
      [] OTHER -> "none"

\* hard_filter: the first that fails.  A call in conversation excludes nobody.
Filter(a, skill) ==
    CASE people[a].skill[skill] = 0 -> "skill"
      [] ~people[a].speaks -> "language"
      [] presence[a].system = "OFFLINE" -> "offline"
      [] ~Accepts(presence[a]) -> "not_ready"
      [] presence[a].system # "AVAILABLE" -> "busy"
      [] presence[a].load >= AtOnce -> "at_capacity"
      [] OTHER -> "none"

BlockedBy(a, skill) == IF presence[a] = NeverSeen THEN "offline" ELSE Filter(a, skill)

\* score_fit for a customer nobody here has spoken with: what history counts
\* is the same for all.
Fit(a, skill) ==
    Max({0, SkillPoints * people[a].skill[skill] - (LoadPoints * presence[a].load) \div AtOnce})

Row(a, skill) ==
    [agent |-> a, blocked |-> BlockedBy(a, skill), offerable |-> Offerable(presence[a]),
     fit |-> IF BlockedBy(a, skill) = "none" THEN Fit(a, skill) ELSE -1]

\* The fittest first, then those who cannot; among equals the agent id.
Above(r, s) == r.fit > s.fit \/ (r.fit = s.fit /\ r.agent < s.agent)

\* Each in the place the rows above it leave.
Placed(rows) ==
    [i \in 1 .. Cardinality(rows) |-> CHOOSE r \in rows : Cardinality({s \in rows : Above(s, r)}) = i - 1]

SystemChoice(rows) ==
    LET able == {i \in DOMAIN rows : rows[i].blocked = "none"}
    IN  IF able = {} THEN 0 ELSE rows[Min(able)].agent

\* On the skill that routed the call, or on another the broker asks for.
AskRoster(skill) ==
    /\ roster = NotAsked
    /\ LET rows == Placed({Row(a, skill) : a \in Colleagues})
       IN  roster' = [skill |-> skill, rows |-> rows, choice |-> SystemChoice(rows)]
    /\ UNCHANGED <<people, presence>>

RosterStep == \E skill \in Skills : AskRoster(skill)

-----------------------------------------------------------------------------

\* Whom a tick could ring for a caller on that skill.
CouldTake(a, skill) ==
    /\ presence[a] # NeverSeen /\ presence[a].system = "AVAILABLE"
    /\ presence[a].intent \in {"READY", "LAST_CALL"}
    /\ people[a].skill[skill] > 0 /\ people[a].speaks

\* The list a broker reads is the floor (D141): everybody is on it once, the two
\* computations agree on who is free, whoever could take the caller is named
\* before all who could not, and the system's choice is the most skilled of
\* them, whichever skill the broker asked about.
RosterIsTheFloor ==
    roster # NotAsked =>
        LET rows == roster.rows
            able == {a \in Colleagues : CouldTake(a, roster.skill)}
            who(a) == people[a].skill[roster.skill]
        IN  /\ {rows[i].agent : i \in DOMAIN rows} = Colleagues /\ Len(rows) = Cardinality(Colleagues)
            /\ \A i \in DOMAIN rows :
                  /\ rows[i].blocked = "none" <=> rows[i].agent \in able
                  /\ rows[i].blocked = "none" => rows[i].offerable
                  /\ i <= Cardinality(able) <=> rows[i].agent \in able
            /\ IF able = {} THEN roster.choice = 0
               ELSE roster.choice \in able /\ \A a \in able : who(a) <= who(roster.choice)
=============================================================================
