-------------------------- MODULE MCOfferHandshake --------------------------
(* Small floors for TLC: callers, agents and skills as model values.       *)
EXTENDS OfferHandshake, TLC

CONSTANTS c1, c2, a1, a2

\* Everybody can take every call.
GeneralFloor == [c \in Calls |-> Agents]

\* The second caller needs the specialist.
SpecialistFloor == [c \in Calls |-> IF c = c1 THEN Agents ELSE {a2}]

AllHabits == Habit
NoHabits == {}

\* Where every agent has every skill, callers, agents and the slots ticks run
\* in are interchangeable (for safety properties only).
FloorSymmetry == Permutations(Calls) \cup Permutations(Agents) \cup Permutations(Ticks)
=============================================================================
