----------------------------- MODULE QueueHours -----------------------------
(***************************************************************************)
(* When a queue is open, and when it next opens (services/queues/hours.py).*)
(*                                                                         *)
(* Time is counted in units of a day's DayLength, local to the schedule;   *)
(* a schedule lists, for each day of the week, windows that start          *)
(* inclusive and end exclusive.                                            *)
(***************************************************************************)
EXTENDS Integers, FiniteSets, FiniteSetsExt

CONSTANTS
    DayLength,   \* units in a day
    WeekLength,  \* days in a week
    Horizon,     \* horizon_days
    DayWindows   \* the sets of windows a day of a schedule may have

\* What the parser demands of a schedule: no window is empty or backwards.
ValidWindows == \A ws \in DayWindows : \A w \in ws :
    w \in Nat \X Nat /\ w[1] < w[2] /\ w[2] <= DayLength

ASSUME HoursAssumption == {DayLength, WeekLength, Horizon} \subseteq Nat \ {0} /\ ValidWindows

\* A schedule; one that is always open has nothing else to say.
Schedules ==
    [always : {FALSE}, observes : BOOLEAN, weekly : [0 .. WeekLength - 1 -> DayWindows]]
        \cup [always : {TRUE}, observes : {FALSE}, weekly : {[d \in 0 .. WeekLength - 1 |-> {}]}]

Day(t) == t \div DayLength

WindowsOn(s, day) == s.weekly[day % WeekLength]

Holiday(s, holidays, day) == s.observes /\ day \in holidays

OpenAt(s, holidays, t) ==
    \/ s.always
    \/ /\ ~Holiday(s, holidays, Day(t))
       /\ \E w \in WindowsOn(s, Day(t)) : w[1] <= t % DayLength /\ t % DayLength < w[2]

Never == -1

\* The openings the walk looks at, day by day up to the horizon.
Openings(s, day) == {day * DayLength + w[1] : w \in WindowsOn(s, day)}

\* A slip: the walk does not skip the holidays.
NextOpenOnHolidays(s, holidays, t) ==
    LET ahead == {c \in UNION {Openings(s, Day(t) + k) : k \in 0 .. Horizon} : c > t}
    IN  IF ahead = {} THEN Never ELSE Min(ahead)

NextOpen(s, holidays, t) ==
    LET days  == {d \in Day(t) .. Day(t) + Horizon : ~Holiday(s, holidays, d)}
        ahead == {c \in UNION {Openings(s, d) : d \in days} : c > t}
    IN  IF ahead = {} THEN Never ELSE Min(ahead)

\* QueueHours.state: what the caller is told.
State(s, holidays, t) ==
    [open |-> OpenAt(s, holidays, t),
     next |-> IF OpenAt(s, holidays, t) THEN Never ELSE NextOpen(s, holidays, t)]

-----------------------------------------------------------------------------
\* The first later moment at which the schedule really is open.
FirstOpen(s, holidays, t) ==
    LET later == {u \in t + 1 .. (Day(t) + Horizon + 1) * DayLength - 1 : OpenAt(s, holidays, u)}
    IN  IF later = {} THEN Never ELSE Min(later)
=============================================================================
