---------------------------- MODULE MatchingTick ----------------------------
(***************************************************************************)
(* One tick of the matching engine (services/matching: engine, solver,     *)
(* scoring).                                                               *)
(*                                                                         *)
(* The pass over callers past their ceiling runs first and one caller at a *)
(* time; what it leaves is handed to the assignment solver, one row at a   *)
(* time, one column of the augmenting path at a time; then each caller gets*)
(* a decision.  The solver is the padded shortest-augmenting-path form of  *)
(* the code, its arrays u, v, p, way, minv, used under their own names.    *)
(*                                                                         *)
(* Calls and agents are numbered from 1 in the order the engine lists      *)
(* them.  fit[c][a] is score_fit's total, or Unfit where a hard filter     *)
(* fails.  A tier is the rank of an urgency.                               *)
(***************************************************************************)
EXTENDS Integers, Sequences, SequencesExt, FiniteSets, FiniteSetsExt

CONSTANTS
    Impossible,    \* IMPOSSIBLE: what a pair that may not be scores
    Infinite,      \* INF, longer than any distance
    TopFit,        \* what no fit exceeds
    Ceiling,       \* max_wait_by_urgency, by tier
    Sla,           \* sla_seconds of the queue
    MaxMultiplier, \* urgency_max
    DeferMaxWait,  \* defer_max_wait_s
    DeferBelow,    \* defer_never_above_urgency: the tier never deferred
    MinFitGap,     \* defer_min_fit_gap
    Window,        \* hot_spot_window_calls
    HotShare       \* assignments of the window past which a desk is hot

\* Ceilings may not rise with urgency; a multiplier is at least 1.
ValidWeights ==
    /\ \A s, t \in DOMAIN Ceiling : s <= t => Ceiling[t] <= Ceiling[s]
    /\ DOMAIN Ceiling \subseteq Nat /\ Sla \in Nat \ {0} /\ MaxMultiplier \in Nat \ {0}
    /\ MinFitGap > 0

ASSUME MatchingAssumption ==
    ValidWeights /\ Impossible \in Int /\ Infinite \notin Int /\ TopFit \in Nat

VARIABLES
    floor,     \* the tick's input: [calls |-> <<[tier, wait]>>, fit |-> matrix,
               \* recent |-> who got the calls of earlier ticks]
    recent,    \* _recent: who got the last calls
    pc,        \* where the tick is
    rescued,   \* the calls _rescue has looked at, and the desk each got (0: none)
    row, col,  \* the solver's i and j0
    u, v, p, way, minv, used,
    decisions  \* one for each call, in order

matchVars == <<floor, recent, pc, rescued, row, col, u, v, p, way, minv, used, decisions>>

solverVars == <<row, col, u, v, p, way, minv, used>>

Unfit == -1

Callers == 1 .. Len(floor.calls)

Desks == 1 .. Len(floor.fit[1])

Qualified(c) == {a \in Desks : floor.fit[c][a] # Unfit}

Wait(c) == floor.calls[c].wait

Tier(c) == floor.calls[c].tier

-----------------------------------------------------------------------------
(* Scores.                                                                 *)

\* Wait against the queue's own promise, the breach of it, and the tier, all
\* clamped so that urgency never makes skill irrelevant.
Urgency(c) ==
    LET pressure == Min({Wait(c) \div Sla, 2})
        breach   == IF Wait(c) >= Sla THEN 1 ELSE 0
    IN  Max({1, Min({1 + pressure + breach + Tier(c), MaxMultiplier})})

Score(c, a) == IF a \in Qualified(c) THEN floor.fit[c][a] * Urgency(c) ELSE Impossible

Reserved == Range(rescued) \ {0}

IsRescued(c) == c \in DOMAIN rescued /\ rescued[c] # 0

\* The matrix with the rescued rows and the reserved columns knocked out.
Remaining(c, a) == IF IsRescued(c) \/ a \in Reserved THEN Impossible ELSE Score(c, a)

-----------------------------------------------------------------------------
(* The wait ceiling.                                                       *)

Starved == {c \in Callers : Wait(c) >= Ceiling[Tier(c)]}

\* Most urgent first, then the longest wait, then as listed.
Before(c, d) ==
    \/ Tier(c) > Tier(d)
    \/ Tier(c) = Tier(d) /\ Wait(c) > Wait(d)
    \/ Tier(c) = Tier(d) /\ Wait(c) = Wait(d) /\ c < d

\* A slip (D94): the longest wait first, whoever it is.
FirstLongest(c, others) == \A d \in others : Wait(c) >= Wait(d)

First(c, others) == \A d \in others \ {c} : Before(c, d)

\* The lowest fit that is qualified, so that the specialist stays free.
Rescue ==
    /\ pc = "rescue"
    /\ \E c \in Starved \ DOMAIN rescued :
        /\ First(c, Starved \ DOMAIN rescued)
        /\ LET options == Qualified(c) \ Reserved
               least   == {a \in options : \A b \in options : floor.fit[c][a] <= floor.fit[c][b]}
           IN  rescued' = [d \in DOMAIN rescued \cup {c} |->
                              IF d # c THEN rescued[d]
                              ELSE IF options = {} THEN 0 ELSE Min(least)]
    /\ UNCHANGED <<floor, recent, pc, solverVars, decisions>>

-----------------------------------------------------------------------------
(* The solver.                                                             *)

\* Nothing is known of a column at first.
Closer(cost, known) == known = Infinite \/ cost < known

Size == Max({Len(floor.calls), Len(floor.fit[1])})

\* Padded to a square with free dummies, and negated: the solver minimises.
Cost(i, j) == IF i \in Callers /\ j \in Desks THEN -Remaining(i, j) ELSE 0

StartSolver ==
    /\ pc = "rescue" /\ Starved \subseteq DOMAIN rescued
    /\ pc' = "rows"
    /\ UNCHANGED <<floor, recent, rescued, solverVars, decisions>>

AddRow ==
    /\ pc = "rows" /\ row < Size
    /\ row' = row + 1 /\ col' = 0
    /\ p' = [p EXCEPT ![0] = row + 1]
    /\ minv' = [j \in 0 .. Size |-> Infinite]
    /\ used' = {}
    /\ pc' = "grow"
    /\ UNCHANGED <<floor, recent, rescued, u, v, way, decisions>>

\* One column more on the path: the cheapest one, prices moved by its cost.
Grow ==
    /\ pc = "grow"
    /\ LET in    == used \cup {col}
           out   == (1 .. Size) \ in
           cur   == [j \in out |-> Cost(p[col], j) - u[p[col]] - v[j]]
           least == [j \in 0 .. Size |-> IF j \in out /\ Closer(cur[j], minv[j]) THEN cur[j] ELSE minv[j]]
           delta == Min({least[j] : j \in out})
           next  == Min({j \in out : least[j] = delta})
           rows  == {p[j] : j \in in}
       IN  /\ used' = in
           /\ way' = [j \in 0 .. Size |-> IF j \in out /\ Closer(cur[j], minv[j]) THEN col ELSE way[j]]
           /\ u' = [i \in 0 .. Size |-> IF i \in rows THEN u[i] + delta ELSE u[i]]
           /\ v' = [j \in 0 .. Size |-> IF j \in in THEN v[j] - delta ELSE v[j]]
           /\ minv' = [j \in 0 .. Size |-> IF j \in in THEN least[j] ELSE least[j] - delta]
           /\ col' = next
           /\ pc' = IF p[next] = 0 THEN "walk" ELSE "grow"
    /\ UNCHANGED <<floor, recent, rescued, row, p, decisions>>

\* A slip: both in one assignment, so the write lands on the next column.
RematchAtOnce ==
    /\ pc = "walk"
    /\ p' = [p EXCEPT ![way[col]] = p[way[col]]]
    /\ col' = way[col]
    /\ pc' = IF way[col] = 0 THEN "rows" ELSE "walk"
    /\ UNCHANGED <<floor, recent, rescued, row, u, v, way, minv, used, decisions>>

\* Back along the path, one column.
Rematch ==
    /\ pc = "walk"
    /\ p' = [p EXCEPT ![col] = p[way[col]]]
    /\ col' = way[col]
    /\ pc' = IF way[col] = 0 THEN "rows" ELSE "walk"
    /\ UNCHANGED <<floor, recent, rescued, row, u, v, way, minv, used, decisions>>

Solved ==
    /\ pc = "rows" /\ row = Size
    /\ pc' = "decide"
    /\ UNCHANGED <<floor, recent, rescued, solverVars, decisions>>

\* Pairs that exist only by padding, or failed a filter, are dropped.
Assignment(c) == {a \in Desks : p[a] = c /\ Remaining(c, a) > Impossible}

-----------------------------------------------------------------------------
(* The decisions.                                                          *)

Hot(a) == Len(recent) = Window /\ Len(SelectSeq(recent, LAMBDA b : b = a)) > HotShare

Better(c, a) == {b \in Qualified(c) : floor.fit[c][b] - floor.fit[c][a] >= MinFitGap}

\* _guard: what becomes of a call the solver gave a desk.
Guard(c, a) ==
    CASE Hot(a) -> "fallback"
      [] ~Hot(a) /\ Tier(c) < DeferBelow /\ Wait(c) < DeferMaxWait /\ Better(c, a) # {} -> "defer"
      [] OTHER -> "assign"

Unplaced == [kind |-> "unplaced", agent |-> 0]

\* A call that is deferred gets nobody on this tick.
Decide ==
    /\ pc = "decide"
    /\ LET c     == Len(decisions) + 1
           given == IF IsRescued(c) THEN {rescued[c]} ELSE Assignment(c)
       IN  \/ /\ given = {}
              /\ decisions' = Append(decisions, Unplaced)
              /\ UNCHANGED recent
           \/ \E a \in given :
                LET kind == IF IsRescued(c) THEN "fallback" ELSE Guard(c, a) IN
                /\ decisions' = Append(decisions,
                       [kind |-> kind, agent |-> IF kind = "defer" THEN 0 ELSE a])
                /\ recent' = IF kind = "defer" THEN recent
                             ELSE SubSeq(Append(recent, a),
                                         IF Len(recent) < Window THEN 1 ELSE 2, Len(recent) + 1)
    /\ pc' = IF Len(decisions) + 1 = Len(floor.calls) THEN "done" ELSE "decide"
    /\ UNCHANGED <<floor, rescued, solverVars>>

MatchStep ==
    \/ Rescue \/ StartSolver \/ AddRow \/ Grow \/ Rematch \/ Solved \/ Decide

\* The tick starts on this floor.
Tick(f) ==
    LET zero == [k \in 0 .. Max({Len(f.calls), Len(f.fit[1])}) |-> 0] IN
    /\ floor' = f /\ recent' = f.recent /\ pc' = "rescue" /\ rescued' = <<>>
    /\ row' = 0 /\ col' = 0
    /\ u' = zero /\ v' = zero /\ p' = zero /\ way' = zero /\ minv' = zero
    /\ used' = {} /\ decisions' = <<>>

NoFloor == [calls |-> <<>>, fit |-> <<>>, recent |-> <<>>]

MatchInit ==
    /\ floor = NoFloor /\ recent = <<>> /\ pc = "idle" /\ rescued = <<>>
    /\ row = 0 /\ col = 0
    /\ u = <<>> /\ v = <<>> /\ p = <<>> /\ way = <<>> /\ minv = <<>>
    /\ used = {} /\ decisions = <<>>

-----------------------------------------------------------------------------
(* What must hold.                                                         *)

\* A desk of its own, which could take it.
Served(c) ==
    /\ decisions[c].agent \in Qualified(c)
    /\ \A d \in Callers \ {c} : decisions[d].agent # decisions[c].agent

\* Past its tier's ceiling a call gets somebody, who is given no other call by
\* the solver after it, unless everyone who could take it was given to callers
\* with a better claim to the same promise: never to one that merely fits
\* better (B13, D93, D94).
CeilingIsKept ==
    pc = "done" =>
        \A c \in Starved :
            \/ Served(c)
            \/ \A a \in Qualified(c) :
                   \E d \in Starved : Before(d, c) /\ decisions[d].agent = a

\* Ways of pairing what the rescue left; 0 is nobody.
Pairings ==
    {m \in [Callers -> Desks \cup {0}] :
        \A c \in Callers : m[c] # 0 =>
            /\ Remaining(c, m[c]) > Impossible
            /\ \A d \in Callers \ {c} : m[d] # m[c]}

Placed(m) == {c \in Callers : m[c] # 0}

Total(m) == SumFunction([c \in Placed(m) |-> Remaining(c, m[c])])

Solution == [c \in Callers |-> IF Assignment(c) = {} THEN 0 ELSE Min(Assignment(c))]

\* No pairing of the callers and desks left serves more of them, and of those
\* that serve as many none scores higher: so a caller is left waiting beside a
\* free desk that could help only if that desk was given to somebody.
SolverIsBest ==
    pc = "done" =>
        /\ Solution \in Pairings
        /\ \A m \in Pairings :
            \/ Cardinality(Placed(m)) < Cardinality(Placed(Solution))
            \/ /\ Cardinality(Placed(m)) = Cardinality(Placed(Solution))
               /\ Total(m) <= Total(Solution)
=============================================================================
