----------------------------- MODULE PlanTable ------------------------------
(***************************************************************************)
(* The comparison of plans: services/comparison/service.py and what the    *)
(* agent's router makes of it (plans, _build_comparison, push_to_customer  *)
(* in api/routers/agent.py).                                               *)
(*                                                                         *)
(* A customer may hold a policy on several lines.  The agent asks about    *)
(* one of them; the plans the market has on it are ranked, against what    *)
(* the customer holds on that line or else against each other, and the     *)
(* best are put on the customer's screen.  A plan is its product code and  *)
(* the figures it states; a score is a whole number of 1/Scale.            *)
(***************************************************************************)
EXTENDS Integers, Sequences, FiniteSets, FiniteSetsExt, Functions

CONSTANTS
    Kinds,          \* the attributes comparison.yaml names for the line
    LowerIsBetter,  \* those with better: lower
    Weight,         \* kind -> weight
    Plans,          \* product codes, in their order
    Figures,        \* what a plan may state
    MaxCandidates,  \* max_candidates
    Material,       \* min_material_improvement, in 1/Scale
    Scale           \* makes every quotient below a whole number

NotStated == -1

\* What _load_comparison accepts, and the scale.
ASSUME TableAssumption ==
    /\ Kinds # {} /\ IsFiniteSet(Kinds) /\ LowerIsBetter \subseteq Kinds
    /\ \A k \in Kinds : Weight[k] \in Nat \ {0}
    /\ Plans \subseteq Nat \ {0} /\ IsFiniteSet(Plans) /\ Figures \subseteq Nat
    /\ MaxCandidates \in Nat \ {0} /\ Material \in Nat /\ Scale \in Nat \ {0}
    /\ \A f, g \in Figures : f < g => Scale % g = 0 /\ Scale % (g - f) = 0

VARIABLES
    market,  \* the figures of each plan on the line, active ones only
    book,    \* the frozen snapshot: the customer's policy on each line
    about,   \* the line of its relevant_policy, if it has one
    asked,   \* the line the agent asked about, if any
    table,   \* the comparison on the agent's page
    shown    \* what was put on the customer's screen

tableVars == <<market, book, about, asked, table, shown>>

NoLine == "none"

\* The line of the call, and another one.
LinesHeld == {"here", "elsewhere"}

NoPolicy == [code |-> 0]

\* A plan nobody sells any more.
Outside == 0

Stating == [Kinds -> Figures \cup {NotStated}]

NotBuilt == [line |-> NoLine]

TableInit ==
    /\ market \in [Plans -> Stating]
    /\ book \in [LinesHeld -> {NoPolicy} \cup [code : {Outside, Min(Plans)}, line : LinesHeld, states : Stating]]
    /\ \A l \in LinesHeld : book[l] # NoPolicy => book[l].line = l
    /\ book["elsewhere"] # NoPolicy =>
          /\ book["elsewhere"].code = Outside
          /\ \A k \in Kinds : book["elsewhere"].states[k] = Min(Figures)
    /\ about \in {NoLine} \cup {l \in LinesHeld : book[l] # NoPolicy}
    /\ asked \in {NoLine, "here"}
    /\ table = NotBuilt /\ shown = NotBuilt

\* Where plans are not the subject.
NoTable ==
    /\ market = [p \in Plans |-> [k \in Kinds |-> NotStated]]
    /\ book = [l \in LinesHeld |-> NoPolicy]
    /\ about = NoLine /\ asked = NoLine /\ table = NotBuilt /\ shown = NotBuilt

-----------------------------------------------------------------------------
(* What the comparison is measured against.                                *)

\* The line asked for, the relevant policy's, or the call's own.
ChosenLine == IF asked # NoLine THEN asked ELSE IF about # NoLine THEN about ELSE "here"

\* A slip (D127): only the policy the call is about is looked at.
BaselineRelevantOnly(line) == IF about = NoLine THEN NoPolicy ELSE book[about]

\* The relevant policy if it is on the line, or another active one that is.
Baseline(line) ==
    IF about = line THEN book[about] ELSE book[line]

Holds(held) == held # NoPolicy

\* The plan of the policy they hold is no candidate.
Candidates(held) == {p \in Plans : Holds(held) => p # held.code}

-----------------------------------------------------------------------------
(* The figures.                                                            *)

Clipped(raw) == Max({-Scale, Min({2 * Scale, raw})})

\* Positive is better, whichever way the attribute runs.
Improvement(k, held, offered) ==
    LET raw == (offered - held) * (Scale \div Max({held, 1}))
    IN  Clipped(IF k \in LowerIsBetter THEN -raw ELSE raw)

\* What is not stated on either side is not guessed at.
Gain(held, p, k) ==
    IF held.states[k] = NotStated \/ market[p][k] = NotStated THEN 0
    ELSE Improvement(k, held.states[k], market[p][k])

Direction(held, p, k) ==
    CASE ~Holds(held) \/ held.states[k] = NotStated \/ market[p][k] = NotStated -> "not_stated"
      [] OTHER -> LET gain == Gain(held, p, k) IN
                  IF gain < Material /\ -gain < Material THEN "same"
                  ELSE IF gain > 0 THEN "better" ELSE "worse"

\* With nothing held, a plan is placed between the worst and the best figure
\* that the candidates state; where they do not differ it says nothing.
Position(among, p, k) ==
    LET stated == {market[q][k] : q \in {r \in among : market[r][k] # NotStated}}
        low == Min(stated)
        high == Max(stated)
        place == (market[p][k] - low) * (Scale \div (high - low))
    IN  IF market[p][k] = NotStated \/ Cardinality(stated) < 2 THEN 0
        ELSE IF k \in LowerIsBetter THEN Scale - place ELSE place

Worth(held, p) ==
    [k \in Kinds |-> Weight[k] * IF Holds(held) THEN Gain(held, p, k)
                                  ELSE Position(Candidates(held), p, k)]

Points(held, p) == SumFunction(Worth(held, p))

\* A slip: among equals the order of the catalogue decides.
BeforeAsListed(held, listed, p, q) ==
    \/ Points(held, p) > Points(held, q)
    \/ Points(held, p) = Points(held, q)
       /\ \E i, j \in 1 .. Len(listed) : i < j /\ listed[i] = p /\ listed[j] = q

\* The better score first; among equals the product code decides.
Before(held, listed, p, q) ==
    \/ Points(held, p) > Points(held, q)
    \/ Points(held, p) = Points(held, q) /\ p < q

\* `listed` is the catalogue as the bank returned it: each candidate in the
\* place those before it leave, and the first of them.
Ranked(held, listed) ==
    LET all == {listed[i] : i \in DOMAIN listed} \cap Candidates(held)
        ahead(p) == {q \in all : Before(held, listed, q, p)}
    IN  [i \in 1 .. Min({Cardinality(all), MaxCandidates}) |->
            CHOOSE p \in all : Cardinality(ahead(p)) = i - 1]

Listings == {s \in [1 .. Cardinality(Plans) -> Plans] : \A i, j \in DOMAIN s : s[i] = s[j] => i = j}

Catalogue == CHOOSE s \in Listings : \A i, j \in DOMAIN s : i < j => s[i] < s[j]

\* The reason names where the plan gains most, and where it loses most.
Named(held, p, direction) ==
    LET of == {k \in Kinds : Direction(held, p, k) = direction}
        gap(k) == Weight[k] * Gain(held, p, k)
    IN  {k \in of : \A j \in of : IF direction = "better" THEN gap(k) >= gap(j) ELSE gap(k) <= gap(j)}

-----------------------------------------------------------------------------
(* The agent.                                                              *)

\* The panel is opened: the table, and beside it the catalogue with the plan
\* they hold marked.
Compare ==
    /\ table = NotBuilt
    /\ LET held == Baseline(ChosenLine)
       IN  table' = [line |-> ChosenLine, held |-> held, plans |-> Ranked(held, Catalogue),
                     marked |-> {p \in Plans : Holds(held) /\ p = held.code}]
    /\ UNCHANGED <<market, book, about, asked, shown>>

\* The columns of the customer's table, without the one that is about them
\* when their screen has only followed a link.
TableColumns(held, plans, verified) ==
    (IF verified /\ Holds(held) THEN <<held.states>> ELSE <<>>) \o [i \in 1 .. Len(plans) |-> market[plans[i]]]

\* The cell of a row that is marked as the best, if any figure is stated.
BestCell(columns, k) ==
    LET stated == {i \in 1 .. Len(columns) : columns[i][k] # NotStated}
        best == {i \in stated : \A j \in stated :
                    IF k \in LowerIsBetter THEN columns[i][k] <= columns[j][k]
                                           ELSE columns[i][k] >= columns[j][k]}
    IN  IF best = {} THEN 0 ELSE Min(best)

\* Built again on the server when it is pushed.  An empty table is refused.
PushTable(verified) ==
    LET held == Baseline(ChosenLine)
        plans == Ranked(held, Catalogue)
        columns == TableColumns(held, plans, verified)
    IN  /\ table # NotBuilt /\ shown = NotBuilt /\ plans # <<>>
        /\ shown' = [line |-> ChosenLine, columns |-> columns,
                     hidden |-> Holds(held) /\ ~verified,
                     best |-> [k \in Kinds |-> BestCell(columns, k)]]
        /\ UNCHANGED <<market, book, about, asked, table>>

TableStep == Compare \/ \E verified \in BOOLEAN : PushTable(verified)

-----------------------------------------------------------------------------
(* What must hold.                                                         *)

\* At least as good in all that either states, and stating the same.
AtLeastAsGood(p, q) ==
    \A k \in Kinds :
        /\ market[p][k] = NotStated <=> market[q][k] = NotStated
        /\ IF k \in LowerIsBetter THEN market[p][k] <= market[q][k] ELSE market[p][k] >= market[q][k]

\* What a plan scores that is worse in everything, by what is just too little to
\* be named.
Unnoticed == SumFunction([k \in Kinds |-> Weight[k] * Min({0, 1 - Material})])

\* The ranking is arithmetic and no sales script (D125-D127): like is compared
\* with like, the order in which the bank lists its plans moves none of them,
\* no plan scores below one it is at least as good as in everything, with a
\* policy in hand or without, and a loss no small differences add up to is named
\* with the gain.
RankingIsFair ==
    table # NotBuilt =>
        LET held == table.held
            plans == table.plans
        IN  /\ Holds(held) => held.line = table.line
            /\ ~Holds(held) => book[table.line] = NoPolicy
            /\ \A listed \in Listings : Ranked(held, listed) = plans
            /\ \A p, q \in Candidates(held) : AtLeastAsGood(p, q) => Points(held, p) >= Points(held, q)
            /\ \A i \in DOMAIN plans :
                  /\ plans[i] \notin table.marked
                  /\ Points(held, plans[i]) < Unnoticed /\ Holds(held) => Named(held, plans[i], "worse") # {}

\* The cell the customer sees marked is the best of its row among the columns
\* they are shown, and what they hold is a column only when they are known.
TableIsTrue ==
    shown # NotBuilt =>
        /\ shown.hidden => Len(shown.columns) = Len(table.plans)
        /\ \A k \in Kinds :
              LET stated == {i \in DOMAIN shown.columns : shown.columns[i][k] # NotStated}
                  best == shown.best[k]
              IN  IF stated = {} THEN best = 0
                  ELSE /\ best \in stated
                       /\ \A i \in stated : IF k \in LowerIsBetter
                              THEN shown.columns[best][k] <= shown.columns[i][k]
                              ELSE shown.columns[best][k] >= shown.columns[i][k]

TableIsFair == RankingIsFair /\ TableIsTrue
=============================================================================
