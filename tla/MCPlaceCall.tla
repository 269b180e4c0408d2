---------------------------- MODULE MCPlaceCall -----------------------------
(***************************************************************************)
(* PlaceCall for TLC: the floors and the calendars tried.                  *)
(***************************************************************************)
EXTENDS PlaceCall

CONSTANTS motor, health

TwoLines == <<motor, health>>

\* Closed, one window, and two with a break between them.
ThreeShapes == {{}, {<<1, 3>>}, {<<0, 1>>, <<2, 3>>}}

Calendars == SUBSET {1, 2, 4}

Ceilings == [t \in 0 .. 1 |-> IF t = 0 THEN 6 ELSE 4]

Fits == {Unfit, 1, 3}

\* Three calls score 27 at most: no room to spare.
NeverChosen == -28

Matrix(calls, desks) == [1 .. calls -> [1 .. desks -> Fits]]

Call(tier, wait) == [tier |-> tier, wait |-> wait]

\* New or past the ceiling, in two tiers, listed in this order.
NewOrStarved == <<Call(0, 6), Call(1, 4), Call(1, 0), Call(0, 0)>>

ThreeCalls ==
    {[i \in 1 .. 3 |-> NewOrStarved[n[i]]] :
        n \in {m \in [1 .. 3 -> 1 .. 4] : m[1] >= m[2] /\ m[2] >= m[3]}}

\* Three on three, all new: the rows in one order, since their order is free.
Weight(line) == (line[1] + 1) + 8 * (line[2] + 1) + 64 * (line[3] + 1)

SquareFits == {m \in Matrix(3, 3) : Weight(m[1]) >= Weight(m[2]) /\ Weight(m[2]) >= Weight(m[3])}

SomeFloors ==
    [calls : ThreeCalls, fit : Matrix(3, 2), recent : {<<>>}]
        \cup [calls : {[i \in 1 .. 3 |-> Call(0, 0)]}, fit : SquareFits, recent : {<<>>}]
        \cup [calls : [1 .. 2 -> {Call(0, 0), Call(0, 2), Call(1, 6)}], fit : Matrix(2, 3),
              recent : {<<>>, <<1, 1>>}]
=============================================================================
