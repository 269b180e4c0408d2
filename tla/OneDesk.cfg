\* One desk and two callers: any habit, two ticks in flight.
CONSTANTS
    c1 = c1
    c2 = c2
    a1 = a1
    a2 = a2
    Calls = {c1, c2}
    Agents = {a1}
    NoAgent = NoAgent
    AllDeclined = AllDeclined
    Deferred = Deferred
    Ticks = {t1, t2}
    Skilled <- GeneralFloor
    DeclaredIntents = {"READY"}
    MaxConcurrent = 1
    MaxOfferRounds = 2
    RoundBound = 2
    Habits <- AllHabits
SPECIFICATION Spec
SYMMETRY FloorSymmetry
INVARIANTS
    PoolIsWhoWaits
    NoGhostRing
