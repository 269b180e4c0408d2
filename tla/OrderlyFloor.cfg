\* Two callers, two desks, one tick at a time, orderly agents.
CONSTANTS
    c1 = c1
    c2 = c2
    a1 = a1
    a2 = a2
    Calls = {c1, c2}
    Agents = {a1, a2}
    NoAgent = NoAgent
    AllDeclined = AllDeclined
    Deferred = Deferred
    Ticks = {t1}
    Skilled <- GeneralFloor
    DeclaredIntents = {"READY"}
    MaxConcurrent = 1
    MaxOfferRounds = 0
    RoundBound = 1
    Habits <- NoHabits
SPECIFICATION Spec
SYMMETRY FloorSymmetry
INVARIANTS
    PresenceMatchesCalls
