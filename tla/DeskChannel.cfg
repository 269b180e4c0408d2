\* A call that rings twice, two agents, two turns; two tabs, two sign-ins, two drops.
SPECIFICATION Spec
CONSTANTS
    Agents = {a, b}
    MaxTurnsPerCall = 1
    MaxTurns = 2
    MaxOffers = 2
    MaxPreviews = 1
    Tabs = {t1, t2}
    OutboxLimit = 2
    MaxSeq = 3
    MaxSessions = 2
    MaxDrops = 2
    Habits = {"overtake"}
INVARIANTS
    ReadsItsOwn
    ViewIsCurrent
PROPERTIES
    FinalIsNeverReplaced
    TurnsReachTheDesk
CHECK_DEADLOCK FALSE
