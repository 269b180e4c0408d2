\* Two builds of a snapshot; two customers and one call with two taps; app menus
\* of two options; two lines of two reasons; weeks of three days; three calls on
\* two or three desks.
SPECIFICATION Spec
CONSTANTS
    Builds = {b1, b2}
    Together = {"customer"}
    Then = "claims"
    Ttl = 2
    Cooldown = 1
    Threshold = 2
    LastMoment = 3
    Customers = {a, b}
    Nobody = Nobody
    Arrivals = {k}
    SessionTtl = 1
    IntentTtl = 1
    PendingWindow = 1
    LastHour = 3
    MaxIntents = 2
    motor = motor
    health = health
    Order <- TwoLines
    Unknown = unknown
    MenuLines = {motor}
    OtherLines = {savings}
    General = general
    MaxOptions = 2
    Reasons = 2
    MaxPromoted = 2
    MaxSilences = 2
    RunawayGuard = 3
    MaxSteps = 5
    DayLength = 4
    WeekLength = 3
    Horizon = 4
    DayWindows <- ThreeShapes
    HolidaySets <- Calendars
    MaxTime = 13
    Impossible <- NeverChosen
    Infinite = infinite
    TopFit = 3
    Ceiling <- Ceilings
    Sla = 3
    MaxMultiplier = 3
    DeferMaxWait = 2
    DeferBelow = 1
    MinFitGap = 2
    Window = 2
    HotShare = 1
    Floors <- SomeFloors
INVARIANTS
    CallerIsKnown
    MenusWork
    NextOpenIsFirst
    CeilingIsKept
    SolverIsBest
PROPERTIES
    WalkEnds
CHECK_DEADLOCK FALSE
