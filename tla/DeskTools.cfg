\* Two tabs key one capture across a restart; two calls of one customer, three
\* pairings; two lines, two requests at once and a switch of model; every table
\* of two plans; three offers of two callers at a desk; two colleagues of two
\* skills; two changes of model.
SPECIFICATION Spec
CONSTANTS
    Tabs = {t1, t2}
    MaxCaptures = 1
    MaxDigits = 1
    MaxRestarts = 1
    MaxCalls = 2
    MaxPairings = 3
    MaxItems = 2
    Ttl = 3
    Grace = 1
    CallsAtOnce = 1
    Lines = {motor, health}
    MaxAttempts = 2
    MaxSwitches = 1
    MaxPicks = 2
    Requests = {q1, q2}
    room = room
    excess = excess
    Kinds = {room, excess}
    LowerIsBetter = {excess}
    Weight <- MCWeight
    Plans = {1, 2}
    Figures = {1, 4}
    MaxCandidates = 1
    Material = 1
    Scale = 12
    MaxMyCalls = 2
    MaxOffers = 3
    Reason = {claim, other}
    Insurer = {one}
    Colleagues = {1, 2}
    Skills = {motor, health}
    Proficiency = {0, 1, 2}
    AtOnce = 1
    SkillPoints = 2
    LoadPoints = 1
    Hosted = {openai_compatible}
    Keyless = {openai_compatible}
    MaxModelPicks = 2
INVARIANTS
    OnlyWantedDigitsAreKept
    ScreenWorks
    TableIsFair
    OneCallAtATime
    HandOverWorks
    PanelIsHonest
PROPERTIES
    PollingEnds
CHECK_DEADLOCK FALSE
