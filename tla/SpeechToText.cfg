\* One leg of 16 frames; two legs on one engine, four requests, three children.
SPECIFICATION Spec
CONSTANTS
    MinSpeech = 2
    MinSilence = 2
    PadBefore = 1
    PadAfter = 1
    MaxSegment = 4
    History = 6
    MaxBacklog = 8
    TrimWhenIdle = 11
    MaxBatch = 2
    MaxFrames = 16
    Streams = {s1, s2}
    MaxAsks = 4
    MaxSpawns = 3
INVARIANTS
    HeardInFull
    ReplyIsMine
PROPERTIES
    SpeechEnds
CHECK_DEADLOCK FALSE
