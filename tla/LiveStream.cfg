SPECIFICATION FairLiveSpec
CONSTANTS
    u1 = u1
    u2 = u2
    p1 = p1
    p2 = p2
    Event = {1, 2, 3}
    Critical = {2}
    User = {u1, u2}
    Audience <- MostForBoth
    Relay = {p1, p2}
    BatchSize = 2
    MaxAttempts = 2
    MaxFaults = 2
    Viewer = {u1}
    Unsteady = {u1}
    QueueSize = 1
    FirstStreams <- NoStreams
    None = None
INVARIANTS
    StreamTypeOK
    DeliveredMeansNotified
    
    OwnFramesOnly
PROPERTIES
    EndedStaysEnded
    EveryEventEnds
    DroppedFramesAreSeen
CHECK_DEADLOCK FALSE
