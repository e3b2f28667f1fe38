SPECIFICATION FairLiveSpec
CONSTANTS
    u1 = u1
    u2 = u2
    p1 = p1
    p2 = p2
    Event = {1, 2}
    Critical = {2}
    User = {u1, u2}
    Audience <- MostForBoth
    Relay = {p1}
    BatchSize = 2
    MaxAttempts = 2
    MaxFaults = 0
    Viewer = {u1}
    Unsteady = {}
    QueueSize = 1
    FirstStreams <- FirstAtP1
    None = None
PROPERTIES
    OpenStreamShowsInbox
CHECK_DEADLOCK FALSE
