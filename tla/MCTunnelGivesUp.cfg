SPECIFICATION FairSpec
PROPERTY ClientGoesOn
CHECK_DEADLOCK FALSE
CONSTANTS
    SeqMod = 3
    MaxRetry = 0
    HeartbeatLimit = 1
    Channels = {1, 2}
    MaxNet = 1
    Bounds <- MCGivesUp
    Dup = {"req", "ack", "state", "disc"}
