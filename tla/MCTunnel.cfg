SPECIFICATION FairSpec
INVARIANTS InOrder AckedDelivered Awake
PROPERTIES OrphanNoticed ServerGoesOn
CHECK_DEADLOCK FALSE
CONSTANTS
    SeqMod = 3
    MaxRetry = 0
    HeartbeatLimit = 1
    Channels = {1, 2}
    MaxNet = 1
    Bounds <- MCBounds
    Dup = {"req", "ack", "state", "disc"}
