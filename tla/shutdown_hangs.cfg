SPECIFICATION FairSpec
CONSTANTS
    Socket = {k1}
    Event = {e1}
    Signal = {SIGTERM, SIGINT}
    MaxPublished = 0
    MaxDrops = 0
PROPERTIES
    ShutdownEnds
CHECK_DEADLOCK FALSE
