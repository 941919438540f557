SPECIFICATION FairSpec
CONSTANTS
    None = None
    Documents = {d1, d2}
    Groups = {{d1}, {d2}}
    MaxChannels = 3
    MaxEdits = 2
    MaxFaults = 1
INVARIANTS
    TypeOK
    EventsInv
    OwedIsQueued
    QueueIsBounded
    WatchesAreOrderly
PROPERTIES
    KeepsWholeFeed
