SPECIFICATION FairSpec
CONSTANTS
    read = read
    rival = rival
    ask = ask
    frame = frame
    Request <- MCRequest
    Sync <- MCSync
    Writer <- MCWriter
    Rival <- MCRival
    PoolSize = 2
    Threads = 1
INVARIANT
    RefusedChangedNothing
PROPERTIES
    RefusedOnlyUnderLoad
    EveryRequestEnds
