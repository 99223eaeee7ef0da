CONSTANTS
    MaxCommits = 2
    MaxGens = 3
SPECIFICATION PeerSyncFairSpec
INVARIANTS
    ConfirmedMeansEnforced
    NotificationKept
PROPERTIES
    WaitersReleased
CHECK_DEADLOCK FALSE
