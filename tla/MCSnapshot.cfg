CONSTANTS
    Views <- MCViews
    PACKET_BACKUP = 4
    Slack = 1
    numSnapshotEntities = 10
    MAX_PARSE_ENTITIES = 8
    Margin = 3
    InFlight = 2
    MaxMessages = 6
    MaxServerId = 2

SPECIFICATION Spec
INVARIANT SnapshotsIntact DeltaFromKnownFrame MapAgrees
CHECK_DEADLOCK FALSE
