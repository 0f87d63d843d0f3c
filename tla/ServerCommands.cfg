\* Two maps, commands replaced while pending.
CONSTANTS
    MAX_RELIABLE_COMMANDS = 2
    MaxWritten = 2
    ConfigString = {1}
    LongString = {}
    MOHTA = TRUE
    MaxChanges = 2
    MaxMessages = 4
    MaxServerId = 2
    MaxInFlight = 2

SPECIFICATION Spec

INVARIANT SnapshotGuarantee ExecutedAsIssued ConfigstringsCurrent KeysAgree
PROPERTY NoNeedlessGamestate
CHECK_DEADLOCK FALSE
