\* A ring of three that wraps around and overflows; packets of one datagram.
CONSTANTS
    MAX_RELIABLE_COMMANDS = 3
    FRAGMENT_SIZE = 9
    MaxCommands = 6
    MaxInFlight = 2

SPECIFICATION FairSpec

INVARIANT OnlyOldestOverwritten ExecutedAsAdded CommandsBeforeMove KeysAgreeWithinRing
PROPERTY EveryCommandArrives
CHECK_DEADLOCK FALSE
