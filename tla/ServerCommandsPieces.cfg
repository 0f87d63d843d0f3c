\* More commands than the ring holds, strings sent in pieces, messages with room
\* for two commands, no replacement.
CONSTANTS
    MAX_RELIABLE_COMMANDS = 3
    MaxWritten = 1
    ConfigString = {1}
    LongString = {1, 2}
    MOHTA = FALSE
    MaxChanges = 2
    MaxMessages = 4
    MaxServerId = 1
    MaxInFlight = 2

SPECIFICATION Spec

INVARIANT RingHoldsUnacknowledged ConfigstringsCurrentUnlessDeferred SnapshotOvertakesFew
CHECK_DEADLOCK FALSE
