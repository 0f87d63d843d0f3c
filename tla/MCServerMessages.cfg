\* Gamestates are fragmented, snapshots may be, two server ids.
CONSTANTS
    short = short
    long = long
    NoMessage = NoMessage
    FRAGMENT_SIZE = 2
    MAX_MSGLEN = 2
    MaxMessages = 6
    Message <- MCMessage
    Length <- MCLength
    Gamestates = {long}
    Snapshots = {short, long}
    Nops = {short}
    PACKET_BACKUP = 4
    Slack = 1
    MaxServerId = 2

SPECIFICATION SpecMessages

INVARIANT DeltaBasesAgree
PROPERTY ResentOnlyIfLost
CHECK_DEADLOCK FALSE
