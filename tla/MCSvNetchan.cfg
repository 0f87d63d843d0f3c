\* The server's channel: three messages of four lengths.
CONSTANTS
    empty = empty
    one = one
    odd = odd
    two = two
    NoMessage = NoMessage
    FRAGMENT_SIZE = 2
    MAX_MSGLEN = 4
    MaxMessages = 3
    Message <- MCMessage
    Length <- MCLength

SPECIFICATION FairSpec

INVARIANT SequenceIsOrderHanded
PROPERTIES ChannelSpec EverythingIsSent
CHECK_DEADLOCK FALSE
