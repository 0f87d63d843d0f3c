\* Four files, of which the client has some, cannot create one and is refused one.
CONSTANTS
    short = short
    long = long
    sealed = sealed
    secret = secret
    NoFile = NoFile
    Paks <- Four
    Blocks <- MCBlocks
    Refused = {secret}
    Unwritable = {sealed}
    MAX_DOWNLOAD_WINDOW = 2
    SHORT = 8
    MAX_RELIABLE_COMMANDS = 5
    MaxInFlight = 2

SPECIFICATION FairSpec

INVARIANTS FileIntact
PROPERTY FilesArrive
CHECK_DEADLOCK FALSE
