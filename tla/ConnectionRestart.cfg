\* One client, two slots and two challenges; messages do not outlive a frame.
CONSTANTS
    Clients = {c1}
    MAX_CLIENTS = 2
    MAX_CHALLENGES = 2
    MAX_CHALLENGES_MULTI = 1
    Numbers = {1, 2}
    RETRANSMIT_TIMEOUT = 1
    sv_reconnectlimit = 1
    sv_zombietime = 1
    sv_timeout = 1
    TimeoutFrames = 1
    Lifetime = 0
    MayDeny = FALSE
    MayKickZombies = FALSE
    LevelChanges = {"restart"}
    NoClient = NoClient
    NoNumber = NoNumber

SPECIFICATION FairSpec

PROPERTY GameStateArrives
