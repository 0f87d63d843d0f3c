\* Two clients want the only slot and the only challenge; messages are up to a
\* frame old.
CONSTANTS
    c1 = c1
    c2 = c2
    Clients <- MCClients
    MAX_CLIENTS = 1
    MAX_CHALLENGES = 1
    MAX_CHALLENGES_MULTI = 0
    Numbers = {1, 2}
    RETRANSMIT_TIMEOUT = 1
    sv_reconnectlimit = 3
    sv_zombietime = 2
    sv_timeout = 3
    TimeoutFrames = 0
    Lifetime = 1
    MayDeny = TRUE
    MayKickZombies = TRUE
    LevelChanges = {"map", "restart"}
    NoClient = NoClient
    NoNumber = NoNumber

SPECIFICATION Spec
SYMMETRY MCSymmetry

INVARIANT FirstPacketForcesGameState 
