\* Progress of two handlers, as long as nothing has gone wrong.
SPECIFICATION FairSpec
CONSTANTS
    MaxClients = 2
    Conns = {c1, c2}
    Fds = {1, 2}
    Nobody = Nobody
PROPERTIES
    JoinResolves
    GoneIsCleanedUp
CHECK_DEADLOCK FALSE
CONSTRAINT Sound
