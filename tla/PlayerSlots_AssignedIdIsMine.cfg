\* Two connections, one slot each.
SPECIFICATION Spec
CONSTANTS
    MaxClients = 2
    Conns = {c1, c2}
    Fds = {1, 2}
    Nobody = Nobody
INVARIANT AssignedIdIsMine
CHECK_DEADLOCK FALSE
