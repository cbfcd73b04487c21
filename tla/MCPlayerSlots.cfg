\* Three connections compete for two slots.  Nothing is promised, and nothing
\* is explored, beyond the first state that is not Sound.
SPECIFICATION Spec
CONSTANTS
    MaxClients = 2
    Conns = {c1, c2, c3}
    Fds = {1, 2, 3}
    Nobody = Nobody
SYMMETRY Symmetry
CONSTRAINT Sound
INVARIANTS
    TypeOK
    SlotExclusive
    NoLeakedSlot
    SocketTableSound
    DescriptorHeld
    StaticExchange
CHECK_DEADLOCK FALSE
