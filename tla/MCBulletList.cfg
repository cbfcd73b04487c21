\* Room for one bullet more than the buffer takes, and one more.
\* Once the packet has overrun its array the process may do anything.
SPECIFICATION Spec
CONSTANTS
    Nodes = {n1, n2, n3, n4}
    MAX_BULLETS_PER_BUFFER = 2
    Margin = 5
    SizeModulus = 1024
    MAX_VORTEX_SPAWNERS = 2
    NULL = NULL
INVARIANTS
    TypeOK
    CountIsLength
    SnapshotComplete
    SkewIsByShots
    SentPacketBounded
SYMMETRY Symmetry
CHECK_DEADLOCK FALSE
