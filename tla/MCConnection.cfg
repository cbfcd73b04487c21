\* Two others come and go.  Packets of no bullet reach the client whole, also if their
\* header counts one; of one are too long for its buffer, and of two are withheld.
SPECIFICATION Spec
CONSTANTS
    Others = {c1, c2}
    MAX_BULLETS_PER_BUFFER = 1
    bullet_capacity = 1
    MaxBullets = 2
    MaxUp = 2
    MaxDown = 2
    Nobody = Nobody
INVARIANTS
    TypeOK
    DrawnWasWritten
PROPERTIES
    LockIsReleased
    BroadcastsGoOn
    NewcomerIsAnnounced
CHECK_DEADLOCK FALSE
