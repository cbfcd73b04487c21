\* Two players and one bullet at a time, which straight or slanting is past every
\* border in three steps or less.
SPECIFICATION Spec
CONSTANTS
    MAX_CLIENTS = 2
    Nodes = {n1}
    Null = Null
    One = 5
    Rotations <- MCRotations
    Places <- MCPlaces
    Spawner <- MCSpawner
    WINDOW_WIDTH = 28
    WINDOW_HEIGHT = 24
    tolerance = 4
    BULLET_SPEED = 10
    BULLET_HALF <- MCBullet
    PLAYER_HALF <- MCShip
    DEAD_PLAYER_POS <- MCDead
    SERVER_SPAWNED_BULLET = 6
INVARIANTS
    TypeOK
PROPERTIES
    ContactIsFound
    StraightHitsTouch
    HitsOnce
    GoneForAReason
    DeadAreOutOfReach
    BulletsEnd
CONSTRAINTS OneHandlerAtATime
