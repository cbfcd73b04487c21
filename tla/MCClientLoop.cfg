\* Each cooldown takes a short frame and a long one, or two of them.
SPECIFICATION Spec
CONSTANTS
    SHOOT_COOLDOWN = 1
    RESPAWN_COOLDOWN = 1
    Deltas = {1, 2}
    MaxUp = 2
    MaxDown = 2
INVARIANTS
    TypeOK
    AliveIsAtSea
    RespawnIsForThisDeath
PROPERTY
    ShotsCooledDown
CHECK_DEADLOCK FALSE
