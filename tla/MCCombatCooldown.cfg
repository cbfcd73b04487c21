\* Two ships and their cooldown.  The table is too small for the four bytes they
\* can have; hit points, which nothing here depends on, are not counted.
SPECIFICATION Spec
CONSTANTS
    MAX_CLIENTS = 2
    INITIAL_PLAYER_HP = 1
    PLAYER_SPAWNED_BULLET_DAMAGE = 0
    BOAT_COLLISION_DAMAGE = 0
    Cooldown = 1
    MAX_HASHSET_SIZE = 3
    BULLET_COLLISION_MASK = 7
    MinHp = 0
    Broadcast = Broadcast
    Nobody = Nobody
PROPERTIES
    StruckOnce
    CooldownHeld
CONSTRAINTS NobodyRespawns OneUpdateAtATime
