\* Two ships and their hit points.  The table takes nothing, so that ships that
\* touch are damaged in every tick.
SPECIFICATION Spec
CONSTANTS
    MAX_CLIENTS = 2
    INITIAL_PLAYER_HP = 1
    PLAYER_SPAWNED_BULLET_DAMAGE = 1
    BOAT_COLLISION_DAMAGE = 1
    Cooldown = 0
    MAX_HASHSET_SIZE = 0
    BULLET_COLLISION_MASK = 7
    MinHp = 0
    Broadcast = Broadcast
    Nobody = Nobody
INVARIANTS
    TypeOK
    ShownDamageStays
