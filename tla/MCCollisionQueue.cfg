\* A ring of three places, and frames as long as an effect or shorter.
SPECIFICATION Spec
CONSTANTS
    MAX_COLLISION_COUNT = 3
    Kinds = {ship, shot}
    AnimTime = 3
    Deltas = {0, 1, 3}
    NoKind = NoKind
INVARIANTS
    TypeOK
    RingConsistent
    NeverEmptyHanded
PROPERTIES
    ImplementsEffects
