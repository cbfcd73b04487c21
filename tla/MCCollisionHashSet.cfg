SPECIFICATION Spec
CONSTANTS
    MAX_HASHSET_SIZE = 3
    Keys <- SmallKeys
    Values <- SmallTimes
    NoCollisionYet = 10000
INVARIANTS
    TypeOK
    PutFindsPlace
PROPERTIES
    ImplementsMap
