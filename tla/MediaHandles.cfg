\* Three refs, room for two images or for one large image and no other.
SPECIFICATION HandleSpec
CONSTANTS
    Refs = {r1, r2, r3}
    Large = {r3}
    MaxHandles = 2
    MaxBytes = 2
SYMMETRY Interchangeable
INVARIANTS
    BoundImagesSurvive
    ImagePublishedOnce
    DirectoryIsAccounted
    NextStartSucceeds
CHECK_DEADLOCK FALSE
