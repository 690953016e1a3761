\* Two operations: a form submitted by the first may take effect during the
\* second.
SPECIFICATION SafeWriteSpec
CONSTANTS
    Ids = {i1, i2}
    Titles = {t1, t2}
    Texts = {d1}
    None = None
    MaxOps = 2
    MaxForeign = 1
    MaxMisses = 1
SYMMETRY Interchangeable
INVARIANTS
    NotAttemptedMeansUntouched
    ConfirmedWasTrue
    ConfirmedDeleteIsFinal
    ConfirmedCreateNamesNewAd
CHECK_DEADLOCK FALSE
