\* Two processes in any roles, a known ad and one to be created, two messages.
SPECIFICATION LauncherFairSpec
CONSTANTS
    p1 = p1
    p2 = p2
    m1 = m1
    m2 = m2
    Procs = {p1, p2}
    a1 = a1
    a2 = a2
    Ads = {a1, a2}
    Messages = {m1, m2}
    Roles <- AnyBeside
    Known = {a1}
    Emails <- Batches
    None = None
    MaxFaults = 1
    MaxWrites = 1
INVARIANTS
    NoFalseAbsence
    JournalIsTrue
    ConfirmedWriteIsRecorded
    ServesWhatItSynced
PROPERTIES
    CleanExit
    VerdictIsFinal
    EveryPhaseEnds
CHECK_DEADLOCK FALSE
