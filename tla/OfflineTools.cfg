\* Two pages, one transaction, two tools out of two backups and two migrations,
\* and two faults.
SPECIFICATION Spec
CONSTANTS
    LastPage = 2
    MaxCommits = 1
    None = None
    Backups = {b1, b2}
    Migrations = {m1, m2}
    MaxRuns = 2
    MaxFaults = 2
INVARIANTS
    PublishedIsSnapshot
    ReceiptHolds
    OutputHasBackup
PROPERTIES
    NeverOverwrites
    ToolsEnd
CHECK_DEADLOCK FALSE
