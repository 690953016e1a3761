----------------------------- MODULE StoreBackup -----------------------------
(***************************************************************************)
(* mark-api-backup: backup_store copies the store with SQLite's online     *)
(* backup into memory, writes the image to an anonymous file, and links it *)
(* to a name nobody has, looking three times whether the source is still   *)
(* the one it began with: before and after the image is made durable, and  *)
(* after the link.  Nothing locks the store meanwhile.                     *)
(***************************************************************************)
EXTENDS SqliteFile

CONSTANTS
    Backups,    \* processes that run mark-api-backup, all for one target
    Migrations, \* processes that run mark-api-migrate-legacy (LegacyMigration)
    MaxRuns,    \* bound: tools that are started
    MaxFaults   \* bound: deaths, failing calls and a power loss

\* A published file: its pages, whether they and its name survive a power loss,
\* and the versions that were current when its maker began and when it was linked.
Published == [by : Backups \cup Migrations, image : Image, synced : BOOLEAN,
              entry : BOOLEAN, from : Versions, upTo : Versions]

ASSUME ToolConstants ==
    /\ Backups \cap Migrations = {}
    /\ Migrations \cap {None, "writer"} = {}
    /\ None \notin Published
    /\ MaxRuns \in Nat /\ MaxFaults \in Nat

VARIABLES
    schema,     \* what is in the store: the "current" or a "legacy" schema
    runs,       \* the backup processes
    migrations, \* the migration processes
    files,      \* what stands at the published names
    faults

toolVars == <<schema, runs, migrations, files, faults>>
vars == <<fileVars, toolVars>>

Ended == {"done", "failed", "dead"}
Names == {"backup", "output"}

NoRun == [at |-> "idle", log |-> None, immutable |-> FALSE,
          image |-> <<>>, seen |-> 0, begun |-> 0, round |-> 0,
          durable |-> FALSE]

File(maker, image, durable, begun) ==
    [by |-> maker, image |-> image, synced |-> durable, entry |-> FALSE,
     from |-> begun, upTo |-> committed]

Started == {b \in Backups : runs[b].at # "idle"}
           \cup {m \in Migrations : migrations[m].at # "idle"}
MayStart == Cardinality(Started) < MaxRuns

\* Connections that follow SQLite's locking; an immutable one is invisible.
Connected == {b \in Backups : runs[b].at \notin Ended
                                   \cup {"idle", "inspected", "naming", "opening"}
                              /\ ~runs[b].immutable}
             \cup {m \in Migrations : migrations[m].at \notin Ended
                                          \cup {"idle", "fencing"}}

---------------------------------------------------------------------------
Go(b, at) == runs' = [runs EXCEPT ![b].at = at]
Refuse(b) == runs' = [runs EXCEPT ![b] = [NoRun EXCEPT !.at = "failed"]]
Check(b, holds, at) == IF holds THEN Go(b, at) ELSE Refuse(b)
Same == UNCHANGED <<fileVars, schema, migrations, files, faults>>

\* Variant: a look does not compare mtime and ctime of the main file.
MainIsTrusted(b) == TRUE

MainUnchanged(b) == b \in mainSeen
LogUnchanged(b) == IF runs[b].log = None THEN wal = None ELSE b \in logSeen

\* The source is looked at first: a journal is left to its owner.
Inspect(b) ==
    /\ runs[b].at = "idle"
    /\ MayStart /\ writer # "off"
    /\ IF journal # None
       THEN Refuse(b)
       ELSE runs' = [runs EXCEPT ![b].at = "inspected", ![b].begun = committed]
    /\ mainSeen' = mainSeen \cup {b}
    /\ UNCHANGED <<mode, main, journal, logFile, lock, writer, committed>>
    /\ UNCHANGED <<schema, migrations, files, faults>>

\* Only a quiet store in WAL mode may be read without SQLite's locks.
InspectSidecars(b) ==
    /\ runs[b].at = "inspected"
    /\ runs' = [runs EXCEPT ![b].at = "naming",
                            ![b].log = wal,
                            ![b].immutable = mode = "wal" /\ wal = None]
    /\ Same

\* _new_target before anything is copied.
NewTarget(b) ==
    /\ runs[b].at = "naming"
    /\ Check(b, files["backup"] = None, "opening")
    /\ Same

\* The connection is made and must still be to the file that was looked at.
\* A reader cannot roll back a hot journal; it makes an empty log if there is none.
Connect(b) ==
    /\ runs[b].at = "opening"
    /\ LET locked == ~runs[b].immutable IN
       /\ Check(b, MainUnchanged(b) /\ ~(locked /\ (Hot \/ Blocked)), "attesting")
       /\ IF locked /\ mode = "wal" /\ wal = None
          THEN ChangeLog(<<>>) ELSE UNCHANGED logFile
    /\ UNCHANGED <<mode, mainFile, journal, lock, writer, committed>>
    /\ UNCHANGED <<schema, migrations, files, faults>>

\* The log must have the contents it had; only now its mtime and ctime are noted,
\* since opening moves them.
Attest(b) ==
    /\ runs[b].at = "attesting"
    /\ Check(b, wal = runs[b].log /\ journal = None /\ schema = "current", "copying")
    /\ logSeen' = logSeen \cup {b}
    /\ UNCHANGED <<mode, mainFile, journal, wal, lock, writer, committed>>
    /\ UNCHANGED <<schema, migrations, files, faults>>

\* Variant: a hot journal is waited for like a lock.
CopyPatiently(b) ==
    /\ runs[b].at = "copying"
    /\ runs[b].immutable \/ ~(Blocked \/ Hot)
    /\ LET r == runs[b]
           image == IF r.immutable THEN Append(r.image, main[Len(r.image) + 1])
                    ELSE IF r.seen = committed
                    THEN Append(r.image, Read(Len(r.image) + 1)) ELSE <<Read(1)>>
       IN runs' = [runs EXCEPT ![b].image = image,
                               ![b].seen = committed,
                               ![b].at = IF Len(image) = LastPage
                                         THEN "comparing" ELSE "copying"]
    /\ Same

\* One step of the online backup.  With locks it starts again when the store
\* has changed since its last step, and it fails on a hot journal.
Copy(b) ==
    /\ runs[b].at = "copying"
    /\ LET r == runs[b]
           image == IF r.immutable THEN Append(r.image, main[Len(r.image) + 1])
                    ELSE IF r.seen = committed
                    THEN Append(r.image, Read(Len(r.image) + 1)) ELSE <<Read(1)>>
       IN \/ /\ ~r.immutable /\ Hot
             /\ Refuse(b)
          \/ /\ r.immutable \/ ~(Blocked \/ Hot)
             /\ runs' = [runs EXCEPT ![b].image = image,
                                     ![b].seen = committed,
                                     ![b].at = IF Len(image) = LastPage
                                               THEN "comparing" ELSE "copying"]
    /\ Same

\* Without a log the image must equal the main file byte by byte.
Compare(b) ==
    /\ runs[b].at = "comparing"
    /\ IF runs[b].log = None /\ \E p \in Pages : runs[b].image[p] # main[p]
       THEN Refuse(b)
       ELSE runs' = [runs EXCEPT ![b].at = "main", ![b].round = 1]
    /\ Same

\* The three looks: the main file, the log, the journal, one after the other.
AfterLook(b) == CASE runs[b].round = 1 -> "syncing"
                  [] runs[b].round = 2 -> "linking"
                  [] OTHER -> "done"

LookAtMain(b) ==
    /\ runs[b].at = "main"
    /\ Check(b, MainUnchanged(b), "sidecars")
    /\ Same

LookAtSidecars(b) ==
    /\ runs[b].at = "sidecars"
    /\ Check(b, LogUnchanged(b), "journal")
    /\ Same

LookAtJournal(b) ==
    /\ runs[b].at = "journal"
    /\ Check(b, journal = None, AfterLook(b))
    /\ Same

SyncStage(b) ==
    /\ runs[b].at = "syncing"
    /\ runs' = [runs EXCEPT ![b].at = "main", ![b].round = 2, ![b].durable = TRUE]
    /\ Same

\* _new_target again; the name may still be taken before the link.
NewTargetAgain(b) ==
    /\ runs[b].at = "linking"
    /\ Check(b, files["backup"] = None, "publishing")
    /\ Same

\* Variant: the name is taken over if somebody was faster.
LinkOver(b) ==
    /\ runs[b].at = "publishing"
    /\ Go(b, "directory")
    /\ files' = [files EXCEPT !["backup"] =
                     File(b, runs[b].image, runs[b].durable, runs[b].begun)]
    /\ UNCHANGED <<fileVars, schema, migrations, faults>>

\* os.link never replaces a name.
Link(b) ==
    /\ runs[b].at = "publishing"
    /\ Check(b, files["backup"] = None, "directory")
    /\ files' = IF files["backup"] # None THEN files
                ELSE [files EXCEPT !["backup"] =
                          File(b, runs[b].image, runs[b].durable, runs[b].begun)]
    /\ UNCHANGED <<fileVars, schema, migrations, faults>>

\* Variant: the receipt is given without a third look.
SyncDirectoryLast(b) ==
    /\ runs[b].at = "directory"
    /\ files' = [files EXCEPT !["backup"].entry = TRUE]
    /\ runs' = [runs EXCEPT ![b].at = "done", ![b].round = 3]
    /\ UNCHANGED <<fileVars, schema, migrations, faults>>

\* Once its directory is synced the name survives a power loss.
SyncDirectory(b) ==
    /\ runs[b].at = "directory"
    /\ files' = [files EXCEPT !["backup"].entry = TRUE]
    /\ runs' = [runs EXCEPT ![b].at = "main", ![b].round = 3]
    /\ UNCHANGED <<fileVars, schema, migrations, faults>>

\* A call fails or the process dies; what is linked stays.
BackupStops(b) ==
    /\ faults < MaxFaults
    /\ runs[b].at \notin Ended \cup {"idle"}
    /\ Refuse(b)
    /\ faults' = faults + 1
    /\ UNCHANGED <<fileVars, schema, migrations, files>>

BackupStep(b) ==
    \/ InspectSidecars(b) \/ NewTarget(b) \/ Connect(b) \/ Attest(b)
    \/ Copy(b) \/ Compare(b)
    \/ LookAtMain(b) \/ LookAtSidecars(b) \/ LookAtJournal(b)
    \/ SyncStage(b) \/ NewTargetAgain(b) \/ Link(b) \/ SyncDirectory(b)
=============================================================================
