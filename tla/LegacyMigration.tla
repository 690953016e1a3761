--------------------------- MODULE LegacyMigration ---------------------------
(***************************************************************************)
(* mark-api-migrate-legacy: migrate_legacy_store holds SQLite's write lock *)
(* on the old store while it makes a backup and, from the backup, a new    *)
(* store, and publishes the backup before the new store.  The second part  *)
(* puts the writer, backups and migrations on one store together.          *)
(***************************************************************************)
EXTENDS StoreBackup

NoMigration == [at |-> "idle", image |-> <<>>, begun |-> 0, durable |-> FALSE]

MGo(m, at) == migrations' = [migrations EXCEPT ![m].at = at]
MSame == UNCHANGED <<fileVars, schema, runs, files, faults>>

\* Rollback of the fence and close of its connection, however the run ends.
MEnd(m, at) ==
    /\ lock' = None
    /\ CloseToWrite(writer # "open" /\ Connected \subseteq {m})
    /\ MGo(m, at)
    /\ UNCHANGED <<mode, journal, writer, committed, schema, runs, faults>>

\* Both names must be free; nothing holds the source yet.
Prepare(m) ==
    /\ migrations[m].at = "idle"
    /\ MayStart /\ writer # "off"
    /\ MGo(m, IF \A n \in Names : files[n] = None THEN "fencing" ELSE "failed")
    /\ MSame

\* BEGIN IMMEDIATE, for which SQLite waits three seconds.
Fence(m) ==
    /\ migrations[m].at = "fencing"
    /\ lock = None
    /\ OpenToWrite
    /\ lock' = m
    /\ migrations' = [migrations EXCEPT ![m].at = "inspecting", ![m].begun = committed]
    /\ UNCHANGED <<mode, writer, committed, schema, runs, files, faults>>

FenceTimesOut(m) ==
    /\ migrations[m].at = "fencing"
    /\ lock # None
    /\ MGo(m, "failed")
    /\ MSame

InspectHistory(m) ==
    /\ migrations[m].at = "inspecting"
    /\ IF schema = "legacy"
       THEN MGo(m, "copying") /\ MSame
       ELSE MEnd(m, "failed") /\ UNCHANGED files

\* The whole copy is one step of the online backup, made durable at once.
CopyHistory(m) ==
    /\ migrations[m].at = "copying"
    /\ migrations' = [migrations EXCEPT ![m].at = "building", ![m].durable = TRUE,
                          ![m].image = [p \in Pages |-> Read(p)]]
    /\ MSame

\* The new store is built from the backup and made durable under a private name.
Build(m) ==
    /\ migrations[m].at = "building"
    /\ IF migrations[m].begun = committed
       THEN MGo(m, "linking") /\ MSame
       ELSE MEnd(m, "failed") /\ UNCHANGED files

\* A link to a taken name fails.
Publish(m, n, next) ==
    LET mig == migrations[m] IN
    IF files[n] # None
    THEN MEnd(m, "failed") /\ UNCHANGED files
    ELSE /\ files' = [files EXCEPT ![n] = File(m, mig.image, mig.durable, mig.begun)]
         /\ MGo(m, next)
         /\ UNCHANGED <<fileVars, schema, runs, faults>>

LinkBackup(m) ==
    /\ migrations[m].at = "linking"
    /\ Publish(m, "backup", "directory")

\* Variant: the directory is synced with the output's only.
SyncBackupLater(m) ==
    /\ migrations[m].at = "directory"
    /\ MGo(m, "checking")
    /\ MSame

\* The backup is there for good before the output is linked.
SyncBackup(m) ==
    /\ migrations[m].at = "directory"
    /\ files' = [files EXCEPT !["backup"].entry = TRUE]
    /\ MGo(m, "checking")
    /\ UNCHANGED <<fileVars, schema, runs, faults>>

\* data_version and the identities of source and backup, then the second link.
LinkOutput(m) ==
    /\ migrations[m].at = "checking"
    /\ IF migrations[m].begun = committed
       THEN Publish(m, "output", "finishing")
       ELSE MEnd(m, "failed") /\ UNCHANGED files

SyncOutput(m) ==
    /\ migrations[m].at = "finishing"
    /\ files' = [files EXCEPT !["output"].entry = TRUE]
    /\ MEnd(m, "done")

\* A call fails: the fence is rolled back.  The process dies: SQLite's lock goes.
MigrationFails(m) ==
    /\ faults < MaxFaults
    /\ migrations[m].at \notin Ended \cup {"idle", "fencing"}
    /\ lock' = None
    /\ \/ CloseToWrite(writer # "open" /\ Connected \subseteq {m})
       \/ UNCHANGED <<mainFile, logFile>>
    /\ MGo(m, "failed")
    /\ faults' = faults + 1
    /\ UNCHANGED <<mode, journal, writer, committed, schema, runs, files>>

MigrationStep(m) ==
    \/ Fence(m) \/ FenceTimesOut(m) \/ InspectHistory(m) \/ CopyHistory(m)
    \/ Build(m) \/ LinkBackup(m) \/ SyncBackup(m) \/ LinkOutput(m) \/ SyncOutput(m)

---------------------------------------------------------------------------
WriterStep ==
    /\ \/ WriterOpens \/ WriterBegins \/ WriterFinishes
       \/ WriterAppends \/ WriterCheckpoints
       \/ WriterCloses(Connected = {})
    /\ UNCHANGED toolVars

WriterCrash ==
    /\ faults < MaxFaults
    /\ WriterDies
    /\ faults' = faults + 1
    /\ UNCHANGED <<schema, runs, migrations, files>>

\* The machine goes down: a name may be lost until its directory was synced, and
\* contents until the file was; nobody works afterwards.
PowerLoss ==
    /\ faults < MaxFaults
    /\ writer # "off"
    /\ writer' = "off"
    /\ lock' = None
    /\ \E lost \in SUBSET {n \in Names : files[n] # None /\ ~files[n].entry} :
           files' = [n \in Names |->
                        IF n \in lost \/ files[n] = None THEN None
                        ELSE IF files[n].synced THEN files[n]
                        ELSE [files[n] EXCEPT !.image = <<>>]]
    /\ runs' = [b \in Backups |-> IF runs[b].at = "done" THEN runs[b]
                                   ELSE [runs[b] EXCEPT !.at = "dead"]]
    /\ migrations' = [m \in Migrations |->
                         IF migrations[m].at = "done" THEN migrations[m]
                         ELSE [migrations[m] EXCEPT !.at = "dead"]]
    /\ faults' = faults + 1
    /\ UNCHANGED <<mode, mainFile, journal, logFile, committed, schema>>

Init ==
    /\ FileInit
    /\ schema \in {"current", "legacy"}
    /\ runs = [b \in Backups |-> NoRun]
    /\ migrations = [m \in Migrations |-> NoMigration]
    /\ files = [n \in Names |-> None]
    /\ faults = 0

Next ==
    \/ \E b \in Backups : Inspect(b) \/ BackupStep(b) \/ BackupStops(b)
    \/ \E m \in Migrations : Prepare(m) \/ MigrationStep(m) \/ MigrationFails(m)
    \/ WriterStep \/ WriterCrash \/ PowerLoss

\* A tool that runs and a transaction that has begun go on; nobody has to start one.
Progress ==
    \/ \E b \in Backups : BackupStep(b)
    \/ \E m \in Migrations : MigrationStep(m)
    \/ WriterFinishes /\ UNCHANGED toolVars

Spec == Init /\ [][Next]_vars /\ WF_vars(Progress)

---------------------------------------------------------------------------
\* Types; and only a store in WAL mode without a log is ever read without locks.
BackupTypeOK ==
    /\ FileTypeOK
    /\ lock \in {None, "writer"} \cup Migrations
    /\ schema \in {"current", "legacy"}
    /\ mainSeen \subseteq Backups /\ logSeen \subseteq Backups
    /\ \A b \in Backups : /\ runs[b].image \in Image
                          /\ runs[b].round \in 0..3
                          /\ runs[b].immutable => mode = "wal" /\ runs[b].log = None
    /\ \A m \in Migrations : migrations[m].image \in Image
    /\ \A n \in Names : files[n] # None => /\ files[n].by \in Backups \cup Migrations
                                           /\ files[n].image \in Image
    /\ faults \in 0..MaxFaults

\* Whatever stands at a published name, after failures, deaths and a power loss
\* too, is one committed version of the store, whole, and one that was current
\* between the start of the tool and the link.
PublishedIsSnapshot ==
    \A n \in Names : files[n] # None =>
        \E v \in files[n].from .. files[n].upTo :
            files[n].image = [p \in Pages |-> v]

\* A receipt says more: the backup it is for still stands, power loss or not, and
\* no transaction had overtaken it when it was linked.  The latter is not so for a
\* store read without locks: a log that is made after the second look and copied
\* and dropped between the two halves of the third is not noticed.
ReceiptHolds ==
    \A b \in Backups : runs[b].at = "done" =>
        /\ files["backup"] # None
        /\ files["backup"].by = b
        /\ files["backup"].image = runs[b].image
        /\ runs[b].immutable \/ \A p \in Pages :
                                    runs[b].image[p] = files["backup"].upTo

\* A new store never stands without the backup it was made from, and it holds all
\* that was committed to the old one.
OutputHasBackup ==
    files["output"] # None =>
        /\ files["backup"] # None
        /\ files["backup"].image = files["output"].image
        /\ files["output"].image = [p \in Pages |-> files["output"].upTo]

\* What one tool published is never replaced by another.
NeverOverwrites ==
    [][\A n \in Names : files[n] # None /\ files'[n] # None
                            => files'[n].by = files[n].by]_vars

Idle(t) == t.at \in Ended \cup {"idle"}

\* A started tool ends: it waits for transactions, not for a journal left behind.
ToolsEnd ==
    []<>(/\ \A b \in Backups : Idle(runs[b])
         /\ \A m \in Migrations : Idle(migrations[m]))
=============================================================================
