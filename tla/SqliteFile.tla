------------------------------ MODULE SqliteFile ------------------------------
(***************************************************************************)
(* The store's files as SQLite keeps them, and an ordinary process that    *)
(* writes them while an offline tool reads: the main file page by page, a  *)
(* rollback journal or the write-ahead log with its shared memory.  Every  *)
(* transaction writes every page, so a page tells which version it is of.  *)
(*                                                                         *)
(* SQLite is not part of the repository: this module says what backup_cli  *)
(* and legacy_migration rely on.  Every write moves mtime and ctime of the *)
(* file, which is kept as the set of tools that have looked at the file    *)
(* since; a recreated log may get the inode number of the old one.         *)
(***************************************************************************)
EXTENDS Naturals, Sequences, FiniteSets

CONSTANTS
    LastPage,    \* the pages are 1..LastPage
    MaxCommits,  \* bound: transactions of the writer
    None

Pages == 1..LastPage
Versions == 0..MaxCommits

\* The committed frames of a log, and what has been copied of a store.
Log == {<<>>} \cup {<<v>> : v \in Versions}
Image == UNION {[1..n -> Versions] : n \in 0..LastPage}

ASSUME FileConstants ==
    /\ LastPage \in Nat \ {0} /\ MaxCommits \in Nat
    /\ None \notin Nat \cup Log \cup {"writer"}

VARIABLES
    mode,       \* journal mode of the header
    main,       \* main file: the version of each page
    mainSeen,   \* tools that know the present mtime and ctime of the main file
    journal,    \* the version a left rollback journal restores, or None
    wal,        \* -wal and -shm: <<version>> of the last frames, <<>> without, or None
    logSeen,    \* tools that know the present mtime and ctime of the log
    lock,       \* who may write: None, "writer" or a migration
    writer,     \* the ordinary process: "closed", "open", "committing" or "off"
    committed   \* the latest committed version

mainFile == <<main, mainSeen>>
logFile == <<wal, logSeen>>
fileVars == <<mode, mainFile, journal, logFile, lock, writer, committed>>

FileTypeOK ==
    /\ mode \in {"rollback", "wal"}
    /\ main \in [Pages -> Versions]
    /\ journal \in Versions \cup {None}
    /\ wal \in Log \cup {None}
    /\ writer \in {"closed", "open", "committing", "off"}
    /\ committed \in Versions

FileInit ==
    /\ mode \in {"rollback", "wal"}
    /\ main = [p \in Pages |-> 0]
    /\ committed = 0
    /\ journal = None /\ wal = None
    /\ mainSeen = {} /\ logSeen = {}
    /\ lock = None /\ writer = "closed"

\* A journal nobody is working with: the main file may be half written.
Hot == journal # None /\ lock = None

\* What a reader that follows SQLite's protocol reads, and when it has to wait.
HasFrames == wal # None /\ wal # <<>>
Read(p) == IF HasFrames THEN wal[1] ELSE main[p]
Blocked == mode = "rollback" /\ writer = "committing"

\* A change of the main file.
Change(pages) == main' = pages /\ mainSeen' = {}
ChangeLog(log) == wal' = log /\ logSeen' = {}

\* A connection that may write opens: a hot journal is rolled back, a log made.
OpenToWrite ==
    \/ /\ Hot
       /\ Change([p \in Pages |-> journal])
       /\ journal' = None
       /\ UNCHANGED logFile
    \/ /\ mode = "wal" /\ wal = None
       /\ ChangeLog(<<>>)
       /\ UNCHANGED <<mainFile, journal>>
    \/ /\ ~Hot
       /\ mode = "rollback" \/ wal # None
       /\ UNCHANGED <<mainFile, journal, logFile>>

\* It closes: the last one copies the frames into the main file and drops the log.
CloseToWrite(last) ==
    \/ /\ mode = "wal" /\ last /\ wal # None
       /\ ChangeLog(None)
       /\ IF HasFrames THEN Change([p \in Pages |-> wal[1]]) ELSE UNCHANGED mainFile
    \/ /\ mode = "rollback" \/ ~last \/ wal = None
       /\ UNCHANGED <<mainFile, logFile>>

---------------------------------------------------------------------------
WriterOpens ==
    /\ writer = "closed"
    /\ OpenToWrite
    /\ writer' = "open"
    /\ UNCHANGED <<mode, lock, committed>>

\* Rollback mode: the journal is made before the first page is changed.
WriterBegins ==
    /\ mode = "rollback" /\ writer = "open"
    /\ lock = None /\ journal = None
    /\ committed < MaxCommits
    /\ lock' = "writer"
    /\ journal' = committed
    /\ UNCHANGED <<mode, mainFile, logFile, writer, committed>>

\* Rollback mode: the pages are written one by one, without readers.
WriterWrites ==
    /\ mode = "rollback" /\ lock = "writer"
    /\ \E p \in Pages :
           /\ main[p] = committed
           /\ \A q \in Pages : q < p => main[q] # committed
           /\ Change([main EXCEPT ![p] = committed + 1])
    /\ writer' = "committing"
    /\ UNCHANGED <<mode, journal, logFile, lock, committed>>

\* Rollback mode: deleting the journal commits.
WriterCommits ==
    /\ mode = "rollback" /\ lock = "writer"
    /\ \A p \in Pages : main[p] = committed + 1
    /\ journal' = None
    /\ lock' = None
    /\ writer' = "open"
    /\ committed' = committed + 1
    /\ UNCHANGED <<mode, mainFile, logFile>>

\* WAL mode: appending the frames commits.
WriterAppends ==
    /\ mode = "wal" /\ writer = "open"
    /\ lock = None
    /\ committed < MaxCommits
    /\ ChangeLog(<<committed + 1>>)
    /\ committed' = committed + 1
    /\ UNCHANGED <<mode, mainFile, journal, lock, writer>>

\* WAL mode: a checkpoint copies the frames page by page; readers go on.
WriterCheckpoints ==
    /\ mode = "wal" /\ writer = "open"
    /\ HasFrames
    /\ \E p \in Pages :
           /\ main[p] # wal[1]
           /\ \A q \in Pages : q < p => main[q] = wal[1]
           /\ Change([main EXCEPT ![p] = wal[1]])
    /\ UNCHANGED <<mode, journal, logFile, lock, writer, committed>>

\* last: nobody else has the store open through SQLite's locks.
WriterCloses(last) ==
    /\ writer = "open"
    /\ lock # "writer"
    /\ mode = "wal" /\ last /\ HasFrames =>
           \A p \in Pages : main[p] = wal[1]
    /\ IF mode = "wal" /\ last THEN ChangeLog(None) ELSE UNCHANGED logFile
    /\ writer' = "closed"
    /\ UNCHANGED <<mode, mainFile, journal, lock, committed>>

\* The process dies: its lock goes, journal and log stay.
WriterDies ==
    /\ writer \in {"open", "committing"}
    /\ lock' = IF lock = "writer" THEN None ELSE lock
    /\ writer' = "closed"
    /\ UNCHANGED <<mode, mainFile, journal, logFile, committed>>

\* What ends a transaction that has begun.
WriterFinishes == WriterWrites \/ WriterCommits
=============================================================================
