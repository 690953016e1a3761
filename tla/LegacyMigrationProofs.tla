----------------------- MODULE LegacyMigrationProofs -----------------------
(***************************************************************************)
(* What the offline tools publish is whole and lasts, for any number of    *)
(* pages, transactions, tools, failing calls and power losses.             *)
(*                                                                         *)
(* The argument has three layers.  FileInv says what SQLite's files mean:  *)
(* unless a journal is left, every page that a reader gets is of the       *)
(* latest version.  RunInv says what a backup may infer from mtime and     *)
(* ctime: as long as it knows those of the main file, or of the log, no    *)
(* transaction has overtaken what it has copied.  MigrationInv says that a *)
(* migration between fence and end has the lock, so that nothing is        *)
(* committed meanwhile.  FilesInv and OutputInv carry this over to what    *)
(* stands at the published names.                                          *)
(***************************************************************************)
EXTENDS LegacyMigration, TLAPS

RunPlaces == {"idle", "inspected", "naming", "opening", "attesting", "copying", "comparing",
              "main", "sidecars", "journal", "syncing", "linking", "publishing", "directory"}
             \cup Ended
MigrationPlaces == {"idle", "fencing", "inspecting", "copying", "building", "linking",
                    "directory", "checking", "finishing"} \cup Ended

Run == [at : RunPlaces, log : Log \cup {None}, immutable : BOOLEAN, image : Image,
        seen : Versions, begun : Versions, round : 0..3, durable : BOOLEAN]
MigrationRun == [at : MigrationPlaces, image : Image, begun : Versions, durable : BOOLEAN]

StoreTypeOK ==
    /\ FileTypeOK
    /\ lock \in {None, "writer"} \cup Migrations
    /\ mainSeen \subseteq Backups /\ logSeen \subseteq Backups
ToolTypeOK ==
    /\ schema \in {"current", "legacy"}
    /\ runs \in [Backups -> Run]
    /\ migrations \in [Migrations -> MigrationRun]
    /\ files \in [Names -> Published \cup {None}]
    /\ faults \in 0..MaxFaults

Whole(image, v) == image = [p \in Pages |-> v]
AllPages(v) == \A p \in Pages : main[p] = v

\* What SQLite's files say of the latest version.  A reader that has to wait for
\* nobody gets it from every page.
FileInv ==
    /\ mode = "rollback" => wal = None
    /\ mode = "wal" => journal = None
    /\ lock = "writer" => journal # None /\ writer \in {"open", "committing"}
    /\ lock \in Migrations => journal = None
    /\ writer = "committing" => lock = "writer"
    /\ writer = "open" /\ mode = "wal" => wal # None
    /\ HasFrames => wal[1] = committed
    /\ journal = None /\ ~HasFrames => AllPages(committed)
    /\ journal # None => /\ journal = committed /\ committed < MaxCommits
                         /\ \A p \in Pages : main[p] \in {committed, committed + 1}
    /\ journal # None /\ lock = "writer" /\ writer = "open" => AllPages(committed)

Early == {"idle", "inspected", "naming", "opening", "attesting"}
Looking == {"main", "sidecars", "journal"}
Late == Looking \cup {"syncing", "linking", "publishing", "directory", "done"}

\* The places of a run fit its fields.
PlaceInv(b) ==
    LET r == runs[b] IN
    /\ r.at \in Early \cup {"failed"} => r.image = <<>>
    /\ r.at = "copying" => Len(r.image) < LastPage
    /\ r.at \in {"comparing"} \cup Late => Len(r.image) = LastPage
    /\ r.at \in Looking => r.round \in 1..3
    /\ r.at = "syncing" => r.round = 1
    /\ r.at \in {"linking", "publishing", "directory"} => r.round = 2
    /\ r.at = "done" => r.round = 3
    /\ r.round >= 2 => r.durable
    /\ r.begun <= committed

\* What the main file says to a run that knows its mtime and ctime: in rollback
\* mode nothing was committed since the run began, in WAL mode without a log the
\* main file is one version, and what was copied is still in it.
SourceInv(b) ==
    LET r == runs[b] IN
    /\ r.at = "idle" => b \notin mainSeen
    /\ r.at \in {"idle", "inspected"} => ~r.immutable
    /\ r.immutable => mode = "wal" /\ r.log = None
    /\ ~r.immutable /\ mode = "wal" /\ r.at \notin {"idle", "inspected", "failed", "dead"}
          => r.log # None
    /\ b \in mainSeen /\ mode = "rollback" /\ r.at \notin {"failed", "dead"}
          => AllPages(committed) /\ r.begun = committed
    /\ b \in mainSeen /\ r.immutable =>
          /\ \E v \in r.begun .. committed : AllPages(v)
          /\ \A i \in DOMAIN r.image : r.image[i] = main[i]

\* A copy under locks is one version.  It is the latest one as long as the run
\* knows the file into which the next transaction goes.
CopyInv(b) ==
    LET r == runs[b] IN
    ~r.immutable /\ r.image # <<>> =>
        /\ \A i \in DOMAIN r.image : r.image[i] = r.seen
        /\ r.begun <= r.seen /\ r.seen <= committed
        /\ mode = "wal" /\ b \in logSeen => r.seen = committed

\* The first look at the main file settles it for a copy without locks.
Looked(r) ==
    \/ r.at \in Late \ {"main"}
    \/ r.at = "main" /\ r.round >= 2
LookInv(b) ==
    LET r == runs[b] IN
    r.immutable /\ Looked(r) => \E v \in r.begun .. committed : Whole(r.image, v)

\* What was linked is there, and the third look tells that it was not overtaken.
Linked(r) == r.at = "directory" \/ (r.at \in Looking \cup {"done"} /\ r.round = 3)
LinkInv(b) ==
    LET r == runs[b]  f == files["backup"] IN
    Linked(r) =>
        /\ f # None /\ f.by = b /\ f.image = r.image
        /\ r.round = 3 => f.entry
        /\ ~r.immutable => r.seen <= f.upTo
        /\ ~r.immutable /\ mode = "rollback" /\ r.at \in {"sidecars", "journal", "done"}
              => f.upTo = r.seen
        /\ ~r.immutable /\ mode = "wal" /\ r.at \in {"journal", "done"} => f.upTo = r.seen

Fenced == {"inspecting", "copying", "building", "linking", "directory", "checking", "finishing"}
MigrationInv(m) ==
    LET g == migrations[m]  f == files["backup"] IN
    /\ g.at \in Fenced => lock = m /\ g.begun = committed
    /\ g.at \in Fenced \ {"inspecting", "copying"} => Whole(g.image, g.begun) /\ g.durable
    /\ g.at \in {"directory", "checking", "finishing"} =>
          f # None /\ f.by = m /\ f.image = g.image
    /\ g.at \in {"checking", "finishing"} => f.entry
    /\ g.at = "finishing" => files["output"] # None

FilesInv ==
    \A n \in Names : files[n] # None =>
        /\ files[n].synced
        /\ files[n].upTo <= committed
        /\ \E v \in files[n].from .. files[n].upTo : Whole(files[n].image, v)

OutputInv ==
    files["output"] # None =>
        /\ files["backup"] # None /\ files["backup"].entry
        /\ files["backup"].image = files["output"].image
        /\ Whole(files["output"].image, files["output"].upTo)

RunInv ==
    \A b \in Backups : PlaceInv(b) /\ SourceInv(b) /\ CopyInv(b) /\ LookInv(b) /\ LinkInv(b)
MigrationsInv == \A m \in Migrations : MigrationInv(m)

ToolsInv ==
    /\ StoreTypeOK /\ ToolTypeOK
    /\ FileInv /\ RunInv /\ MigrationsInv /\ FilesInv /\ OutputInv

---------------------------------------------------------------------------
(* What is copied of a store.                                              *)

LEMMA ImagesAreSequences ==
  ASSUME NEW s \in Image
  PROVE  s \in Seq(Versions) /\ Len(s) \in 0..LastPage /\ DOMAIN s = 1..Len(s)
<1>1. PICK n \in 0..LastPage : s \in [1..n -> Versions]
  BY DEF Image
<1>2. n \in Nat
  BY FileConstants
<1>. QED
  BY <1>1, <1>2

LEMMA SequencesAreImages ==
  ASSUME NEW s \in Seq(Versions), Len(s) <= LastPage
  PROVE  s \in Image
<1>1. Len(s) \in 0..LastPage /\ s \in [1..Len(s) -> Versions]
  BY FileConstants
<1>. QED
  BY <1>1 DEF Image

LEMMA NothingCopied == <<>> \in Image /\ Len(<<>>) = 0
<1>1. <<>> \in Seq(Versions) /\ Len(<<>>) = 0 /\ 0 <= LastPage
  BY FileConstants
<1>. QED
  BY <1>1, SequencesAreImages

LEMMA OnePage ==
  ASSUME NEW v \in Versions
  PROVE  /\ <<v>> \in Image /\ Len(<<v>>) = 1 /\ <<v>> # <<>>
         /\ \A i \in DOMAIN <<v>> : i = 1 /\ <<v>>[i] = v
<1>1. <<v>> \in Seq(Versions) /\ Len(<<v>>) = 1 /\ 1 <= LastPage
  BY FileConstants
<1>2. <<v>> \in Image
  BY <1>1, SequencesAreImages
<1>. QED
  BY <1>1, <1>2

\* A further page leaves the others as they are.
LEMMA NextPage ==
  ASSUME NEW s \in Image, NEW v \in Versions, Len(s) < LastPage
  PROVE  LET t == Append(s, v) IN
         /\ t \in Image /\ Len(t) = Len(s) + 1 /\ t # <<>>
         /\ \A i \in DOMAIN t : \/ i \in DOMAIN s /\ t[i] = s[i]
                                \/ i = Len(s) + 1 /\ t[i] = v
<1>1. s \in Seq(Versions) /\ Len(s) \in 0..LastPage
  BY ImagesAreSequences
<1> DEFINE t == Append(s, v)
<1>2. t \in Seq(Versions) /\ Len(t) = Len(s) + 1 /\ Len(s) \in Nat
  BY <1>1
<1> HIDE DEF t
<1>3. t \in Image
  <2>1. Len(t) <= LastPage
    BY <1>1, <1>2, FileConstants
  <2>. QED
    BY <1>2, <2>1, SequencesAreImages
<1> USE DEF t
<1>4. ASSUME NEW i \in DOMAIN t
      PROVE  (i \in DOMAIN s /\ t[i] = s[i]) \/ (i = Len(s) + 1 /\ t[i] = v)
  BY <1>1, <1>2
<1>. QED
  BY <1>2, <1>3, <1>4

LEMMA FullImagesAreWhole ==
  ASSUME NEW s \in Image, NEW v, Len(s) = LastPage, \A i \in DOMAIN s : s[i] = v
  PROVE  Whole(s, v)
<1>1. s \in Seq(Versions) /\ DOMAIN s = Pages
  BY ImagesAreSequences DEF Pages
<1>2. s = [i \in DOMAIN s |-> s[i]]
  BY <1>1
<1>. QED
  BY <1>1, <1>2 DEF Whole

LEMMA WholeImages ==
  ASSUME NEW s, s \in [Pages -> Versions]
  PROVE  s \in Image
BY FileConstants DEF Pages, Image

---------------------------------------------------------------------------
(* The files of the store.                                                 *)

\* Who need not wait reads the latest version, with a log or without.
LEMMA ReadsTheLatest ==
  ASSUME StoreTypeOK, FileInv, ~Hot, ~Blocked, NEW p \in Pages
  PROVE  Read(p) = committed
<1>1. CASE HasFrames
  BY <1>1 DEF Read, FileInv
<1>2. CASE ~HasFrames
  <2>1. CASE journal = None
    BY <1>2, <2>1 DEF Read, FileInv, AllPages
  <2>2. CASE journal # None
    <3>1. mode = "rollback" /\ lock # None /\ lock \notin Migrations
      BY <2>2 DEF Hot, FileInv, StoreTypeOK, FileTypeOK
    <3>2. lock = "writer" /\ writer = "open"
      BY <3>1 DEF StoreTypeOK, FileInv, Blocked
    <3>. QED
      BY <1>2, <2>2, <3>2 DEF Read, FileInv, AllPages
  <2>. QED
    BY <2>1, <2>2
<1>. QED
  BY <1>1, <1>2

\* What no transaction and no connection has touched.
SameStore == UNCHANGED <<mode, main, journal, wal, lock, writer, committed>>

LEMMA SameStoreKeeps ==
  ASSUME StoreTypeOK, FileInv, SameStore, mainSeen' \subseteq Backups, logSeen' \subseteq Backups
  PROVE  StoreTypeOK' /\ FileInv'
BY DEF StoreTypeOK, FileTypeOK, FileInv, SameStore, HasFrames, AllPages

\* A connection that opens leaves neither a journal nor, in WAL mode, no log.
LEMMA OpeningKeeps ==
  ASSUME StoreTypeOK, FileInv, OpenToWrite,
         UNCHANGED <<mode, committed>>, lock' \in {lock} \cup Migrations,
         lock' = lock \/ lock = None,
         writer' = writer \/ (writer = "closed" /\ writer' = "open")
  PROVE  StoreTypeOK' /\ FileInv'
<1>1. CASE /\ Hot
           /\ Change([p \in Pages |-> journal])
           /\ journal' = None
           /\ UNCHANGED logFile
  <2>1. journal \in Versions /\ journal = committed /\ lock = None /\ mode = "rollback" /\ wal = None
    BY <1>1 DEF Hot, FileInv, StoreTypeOK, FileTypeOK
  <2>2. main' = [p \in Pages |-> committed] /\ mainSeen' = {} /\ UNCHANGED <<wal, logSeen>>
    BY <1>1, <2>1 DEF Change, logFile
  <2>3. StoreTypeOK'
    BY <1>1, <2>1, <2>2 DEF StoreTypeOK, FileTypeOK
  <2>4. FileInv'
    BY <1>1, <2>1, <2>2, FileConstants, ToolConstants
       DEF FileInv, HasFrames, AllPages, StoreTypeOK, FileTypeOK
  <2>. QED
    BY <2>3, <2>4
<1>2. CASE /\ mode = "wal" /\ wal = None
           /\ ChangeLog(<<>>)
           /\ UNCHANGED <<mainFile, journal>>
  <2>1. wal' = <<>> /\ logSeen' = {} /\ UNCHANGED <<main, mainSeen, journal>>
    BY <1>2 DEF ChangeLog, mainFile
  <2>2. StoreTypeOK'
    BY <2>1 DEF StoreTypeOK, FileTypeOK, Log
  <2>3. <<>> # None
    BY FileConstants DEF Log
  <2>4. FileInv'
    BY <1>2, <2>1, <2>3, FileConstants, ToolConstants
       DEF FileInv, HasFrames, AllPages, StoreTypeOK, FileTypeOK
  <2>. QED
    BY <2>2, <2>4
<1>3. CASE /\ ~Hot
           /\ mode = "rollback" \/ wal # None
           /\ UNCHANGED <<mainFile, journal, logFile>>
  <2>1. UNCHANGED <<main, mainSeen, journal, wal, logSeen>>
    BY <1>3 DEF mainFile, logFile
  <2>2. StoreTypeOK'
    BY <2>1 DEF StoreTypeOK, FileTypeOK
  <2>3. FileInv'
    BY <1>3, <2>1, FileConstants, ToolConstants
       DEF Hot, FileInv, HasFrames, AllPages, StoreTypeOK, FileTypeOK
  <2>. QED
    BY <2>2, <2>3
<1>. QED
  BY <1>1, <1>2, <1>3 DEF OpenToWrite

\* The end of a migration gives the lock back and drops the log only when nobody
\* writes.
LEMMA ClosingKeeps ==
  ASSUME StoreTypeOK, FileInv, lock \in Migrations, lock' = None,
         UNCHANGED <<mode, journal, writer, committed>>,
         \/ \E last \in BOOLEAN : CloseToWrite(last) /\ (last => writer # "open")
         \/ UNCHANGED <<mainFile, logFile>>
  PROVE  StoreTypeOK' /\ FileInv'
<1>1. journal = None /\ lock # "writer" /\ None # "writer" /\ None \notin Migrations
  BY FileConstants, ToolConstants DEF FileInv
<1>2. CASE /\ mode = "wal" /\ writer # "open" /\ wal # None
           /\ ChangeLog(None)
           /\ IF HasFrames THEN Change([p \in Pages |-> wal[1]]) ELSE UNCHANGED mainFile
  <2>1. wal' = None /\ logSeen' = {}
    BY <1>2 DEF ChangeLog
  <2>2. CASE HasFrames
    <3>1. main' = [p \in Pages |-> committed] /\ mainSeen' = {}
      BY <1>2, <2>2 DEF Change, FileInv
    <3>2. StoreTypeOK'
      BY <2>1, <3>1 DEF StoreTypeOK, FileTypeOK
    <3>3. FileInv'
      BY <1>1, <1>2, <2>1, <3>1 DEF FileInv, HasFrames, AllPages
    <3>. QED
      BY <3>2, <3>3
  <2>3. CASE ~HasFrames
    <3>1. UNCHANGED <<main, mainSeen>>
      BY <1>2, <2>3 DEF mainFile
    <3>2. StoreTypeOK'
      BY <2>1, <3>1 DEF StoreTypeOK, FileTypeOK
    <3>3. FileInv'
      BY <1>1, <1>2, <2>1, <2>3, <3>1 DEF FileInv, HasFrames, AllPages
    <3>. QED
      BY <3>2, <3>3
  <2>. QED
    BY <2>2, <2>3
<1>3. CASE UNCHANGED <<mainFile, logFile>>
  <2>1. UNCHANGED <<main, mainSeen, wal, logSeen>>
    BY <1>3 DEF mainFile, logFile
  <2>2. StoreTypeOK'
    BY <2>1 DEF StoreTypeOK, FileTypeOK
  <2>3. FileInv'
    BY <1>1, <2>1 DEF FileInv, HasFrames, AllPages
  <2>. QED
    BY <2>2, <2>3
<1>. QED
  BY <1>2, <1>3 DEF CloseToWrite

LEMMA WriterKeepsStore ==
  ASSUME StoreTypeOK, FileInv, WriterStep
  PROVE  StoreTypeOK' /\ FileInv'
<1>0. /\ None # "writer" /\ None \notin Migrations /\ "writer" \notin Migrations
      /\ None \notin Nat /\ LastPage \in Nat \ {0} /\ MaxCommits \in Nat
      /\ \A v \in Versions : <<v>> # None
  BY FileConstants, ToolConstants DEF Log
<1>1. CASE WriterOpens
  BY <1>1, OpeningKeeps DEF WriterOpens
<1>2. CASE WriterBegins
  <2>1. UNCHANGED <<mode, main, mainSeen, wal, logSeen, writer, committed>>
    BY <1>2 DEF WriterBegins, mainFile, logFile
  <2>2. StoreTypeOK'
    BY <1>2, <2>1 DEF WriterBegins, StoreTypeOK, FileTypeOK
  <2>3. FileInv'
    BY <1>0, <1>2, <2>1 DEF WriterBegins, StoreTypeOK, FileTypeOK, FileInv, HasFrames, AllPages, Versions
  <2>. QED
    BY <2>2, <2>3
<1>3. CASE WriterWrites
  <2>1. UNCHANGED <<mode, journal, wal, logSeen, lock, committed>> /\ writer' = "committing" /\ mainSeen' = {}
    BY <1>3 DEF WriterWrites, logFile, Change
  <2>2. PICK p \in Pages : main' = [main EXCEPT ![p] = committed + 1]
    BY <1>3 DEF WriterWrites, Change
  <2>3. lock = "writer" /\ journal # None /\ journal = committed /\ committed < MaxCommits /\ mode = "rollback"
    BY <1>3 DEF WriterWrites, FileInv
  <2>4. committed + 1 \in Versions
    BY <1>0, <2>3 DEF StoreTypeOK, FileTypeOK, Versions
  <2>5. StoreTypeOK'
    BY <2>1, <2>2, <2>4 DEF StoreTypeOK, FileTypeOK
  <2>6. \A q \in Pages : main'[q] \in {committed, committed + 1}
    BY <2>2, <2>3 DEF FileInv, StoreTypeOK, FileTypeOK
  <2>7. FileInv'
    BY <1>0, <2>1, <2>3, <2>6 DEF FileInv, HasFrames
  <2>. QED
    BY <2>5, <2>7
<1>4. CASE WriterCommits
  <2>1. /\ UNCHANGED <<mode, main, mainSeen, wal, logSeen>>
        /\ lock = "writer" /\ journal' = None /\ lock' = None /\ writer' = "open"
        /\ committed' = committed + 1 /\ mode = "rollback"
        /\ \A p \in Pages : main[p] = committed + 1
    BY <1>4 DEF WriterCommits, mainFile, logFile
  <2>2. journal # None /\ committed < MaxCommits /\ committed' \in Versions /\ wal = None
    BY <1>0, <2>1 DEF FileInv, StoreTypeOK, FileTypeOK, Versions
  <2>3. StoreTypeOK'
    BY <2>1, <2>2 DEF StoreTypeOK, FileTypeOK
  <2>4. FileInv'
    BY <1>0, <2>1, <2>2 DEF FileInv, HasFrames, AllPages
  <2>. QED
    BY <2>3, <2>4
<1>5. CASE WriterAppends
  <2>1. /\ UNCHANGED <<mode, main, mainSeen, journal, lock, writer>>
        /\ mode = "wal" /\ writer = "open" /\ lock = None /\ logSeen' = {}
        /\ wal' = <<committed + 1>> /\ committed' = committed + 1 /\ committed' \in Versions
    BY <1>0, <1>5 DEF WriterAppends, mainFile, ChangeLog, StoreTypeOK, FileTypeOK, Versions
  <2>2. StoreTypeOK'
    BY <2>1 DEF StoreTypeOK, FileTypeOK, Log
  <2>3. wal' # None /\ wal' # <<>> /\ wal'[1] = committed' /\ journal = None
    BY <1>0, <2>1 DEF FileInv
  <2>4. FileInv'
    BY <1>0, <2>1, <2>3 DEF FileInv, HasFrames, AllPages
  <2>. QED
    BY <2>2, <2>4
<1>6. CASE WriterCheckpoints
  <2>1. /\ UNCHANGED <<mode, journal, wal, logSeen, lock, writer, committed>> /\ mode = "wal"
        /\ HasFrames /\ mainSeen' = {}
    BY <1>6 DEF WriterCheckpoints, logFile, Change
  <2>2. PICK p \in Pages : main' = [main EXCEPT ![p] = wal[1]]
    BY <1>6 DEF WriterCheckpoints, Change
  <2>3. wal[1] = committed /\ journal = None
    BY <2>1 DEF FileInv
  <2>4. StoreTypeOK'
    BY <2>1, <2>2, <2>3 DEF StoreTypeOK, FileTypeOK
  <2>5. FileInv'
    BY <1>0, <2>1, <2>3 DEF FileInv, HasFrames, AllPages
  <2>. QED
    BY <2>4, <2>5
<1>7. CASE \E last \in BOOLEAN : WriterCloses(last)
  <2>1. PICK last \in BOOLEAN : WriterCloses(last)
    BY <1>7
  <2>2. /\ UNCHANGED <<mode, main, mainSeen, journal, lock, committed>> /\ writer = "open"
        /\ writer' = "closed" /\ lock # "writer" /\ logSeen' \subseteq Backups
        /\ wal' = wal \/ (mode = "wal" /\ wal' = None /\ (HasFrames => AllPages(wal[1])))
    BY <2>1 DEF WriterCloses, mainFile, logFile, ChangeLog, AllPages, StoreTypeOK
  <2>3. StoreTypeOK'
    BY <2>2 DEF StoreTypeOK, FileTypeOK
  <2>4. CASE wal' = wal
    BY <1>0, <2>2, <2>3, <2>4 DEF FileInv, HasFrames, AllPages
  <2>5. CASE mode = "wal" /\ wal' = None /\ (HasFrames => AllPages(wal[1]))
    <3>1. AllPages(committed) /\ journal = None
      BY <2>5 DEF FileInv
    <3>. QED
      BY <1>0, <2>2, <2>3, <2>5, <3>1 DEF FileInv, HasFrames, AllPages
  <2>. QED
    BY <2>2, <2>3, <2>4, <2>5
<1>. QED
  BY <1>1, <1>2, <1>3, <1>4, <1>5, <1>6, <1>7 DEF WriterStep, WriterFinishes

LEMMA DeathsKeepStore ==
  ASSUME StoreTypeOK, FileInv, WriterCrash \/ PowerLoss
  PROVE  StoreTypeOK' /\ FileInv'
<1>0. None # "writer" /\ None \notin Migrations /\ "writer" \notin Migrations
  BY FileConstants, ToolConstants
<1>1. /\ UNCHANGED <<mode, main, mainSeen, journal, wal, logSeen, committed>>
      /\ writer' \in {"closed", "off"}
      /\ lock' = None \/ (lock' = lock /\ lock # "writer")
  BY DEF WriterCrash, WriterDies, PowerLoss, mainFile, logFile
<1>2. StoreTypeOK'
  BY <1>1 DEF StoreTypeOK, FileTypeOK
<1>3. FileInv'
  BY <1>0, <1>1 DEF FileInv, HasFrames, AllPages
<1>. QED
  BY <1>2, <1>3

OwnStep(b) == Inspect(b) \/ BackupStep(b) \/ BackupStops(b)
OwnMigrationStep(m) == Prepare(m) \/ MigrationStep(m) \/ MigrationFails(m)

LEMMA BackupsKeepStore ==
  ASSUME StoreTypeOK, FileInv, NEW b \in Backups, OwnStep(b)
  PROVE  StoreTypeOK' /\ FileInv'
<1>1. CASE Connect(b)
  <2>1. UNCHANGED <<mode, main, mainSeen, journal, lock, writer, committed>>
    BY <1>1 DEF Connect, mainFile
  <2>2. UNCHANGED <<wal, logSeen>> \/ (mode = "wal" /\ wal = None /\ wal' = <<>> /\ logSeen' = {})
    BY <1>1 DEF Connect, logFile, ChangeLog
  <2>3. CASE UNCHANGED <<wal, logSeen>>
    BY <2>1, <2>3, SameStoreKeeps DEF SameStore, StoreTypeOK
  <2>4. CASE mode = "wal" /\ wal = None /\ wal' = <<>> /\ logSeen' = {}
    <3>1. <<>> # None /\ ~HasFrames
      BY <2>4, FileConstants DEF Log, HasFrames
    <3>2. StoreTypeOK'
      BY <2>1, <2>4 DEF StoreTypeOK, FileTypeOK, Log
    <3>3. FileInv'
      BY <2>1, <2>4, <3>1 DEF FileInv, HasFrames, AllPages
    <3>. QED
      BY <3>2, <3>3
  <2>. QED
    BY <2>2, <2>3, <2>4
<1>2. CASE Inspect(b) \/ Attest(b)
  <2>1. SameStore /\ mainSeen' \subseteq Backups /\ logSeen' \subseteq Backups
    BY <1>2 DEF Inspect, Attest, SameStore, mainFile, logFile, StoreTypeOK
  <2>. QED
    BY <2>1, SameStoreKeeps
<1>3. CASE \/ InspectSidecars(b) \/ NewTarget(b) \/ Copy(b) \/ Compare(b)
           \/ LookAtMain(b) \/ LookAtSidecars(b) \/ LookAtJournal(b)
           \/ SyncStage(b) \/ NewTargetAgain(b) \/ Link(b) \/ SyncDirectory(b)
           \/ BackupStops(b)
  <2>1. UNCHANGED fileVars
    BY <1>3 DEF InspectSidecars, NewTarget, Copy, Compare, LookAtMain, LookAtSidecars,
       LookAtJournal, SyncStage, NewTargetAgain, Link, SyncDirectory, BackupStops, Same
  <2>2. SameStore /\ UNCHANGED <<mainSeen, logSeen>>
    BY <2>1 DEF fileVars, mainFile, logFile, SameStore
  <2>. QED
    BY <2>2, SameStoreKeeps DEF StoreTypeOK
<1>. QED
  BY <1>1, <1>2, <1>3 DEF OwnStep, BackupStep

\* A migration gives the lock back, with or without the work of a last connection.
GivesBack ==
    /\ lock' = None
    /\ UNCHANGED <<mode, journal, writer, committed>>
    /\ \/ \E last \in BOOLEAN : CloseToWrite(last) /\ (last => writer # "open")
       \/ UNCHANGED <<mainFile, logFile>>

LEMMA EndsGiveBack ==
  ASSUME NEW m \in Migrations, NEW at, MEnd(m, at)
  PROVE  GivesBack
<1>1. (writer # "open" /\ Connected \subseteq {m}) \in BOOLEAN
  OBVIOUS
<1>. QED
  BY <1>1 DEF MEnd, GivesBack

\* What a step of a migration does to the store.
LEMMA MigrationMoves ==
  ASSUME ToolTypeOK, NEW m \in Migrations, OwnMigrationStep(m)
  PROVE  \/ Fence(m)
         \/ migrations[m].at \in Fenced /\ GivesBack
         \/ UNCHANGED fileVars
<1>1. CASE MigrationFails(m)
  <2>1. migrations[m].at \in Fenced
    BY <1>1 DEF MigrationFails, ToolTypeOK, MigrationRun, MigrationPlaces, Fenced
  <2>2. GivesBack
    <3>1. (writer # "open" /\ Connected \subseteq {m}) \in BOOLEAN
      OBVIOUS
    <3>. QED
      BY <1>1, <3>1 DEF MigrationFails, GivesBack
  <2>. QED
    BY <2>1, <2>2
<1>2. CASE Prepare(m) \/ FenceTimesOut(m) \/ CopyHistory(m) \/ SyncBackup(m)
  BY <1>2 DEF Prepare, FenceTimesOut, CopyHistory, SyncBackup, MSame
<1>3. CASE InspectHistory(m) \/ Build(m)
  BY <1>3, EndsGiveBack DEF InspectHistory, Build, MSame, Fenced
<1>4. CASE LinkBackup(m) \/ LinkOutput(m)
  BY <1>4, EndsGiveBack DEF LinkBackup, LinkOutput, Publish, Fenced
<1>5. CASE SyncOutput(m)
  BY <1>5, EndsGiveBack DEF SyncOutput, Fenced
<1>. QED
  BY <1>1, <1>2, <1>3, <1>4, <1>5 DEF OwnMigrationStep, MigrationStep

LEMMA MigrationsKeepStore ==
  ASSUME StoreTypeOK, ToolTypeOK, FileInv, NEW m \in Migrations, MigrationInv(m),
         OwnMigrationStep(m)
  PROVE  StoreTypeOK' /\ FileInv'
<1>1. CASE Fence(m)
  BY <1>1, OpeningKeeps DEF Fence
<1>2. CASE migrations[m].at \in Fenced /\ GivesBack
  BY <1>2, ClosingKeeps DEF GivesBack, MigrationInv
<1>3. CASE UNCHANGED fileVars
  BY <1>3, SameStoreKeeps DEF fileVars, mainFile, logFile, SameStore, StoreTypeOK
<1>. QED
  BY <1>1, <1>2, <1>3, MigrationMoves

LEMMA StoreStep ==
  ASSUME StoreTypeOK, ToolTypeOK, FileInv, MigrationsInv, [Next]_vars
  PROVE  StoreTypeOK' /\ FileInv'
<1>1. ASSUME NEW b \in Backups, OwnStep(b) PROVE StoreTypeOK' /\ FileInv'
  BY <1>1, BackupsKeepStore
<1>2. ASSUME NEW m \in Migrations, OwnMigrationStep(m) PROVE StoreTypeOK' /\ FileInv'
  BY <1>2, MigrationsKeepStore DEF MigrationsInv
<1>3. CASE WriterStep \/ WriterCrash \/ PowerLoss
  BY <1>3, WriterKeepsStore, DeathsKeepStore
<1>4. CASE UNCHANGED vars
  BY <1>4, SameStoreKeeps DEF vars, fileVars, mainFile, logFile, SameStore, StoreTypeOK
<1>. QED
  BY <1>1, <1>2, <1>3, <1>4 DEF Next, OwnStep, OwnMigrationStep

---------------------------------------------------------------------------
(* What a run may infer from what it knows.                                *)

\* What every step is to a backup whose own step it is not.
Outlook(b) ==
    /\ mode' = mode /\ committed <= committed'
    /\ b \in mainSeen' => b \in mainSeen /\ main' = main
    /\ b \in logSeen' => b \in logSeen
    /\ committed' # committed =>
          /\ mode = "wal" => b \notin logSeen'
          /\ mode = "rollback" => ~AllPages(committed)

LEMMA OutlookAlone ==
  ASSUME StoreTypeOK, NEW b \in Backups, UNCHANGED <<mode, committed>>,
         (b \in mainSeen' => b \in mainSeen /\ main' = main),
         (b \in logSeen' => b \in logSeen)
  PROVE  Outlook(b)
BY DEF Outlook, StoreTypeOK, FileTypeOK, Versions

LEMMA WritersOutlook ==
  ASSUME StoreTypeOK, FileInv, NEW b \in Backups, WriterStep \/ WriterCrash \/ PowerLoss
  PROVE  Outlook(b)
<1>1. CASE WriterOpens \/ WriterBegins \/ WriterWrites \/ WriterCheckpoints
  BY <1>1, OutlookAlone DEF WriterOpens, WriterBegins, WriterWrites, WriterCheckpoints,
     OpenToWrite, Change, ChangeLog, mainFile, logFile
<1>2. CASE (\E last \in BOOLEAN : WriterCloses(last)) \/ WriterCrash \/ PowerLoss
  BY <1>2, OutlookAlone DEF WriterCloses, WriterCrash, WriterDies, PowerLoss, ChangeLog,
     mainFile, logFile
<1>3. CASE WriterCommits
  <2>1. /\ UNCHANGED <<mode, main, mainSeen, logSeen>> /\ committed' = committed + 1
        /\ mode = "rollback" /\ \A p \in Pages : main[p] = committed + 1
    BY <1>3 DEF WriterCommits, mainFile, logFile
  <2>2. 1 \in Pages /\ committed \in Nat
    BY FileConstants DEF Pages, Versions, StoreTypeOK, FileTypeOK
  <2>3. ~AllPages(committed)
    BY <2>1, <2>2 DEF AllPages
  <2>. QED
    BY <2>1, <2>2, <2>3 DEF Outlook
<1>4. CASE WriterAppends
  <2>1. /\ UNCHANGED <<mode, main, mainSeen>> /\ committed' = committed + 1
        /\ mode = "wal" /\ logSeen' = {}
    BY <1>4 DEF WriterAppends, mainFile, ChangeLog
  <2>2. committed \in Nat
    BY FileConstants DEF Versions, StoreTypeOK, FileTypeOK
  <2>. QED
    BY <2>1, <2>2 DEF Outlook
<1>. QED
  BY <1>1, <1>2, <1>3, <1>4 DEF WriterStep, WriterFinishes

LEMMA ToolsOutlook ==
  ASSUME StoreTypeOK, ToolTypeOK, NEW b \in Backups,
         \/ \E x \in Backups \ {b} : OwnStep(x)
         \/ \E m \in Migrations : OwnMigrationStep(m)
         \/ UNCHANGED vars
  PROVE  Outlook(b)
<1>1. ASSUME NEW x \in Backups \ {b}, OwnStep(x) PROVE Outlook(b)
  <2>1. CASE Inspect(x) \/ Connect(x) \/ Attest(x)
    BY <2>1, OutlookAlone DEF Inspect, Connect, Attest, ChangeLog, mainFile, logFile
  <2>2. CASE \/ InspectSidecars(x) \/ NewTarget(x) \/ Copy(x) \/ Compare(x)
             \/ LookAtMain(x) \/ LookAtSidecars(x) \/ LookAtJournal(x)
             \/ SyncStage(x) \/ NewTargetAgain(x) \/ Link(x) \/ SyncDirectory(x)
             \/ BackupStops(x)
    <3>1. UNCHANGED fileVars
      BY <2>2 DEF InspectSidecars, NewTarget, Copy, Compare, LookAtMain, LookAtSidecars,
         LookAtJournal, SyncStage, NewTargetAgain, Link, SyncDirectory, BackupStops, Same
    <3>. QED
      BY <3>1, OutlookAlone DEF fileVars, mainFile, logFile
  <2>. QED
    BY <1>1, <2>1, <2>2 DEF OwnStep, BackupStep
<1>2. ASSUME NEW m \in Migrations, OwnMigrationStep(m) PROVE Outlook(b)
  <2>1. CASE Fence(m)
    BY <2>1, OutlookAlone DEF Fence, OpenToWrite, Change, ChangeLog, mainFile, logFile
  <2>2. CASE GivesBack
    BY <2>2, OutlookAlone DEF GivesBack, CloseToWrite, Change, ChangeLog, mainFile, logFile
  <2>3. CASE UNCHANGED fileVars
    BY <2>3, OutlookAlone DEF fileVars, mainFile, logFile
  <2>. QED
    BY <1>2, <2>1, <2>2, <2>3, MigrationMoves
<1>3. CASE UNCHANGED vars
  BY <1>3, OutlookAlone DEF vars, fileVars, mainFile, logFile
<1>. QED
  BY <1>1, <1>2, <1>3

\* A run that makes no step keeps what it knows.
LEMMA OutlookKeeps ==
  ASSUME StoreTypeOK, ToolTypeOK, StoreTypeOK', NEW b \in Backups, Outlook(b), runs'[b] = runs[b],
         PlaceInv(b), SourceInv(b), CopyInv(b), LookInv(b)
  PROVE  PlaceInv(b)' /\ SourceInv(b)' /\ CopyInv(b)' /\ LookInv(b)'
<1>0. /\ runs[b] \in Run /\ committed \in Nat /\ committed' \in Nat /\ committed <= committed'
      /\ runs[b].begun \in Nat /\ runs[b].seen \in Nat /\ mode' = mode
      /\ mode = "wal" \/ mode = "rollback"
  BY FileConstants DEF ToolTypeOK, StoreTypeOK, FileTypeOK, Versions, Outlook, Run
<1>1. PlaceInv(b)'
  BY <1>0 DEF PlaceInv
<1>2. SourceInv(b)'
  <2>1. CASE b \notin mainSeen'
    BY <1>0, <2>1 DEF SourceInv
  <2>2. CASE b \in mainSeen'
    <3>1. b \in mainSeen /\ main' = main
      BY <2>2 DEF Outlook
    <3>2. mode = "rollback" /\ runs[b].at \notin {"failed", "dead"} => committed' = committed
      BY <3>1 DEF SourceInv, Outlook
    <3>3. (\E v \in runs[b].begun .. committed : AllPages(v))
             => \E v \in runs[b].begun .. committed' : AllPages(v)'
      BY <1>0, <3>1 DEF AllPages
    <3>. QED
      BY <1>0, <3>1, <3>2, <3>3 DEF SourceInv, AllPages
  <2>. QED
    BY <2>1, <2>2
<1>3. CopyInv(b)'
  <2>1. ASSUME mode = "wal", b \in logSeen' PROVE b \in logSeen /\ committed' = committed
    BY <2>1 DEF Outlook
  <2>2. ASSUME ~runs[b].immutable, runs[b].image # <<>>
        PROVE  /\ \A i \in DOMAIN runs[b].image : runs[b].image[i] = runs[b].seen
               /\ runs[b].begun <= runs[b].seen /\ runs[b].seen <= committed'
               /\ mode = "wal" /\ b \in logSeen' => runs[b].seen = committed'
    <3>1. runs[b].begun <= runs[b].seen /\ runs[b].seen <= committed
      BY <2>2 DEF CopyInv
    <3>. QED
      BY <1>0, <2>1, <2>2, <3>1 DEF CopyInv
  <2>. QED
    BY <1>0, <2>2 DEF CopyInv
<1>4. LookInv(b)'
  BY <1>0 DEF LookInv
<1>. QED
  BY <1>1, <1>2, <1>3, <1>4

---------------------------------------------------------------------------
(* What a backup does itself.                                              *)

\* A copy takes the next page, or begins again with the first one.
LEMMA CopyTakesAPage ==
  ASSUME StoreTypeOK, ToolTypeOK, FileInv, NEW b \in Backups, Copy(b), PlaceInv(b)
  PROVE  \/ runs' = [runs EXCEPT ![b] = [NoRun EXCEPT !.at = "failed"]]
         \/ \E image \in Image, at \in {"comparing", "copying"} :
              /\ runs' = [runs EXCEPT ![b].image = image, ![b].seen = committed, ![b].at = at]
              /\ at = "comparing" => Len(image) = LastPage
              /\ at = "copying" => Len(image) < LastPage
              /\ image # <<>>
              /\ \A i \in DOMAIN image :
                    \/ /\ i \in DOMAIN runs[b].image /\ image[i] = runs[b].image[i]
                       /\ runs[b].immutable \/ runs[b].seen = committed
                    \/ image[i] = IF runs[b].immutable THEN main[i] ELSE committed
<1> DEFINE r == runs[b]
           n == Len(r.image) + 1
           image == IF r.immutable THEN Append(r.image, main[n])
                    ELSE IF r.seen = committed THEN Append(r.image, Read(n)) ELSE <<Read(1)>>
           at == IF Len(image) = LastPage THEN "comparing" ELSE "copying"
<1>1. CASE Refuse(b)
  BY <1>1 DEF Refuse
<1>2. CASE ~Refuse(b)
  <2>1. /\ r.at = "copying" /\ (r.immutable \/ ~(Blocked \/ Hot))
        /\ runs' = [runs EXCEPT ![b].image = image, ![b].seen = committed, ![b].at = at]
    BY <1>2 DEF Copy
  <2>2. /\ r.image \in Image /\ Len(r.image) < LastPage /\ Len(r.image) \in Nat
        /\ n \in Pages /\ 1 \in Pages /\ committed \in Versions /\ main[n] \in Versions
    <3>1. r.image \in Image /\ Len(r.image) < LastPage
      BY <2>1 DEF ToolTypeOK, Run, PlaceInv
    <3>2. Len(r.image) \in Nat
      BY <3>1, ImagesAreSequences, FileConstants
    <3>3. n \in Pages /\ 1 \in Pages
      BY <3>1, <3>2, FileConstants DEF Pages
    <3>. QED
      BY <3>1, <3>2, <3>3 DEF StoreTypeOK, FileTypeOK
  <2>3. ~r.immutable => \A p \in Pages : Read(p) = committed
    BY <2>1, ReadsTheLatest
  <2>4. /\ image \in Image /\ image # <<>> /\ Len(image) \in Nat /\ Len(image) <= LastPage
        /\ \A i \in DOMAIN image :
              \/ /\ i \in DOMAIN r.image /\ image[i] = r.image[i]
                 /\ r.immutable \/ r.seen = committed
              \/ image[i] = IF r.immutable THEN main[i] ELSE committed
    <3>1. CASE r.immutable
      <4>1. image = Append(r.image, main[n])
        BY <3>1
      <4>. QED
        BY <2>2, <3>1, <4>1, NextPage, FileConstants
    <3>2. CASE ~r.immutable /\ r.seen = committed
      <4>1. image = Append(r.image, committed)
        BY <2>2, <2>3, <3>2
      <4>. QED
        BY <2>2, <3>2, <4>1, NextPage, FileConstants
    <3>3. CASE ~r.immutable /\ r.seen # committed
      <4>1. image = <<committed>>
        BY <2>2, <2>3, <3>3
      <4>. QED
        BY <2>2, <3>3, <4>1, OnePage, FileConstants
    <3>. QED
      BY <3>1, <3>2, <3>3
  <2> HIDE DEF image
  <2>5. at \in {"comparing", "copying"} /\ (at = "comparing" => Len(image) = LastPage)
        /\ (at = "copying" => Len(image) < LastPage)
    BY <2>4, FileConstants
  <2> HIDE DEF at
  <2>. QED
    BY <2>1, <2>4, <2>5
<1>. QED
  BY <1>1, <1>2

LEMMA CopyKeepsPlace ==
  ASSUME StoreTypeOK, ToolTypeOK, FileInv, NEW b \in Backups, Copy(b), PlaceInv(b),
         (runs' = [runs EXCEPT ![b] = [NoRun EXCEPT !.at = "failed"]]
            => PlaceInv(b)' /\ runs' \in [Backups -> Run])
  PROVE  PlaceInv(b)' /\ runs' \in [Backups -> Run]
<1>1. CASE runs' = [runs EXCEPT ![b] = [NoRun EXCEPT !.at = "failed"]]
  BY <1>1
<1>2. CASE \E image \in Image, at \in {"comparing", "copying"} :
              /\ runs' = [runs EXCEPT ![b].image = image, ![b].seen = committed, ![b].at = at]
              /\ at = "comparing" => Len(image) = LastPage
              /\ at = "copying" => Len(image) < LastPage
  <2>1. PICK image \in Image, at \in {"comparing", "copying"} :
              /\ runs' = [runs EXCEPT ![b].image = image, ![b].seen = committed, ![b].at = at]
              /\ at = "comparing" => Len(image) = LastPage
              /\ at = "copying" => Len(image) < LastPage
    BY <1>2
  <2>2. committed' = committed /\ runs[b].at = "copying" /\ committed \in Versions
    BY DEF Copy, Same, fileVars, StoreTypeOK, FileTypeOK
  <2>3. runs' \in [Backups -> Run]
    BY <2>1, <2>2 DEF ToolTypeOK, Run, RunPlaces
  <2>4. PlaceInv(b)'
    BY <2>1, <2>2 DEF ToolTypeOK, PlaceInv, Run, Early, Looking, Late
  <2>. QED
    BY <2>3, <2>4
<1>. QED
  BY <1>1, <1>2, CopyTakesAPage

LEMMA OwnStepKeepsPlaces ==
  ASSUME StoreTypeOK, ToolTypeOK, FileInv, NEW b \in Backups, OwnStep(b), PlaceInv(b)
  PROVE  PlaceInv(b)' /\ runs' \in [Backups -> Run]
<1>0. /\ runs \in [Backups -> Run] /\ runs[b] \in Run /\ committed \in Versions
      /\ wal \in Log \cup {None}
      /\ Versions \subseteq Nat /\ 0 \in Versions /\ LastPage \in Nat \ {0}
      /\ 1 \in 0..3 /\ 2 \in 0..3 /\ 3 \in 0..3
  BY FileConstants DEF ToolTypeOK, StoreTypeOK, FileTypeOK, Versions
<1>1. NoRun \in Run /\ NoRun.image = <<>> /\ <<>> \in Image
  BY <1>0, NothingCopied DEF NoRun, Run, RunPlaces
<1>2. ASSUME runs' = [runs EXCEPT ![b] = [NoRun EXCEPT !.at = "failed"]], committed' = committed
      PROVE  PlaceInv(b)' /\ runs' \in [Backups -> Run]
  <2>1. [NoRun EXCEPT !.at = "failed"] \in Run
    BY <1>1 DEF Run, RunPlaces, Ended
  <2>. QED
    BY <1>0, <1>1, <1>2, <2>1 DEF PlaceInv, NoRun, Early, Looking, Late
<1>3. CASE Inspect(b)
  <2>1. /\ committed' = committed /\ runs[b].at = "idle"
        /\ \/ runs' = [runs EXCEPT ![b] = [NoRun EXCEPT !.at = "failed"]]
           \/ runs' = [runs EXCEPT ![b].at = "inspected", ![b].begun = committed]
    BY <1>3 DEF Inspect, Refuse
  <2>2. CASE runs' = [runs EXCEPT ![b].at = "inspected", ![b].begun = committed]
    <3>1. runs' \in [Backups -> Run]
      BY <1>0, <2>2 DEF Run, RunPlaces
    <3>2. PlaceInv(b)'
      BY <1>0, <2>1, <2>2 DEF PlaceInv, Run, Early, Looking, Late
    <3>. QED
      BY <3>1, <3>2
  <2>. QED
    BY <1>2, <2>1, <2>2
<1>4. CASE InspectSidecars(b)
  <2>1. /\ committed' = committed /\ runs[b].at = "inspected"
        /\ runs' = [runs EXCEPT ![b].at = "naming", ![b].log = wal,
                                ![b].immutable = mode = "wal" /\ wal = None]
    BY <1>4 DEF InspectSidecars, Same, fileVars
  <2>2. (mode = "wal" /\ wal = None) \in BOOLEAN
    OBVIOUS
  <2>. QED
    BY <1>0, <2>1, <2>2 DEF PlaceInv, Run, RunPlaces, Early, Looking, Late
<1>5. CASE NewTarget(b) \/ Connect(b) \/ Attest(b)
  <2>1. /\ committed' = committed
        /\ \/ runs' = [runs EXCEPT ![b] = [NoRun EXCEPT !.at = "failed"]]
           \/ runs[b].at = "naming" /\ runs' = [runs EXCEPT ![b].at = "opening"]
           \/ runs[b].at = "opening" /\ runs' = [runs EXCEPT ![b].at = "attesting"]
           \/ runs[b].at = "attesting" /\ runs' = [runs EXCEPT ![b].at = "copying"]
    BY <1>5 DEF NewTarget, Connect, Attest, Check, Go, Refuse, Same, fileVars
  <2>2. CASE runs[b].at = "naming" /\ runs' = [runs EXCEPT ![b].at = "opening"]
    BY <1>0, <2>1, <2>2 DEF PlaceInv, Run, RunPlaces, Early, Looking, Late
  <2>3. CASE runs[b].at = "opening" /\ runs' = [runs EXCEPT ![b].at = "attesting"]
    BY <1>0, <2>1, <2>3 DEF PlaceInv, Run, RunPlaces, Early, Looking, Late
  <2>4. CASE runs[b].at = "attesting" /\ runs' = [runs EXCEPT ![b].at = "copying"]
    <3>1. Len(runs[b].image) < LastPage
      BY <1>0, <2>4, NothingCopied DEF PlaceInv, Early
    <3>. QED
      BY <1>0, <2>1, <2>4, <3>1 DEF PlaceInv, Run, RunPlaces, Early, Looking, Late
  <2>. QED
    BY <1>2, <2>1, <2>2, <2>3, <2>4
<1>6. CASE Copy(b)
  <2>1. committed' = committed
    BY <1>6 DEF Copy, Same, fileVars
  <2>. QED
    BY <1>2, <1>6, <2>1, CopyKeepsPlace
<1>7. CASE Compare(b)
  <2>1. /\ committed' = committed
        /\ \/ runs' = [runs EXCEPT ![b] = [NoRun EXCEPT !.at = "failed"]]
           \/ /\ runs[b].at = "comparing"
              /\ runs' = [runs EXCEPT ![b].at = "main", ![b].round = 1]
    BY <1>7 DEF Compare, Refuse, Same, fileVars
  <2>2. CASE runs[b].at = "comparing" /\ runs' = [runs EXCEPT ![b].at = "main", ![b].round = 1]
    <3>1. runs' \in [Backups -> Run]
      BY <1>0, <2>2 DEF Run, RunPlaces
    <3>2. PlaceInv(b)'
      BY <1>0, <2>1, <2>2 DEF PlaceInv, Run, Early, Looking, Late
    <3>. QED
      BY <3>1, <3>2
  <2>. QED
    BY <1>2, <2>1, <2>2
<1>8. CASE LookAtMain(b) \/ LookAtSidecars(b) \/ LookAtJournal(b)
  <2>1. /\ committed' = committed
        /\ \/ runs' = [runs EXCEPT ![b] = [NoRun EXCEPT !.at = "failed"]]
           \/ \E at \in {"sidecars", "journal", AfterLook(b)} :
                 /\ runs[b].at \in Looking /\ runs' = [runs EXCEPT ![b].at = at]
    BY <1>8 DEF LookAtMain, LookAtSidecars, LookAtJournal, Looking, Check, Go, Refuse, Same, fileVars
  <2>2. ASSUME NEW at \in {"sidecars", "journal", AfterLook(b)}, runs[b].at \in Looking,
               runs' = [runs EXCEPT ![b].at = at]
        PROVE  PlaceInv(b)' /\ runs' \in [Backups -> Run]
    <3>1. /\ at \in {"sidecars", "journal", "syncing", "linking", "done"}
          /\ at = "syncing" => runs[b].round = 1
          /\ at = "linking" => runs[b].round = 2
          /\ at = "done" => runs[b].round = 3
      BY <2>2 DEF AfterLook, PlaceInv
    <3>2. runs' \in [Backups -> Run]
      BY <1>0, <2>2, <3>1 DEF Run, RunPlaces, Ended
    <3>3. PlaceInv(b)'
      BY <1>0, <2>1, <2>2, <3>1 DEF PlaceInv, Run, Early, Looking, Late
    <3>. QED
      BY <3>2, <3>3
  <2>. QED
    BY <1>2, <2>1, <2>2
<1>9. CASE SyncStage(b)
  <2>1. /\ committed' = committed /\ runs[b].at = "syncing"
        /\ runs' = [runs EXCEPT ![b].at = "main", ![b].round = 2, ![b].durable = TRUE]
    BY <1>9 DEF SyncStage, Same, fileVars
  <2>2. runs' \in [Backups -> Run]
    BY <1>0, <2>1 DEF Run, RunPlaces
  <2>3. PlaceInv(b)'
    BY <1>0, <2>1 DEF PlaceInv, Run, Early, Looking, Late
  <2>. QED
    BY <2>2, <2>3
<1>10. CASE NewTargetAgain(b) \/ Link(b) \/ SyncDirectory(b)
  <2>1. /\ committed' = committed
        /\ \/ runs' = [runs EXCEPT ![b] = [NoRun EXCEPT !.at = "failed"]]
           \/ runs[b].at = "linking" /\ runs' = [runs EXCEPT ![b].at = "publishing"]
           \/ runs[b].at = "publishing" /\ runs' = [runs EXCEPT ![b].at = "directory"]
           \/ /\ runs[b].at = "directory"
              /\ runs' = [runs EXCEPT ![b].at = "main", ![b].round = 3]
    BY <1>10 DEF NewTargetAgain, Link, SyncDirectory, Check, Go, Refuse, Same, fileVars
  <2>2. ASSUME NEW at \in {"publishing", "directory"}, runs[b].at \in {"linking", "publishing"},
               runs' = [runs EXCEPT ![b].at = at]
        PROVE  PlaceInv(b)' /\ runs' \in [Backups -> Run]
    <3>1. runs' \in [Backups -> Run]
      BY <1>0, <2>2 DEF Run, RunPlaces
    <3>2. PlaceInv(b)'
      BY <1>0, <2>1, <2>2 DEF PlaceInv, Run, Early, Looking, Late
    <3>. QED
      BY <3>1, <3>2
  <2>3. CASE runs[b].at = "directory" /\ runs' = [runs EXCEPT ![b].at = "main", ![b].round = 3]
    <3>1. runs' \in [Backups -> Run]
      BY <1>0, <2>3 DEF Run, RunPlaces
    <3>2. PlaceInv(b)'
      BY <1>0, <2>1, <2>3 DEF PlaceInv, Run, Early, Looking, Late
    <3>. QED
      BY <3>1, <3>2
  <2>. QED
    BY <1>2, <2>1, <2>2, <2>3
<1>11. CASE BackupStops(b)
  BY <1>2, <1>11 DEF BackupStops, Refuse, fileVars
<1>. QED
  BY <1>3, <1>4, <1>5, <1>6, <1>7, <1>8, <1>9, <1>10, <1>11 DEF OwnStep, BackupStep

Refused(b) == runs' = [runs EXCEPT ![b] = [NoRun EXCEPT !.at = "failed"]]

\* After it has looked at the source a run leaves the store as it is, but for a
\* log that it makes, and keeps what it noted.
LEMMA LaterSteps ==
  ASSUME ToolTypeOK, NEW b \in Backups, OwnStep(b), ~Inspect(b), ~InspectSidecars(b), ~Refused(b)
  PROVE  /\ UNCHANGED <<mode, main, mainSeen, committed>>
         /\ runs[b].at \notin {"idle", "inspected"} \cup Ended
         /\ runs'[b].at \notin {"idle", "inspected", "failed", "dead"}
         /\ runs'[b].immutable = runs[b].immutable /\ runs'[b].log = runs[b].log
         /\ runs'[b].begun = runs[b].begun
         /\ Copy(b) \/ (runs'[b].image = runs[b].image /\ runs'[b].seen = runs[b].seen)
         /\ b \in logSeen' => b \in logSeen \/ Attest(b)
<1>0. runs \in [Backups -> Run]
  BY DEF ToolTypeOK
<1>1. CASE NewTarget(b) \/ Connect(b) \/ Attest(b)
  <2>1. /\ UNCHANGED <<mode, main, mainSeen, committed>>
        /\ b \in logSeen' => b \in logSeen \/ Attest(b)
    BY <1>1 DEF NewTarget, Connect, Attest, Same, fileVars, mainFile, logFile, ChangeLog
  <2>2. \E at \in {"opening", "attesting", "copying"} :
           runs[b].at \in {"naming", "opening", "attesting"} /\ runs' = [runs EXCEPT ![b].at = at]
    BY <1>1 DEF NewTarget, Connect, Attest, Check, Go, Refuse, Refused
  <2>. QED
    BY <1>0, <2>1, <2>2 DEF Run, Ended
<1>2. CASE Copy(b)
  <2>1. UNCHANGED <<mode, main, mainSeen, committed, logSeen>>
    BY <1>2 DEF Copy, Same, fileVars, mainFile, logFile
  <2> DEFINE r == runs[b]
             n == Len(r.image) + 1
             image == IF r.immutable THEN Append(r.image, main[n])
                      ELSE IF r.seen = committed THEN Append(r.image, Read(n)) ELSE <<Read(1)>>
             at == IF Len(image) = LastPage THEN "comparing" ELSE "copying"
  <2>2. /\ r.at = "copying"
        /\ runs' = [runs EXCEPT ![b].image = image, ![b].seen = committed, ![b].at = at]
    BY <1>2 DEF Copy, Refuse, Refused
  <2>3. at \in {"comparing", "copying"}
    OBVIOUS
  <2> HIDE DEF image, at
  <2>. QED
    BY <1>0, <1>2, <2>1, <2>2, <2>3 DEF Run, Ended
<1>3. CASE \/ Compare(b) \/ LookAtMain(b) \/ LookAtSidecars(b) \/ LookAtJournal(b)
           \/ SyncStage(b) \/ NewTargetAgain(b) \/ Link(b) \/ SyncDirectory(b)
  <2>1. UNCHANGED <<mode, main, mainSeen, committed, logSeen>>
    BY <1>3 DEF Compare, LookAtMain, LookAtSidecars, LookAtJournal, SyncStage, NewTargetAgain,
       Link, SyncDirectory, Same, fileVars, mainFile, logFile
  <2>2. runs[b].at \in {"comparing", "main", "sidecars", "journal", "syncing", "linking",
                        "publishing", "directory"}
    BY <1>3 DEF Compare, LookAtMain, LookAtSidecars, LookAtJournal, SyncStage, NewTargetAgain,
       Link, SyncDirectory
  <2>3. /\ runs'[b].at \in Late /\ runs'[b].immutable = runs[b].immutable
        /\ runs'[b].log = runs[b].log /\ runs'[b].begun = runs[b].begun
        /\ runs'[b].image = runs[b].image /\ runs'[b].seen = runs[b].seen
    <3>1. CASE Compare(b) \/ SyncStage(b) \/ SyncDirectory(b)
      <4>1. \/ runs' = [runs EXCEPT ![b].at = "main", ![b].round = 1]
            \/ runs' = [runs EXCEPT ![b].at = "main", ![b].round = 2, ![b].durable = TRUE]
            \/ runs' = [runs EXCEPT ![b].at = "main", ![b].round = 3]
        BY <3>1 DEF Compare, SyncStage, SyncDirectory, Refuse, Refused
      <4>. QED
        BY <1>0, <4>1 DEF Run, Late, Looking
    <3>2. CASE \/ LookAtMain(b) \/ LookAtSidecars(b) \/ LookAtJournal(b)
               \/ NewTargetAgain(b) \/ Link(b)
      <4>1. \E at \in Late : runs' = [runs EXCEPT ![b].at = at]
        BY <3>2 DEF LookAtMain, LookAtSidecars, LookAtJournal, NewTargetAgain, Link,
           AfterLook, Check, Go, Refuse, Refused, Late, Looking
      <4>. QED
        BY <1>0, <4>1 DEF Run
    <3>. QED
      BY <1>3, <3>1, <3>2
  <2>. QED
    BY <2>1, <2>2, <2>3 DEF Late, Looking, Ended
<1>4. CASE BackupStops(b)
  BY <1>4 DEF BackupStops, Refuse, Refused
<1>. QED
  BY <1>1, <1>2, <1>3, <1>4 DEF OwnStep, BackupStep

LEMMA RefusalKeeps ==
  ASSUME ToolTypeOK, NEW b \in Backups, Refused(b)
  PROVE  SourceInv(b)' /\ CopyInv(b)' /\ LookInv(b)' /\ ~Linked(runs[b])'
<1>1. runs'[b] = [NoRun EXCEPT !.at = "failed"]
  BY DEF Refused, ToolTypeOK
<1>2. /\ runs'[b].at = "failed" /\ runs'[b].immutable = FALSE /\ runs'[b].image = <<>>
      /\ runs'[b].round = 0
  BY <1>1 DEF NoRun
<1>. QED
  BY <1>2 DEF SourceInv, CopyInv, LookInv, Linked, Looking

LEMMA OwnStepKeepsSight ==
  ASSUME StoreTypeOK, ToolTypeOK, FileInv, NEW b \in Backups, OwnStep(b),
         PlaceInv(b), SourceInv(b), CopyInv(b), LookInv(b)
  PROVE  SourceInv(b)' /\ CopyInv(b)' /\ LookInv(b)'
<1>0. /\ runs \in [Backups -> Run] /\ committed \in Nat /\ runs[b].begun \in Nat
      /\ mode \in {"rollback", "wal"} /\ runs[b].immutable \in BOOLEAN
  BY FileConstants DEF ToolTypeOK, StoreTypeOK, FileTypeOK, Run, Versions
<1>1. CASE Refused(b)
  BY <1>1, RefusalKeeps
<1>2. CASE Inspect(b) /\ ~Refused(b)
  <2>1. /\ UNCHANGED <<mode, main, wal, journal, committed>> /\ journal = None
        /\ runs[b].at = "idle"
        /\ runs' = [runs EXCEPT ![b].at = "inspected", ![b].begun = committed]
    BY <1>2 DEF Inspect, Refuse, Refused, logFile
  <2>2. /\ runs'[b].at = "inspected" /\ runs'[b].begun = committed
        /\ ~runs'[b].immutable /\ runs'[b].image = <<>>
    BY <1>0, <2>1 DEF Run, PlaceInv, SourceInv, Early
  <2>3. mode = "rollback" => AllPages(committed)
    BY <2>1 DEF FileInv, HasFrames
  <2>4. SourceInv(b)'
    BY <2>1, <2>2, <2>3 DEF SourceInv, AllPages
  <2>. QED
    BY <2>2, <2>4 DEF CopyInv, LookInv
<1>3. CASE InspectSidecars(b) /\ ~Refused(b)
  <2>1. /\ UNCHANGED <<mode, main, mainSeen, wal, journal, committed>>
        /\ runs[b].at = "inspected"
        /\ runs' = [runs EXCEPT ![b].at = "naming", ![b].log = wal,
                                ![b].immutable = mode = "wal" /\ wal = None]
    BY <1>3 DEF InspectSidecars, Same, fileVars, mainFile, logFile
  <2>2. /\ runs'[b].at = "naming" /\ runs'[b].begun = runs[b].begun /\ runs'[b].log = wal
        /\ runs'[b].immutable = (mode = "wal" /\ wal = None) /\ runs'[b].image = <<>>
    BY <1>0, <2>1 DEF Run, PlaceInv, Early
  <2>3. mode = "wal" /\ wal = None => AllPages(committed)
    BY <2>1 DEF FileInv, HasFrames
  <2>4. runs[b].begun <= committed
    BY DEF PlaceInv
  <2>5. mode = "wal" /\ wal = None => \E v \in runs[b].begun .. committed : AllPages(v)
    BY <1>0, <2>3, <2>4
  <2>6. SourceInv(b)'
    <3>1. (\E v \in runs[b].begun .. committed : AllPages(v))
             <=> (\E v \in runs'[b].begun .. committed' : AllPages(v)')
      BY <2>1, <2>2 DEF AllPages
    <3>2. b \in mainSeen /\ mode = "rollback" => AllPages(committed)' /\ runs'[b].begun = committed'
      BY <2>1, <2>2 DEF SourceInv, AllPages
    <3>3. CASE mode = "wal" /\ wal = None
      <4>1. \E v \in runs'[b].begun .. committed' : AllPages(v)'
        BY <2>5, <3>1, <3>3
      <4>2. mode' = "wal" /\ runs'[b].log = None /\ runs'[b].at = "naming"
        BY <2>1, <2>2, <3>3
      <4>3. \A i \in DOMAIN runs'[b].image : runs'[b].image[i] = main'[i]
        BY <2>2
      <4>4. runs'[b].immutable = TRUE
        BY <1>0, <2>1, <3>3 DEF Run
      <4>. QED
        BY <4>1, <4>2, <4>3, <4>4 DEF SourceInv
    <3>4. CASE ~(mode = "wal" /\ wal = None)
      BY <2>1, <2>2, <3>2, <3>4 DEF SourceInv
    <3>. QED
      BY <3>3, <3>4
  <2>. QED
    BY <2>2, <2>6 DEF CopyInv, LookInv, Looked, Late, Looking
<1>4. CASE ~Inspect(b) /\ ~InspectSidecars(b) /\ ~Refused(b)
  <2>1. /\ UNCHANGED <<mode, main, mainSeen, committed>>
        /\ runs[b].at \notin {"idle", "inspected"} \cup Ended
        /\ runs'[b].at \notin {"idle", "inspected", "failed", "dead"}
        /\ runs'[b].immutable = runs[b].immutable /\ runs'[b].log = runs[b].log
        /\ runs'[b].begun = runs[b].begun
        /\ Copy(b) \/ (runs'[b].image = runs[b].image /\ runs'[b].seen = runs[b].seen)
        /\ b \in logSeen' => b \in logSeen \/ Attest(b)
    BY <1>4, LaterSteps
  <2>2. CASE Copy(b)
    <3>1. PICK image \in Image, at \in {"comparing", "copying"} :
              /\ runs' = [runs EXCEPT ![b].image = image, ![b].seen = committed, ![b].at = at]
              /\ at = "comparing" => Len(image) = LastPage
              /\ at = "copying" => Len(image) < LastPage
              /\ image # <<>>
              /\ \A i \in DOMAIN image :
                    \/ /\ i \in DOMAIN runs[b].image /\ image[i] = runs[b].image[i]
                       /\ runs[b].immutable \/ runs[b].seen = committed
                    \/ image[i] = IF runs[b].immutable THEN main[i] ELSE committed
      BY <1>4, <2>2, CopyTakesAPage DEF Refused
    <3>2. runs'[b].image = image /\ runs'[b].seen = committed /\ runs'[b].at = at
      BY <1>0, <3>1 DEF Run
    <3>3. SourceInv(b)'
      <4>1. b \in mainSeen /\ runs[b].immutable => \A i \in DOMAIN image : image[i] = main[i]
        BY <3>1 DEF SourceInv
      <4>2. (\E v \in runs[b].begun .. committed : AllPages(v))
               <=> (\E v \in runs'[b].begun .. committed' : AllPages(v)')
        BY <2>1 DEF AllPages
      <4>3. AllPages(committed) <=> AllPages(committed)'
        BY <2>1 DEF AllPages
      <4>. QED
        BY <2>1, <3>2, <4>1, <4>2, <4>3 DEF SourceInv, Ended
    <3>4. CopyInv(b)'
      <4>1. ASSUME ~runs[b].immutable, NEW i \in DOMAIN image PROVE image[i] = committed
        <5>1. CASE i \in DOMAIN runs[b].image /\ image[i] = runs[b].image[i] /\ runs[b].seen = committed
          <6>1. runs[b].image # <<>>
            BY <5>1
          <6>. QED
            BY <4>1, <5>1, <6>1 DEF CopyInv
        <5>. QED
          BY <3>1, <4>1, <5>1
      <4>2. runs[b].begun <= committed
        BY DEF PlaceInv
      <4>. QED
        BY <1>0, <2>1, <3>2, <4>1, <4>2 DEF CopyInv
    <3>5. LookInv(b)'
      BY <3>2 DEF LookInv, Looked, Late, Looking
    <3>. QED
      BY <3>3, <3>4, <3>5
  <2>3. CASE ~Copy(b)
    <3>1. runs'[b].image = runs[b].image /\ runs'[b].seen = runs[b].seen
      BY <2>1, <2>3
    <3>2. SourceInv(b)'
      <4>1. (\E v \in runs[b].begun .. committed : AllPages(v))
               <=> (\E v \in runs'[b].begun .. committed' : AllPages(v)')
        BY <2>1 DEF AllPages
      <4>2. AllPages(committed) <=> AllPages(committed)'
        BY <2>1 DEF AllPages
      <4>. QED
        BY <2>1, <3>1, <4>1, <4>2 DEF SourceInv, Ended
    <3>3. CopyInv(b)'
      <4>1. Attest(b) => runs[b].image = <<>>
        BY DEF Attest, PlaceInv, Early
      <4>. QED
        BY <2>1, <3>1, <4>1 DEF CopyInv
    <3>4. LookInv(b)'
      <4>1. CASE Looked(runs[b]) \/ ~Looked(runs'[b])
        BY <2>1, <3>1, <4>1 DEF LookInv, Looked
      <4>2. CASE ~Looked(runs[b]) /\ Looked(runs'[b]) /\ runs[b].immutable
        <5>1. LookAtMain(b) /\ b \in mainSeen
          <6>1. runs[b].at \notin Late \ {"main"}
            BY <4>2 DEF Looked
          <6>2. ~LookAtSidecars(b) /\ ~LookAtJournal(b) /\ ~SyncStage(b) /\ ~NewTargetAgain(b)
                /\ ~Link(b) /\ ~SyncDirectory(b)
            BY <6>1 DEF LookAtSidecars, LookAtJournal, SyncStage, NewTargetAgain, Link,
               SyncDirectory, Late, Looking
          <6>3. ~NewTarget(b) /\ ~Connect(b) /\ ~Attest(b)
            BY <1>0, <1>4, <4>2 DEF NewTarget, Connect, Attest, Check, Go, Refuse, Refused,
               Looked, Late, Looking, Run
          <6>4. ~Compare(b)
            <7>1. Compare(b) => runs' = [runs EXCEPT ![b].at = "main", ![b].round = 1]
              BY <1>4 DEF Compare, Refuse, Refused
            <7>. QED
              BY <1>0, <4>2, <7>1 DEF Looked, Late, Looking, Run
          <6>5. LookAtMain(b)
            BY <1>4, <2>3, <6>2, <6>3, <6>4 DEF OwnStep, BackupStep, BackupStops, Refuse, Refused
          <6>. QED
            BY <1>4, <6>5 DEF LookAtMain, Check, Refuse, Refused, MainUnchanged
        <5>2. PICK v \in runs[b].begun .. committed : AllPages(v)
          BY <4>2, <5>1 DEF SourceInv
        <5>3. runs[b].image \in Image /\ Len(runs[b].image) = LastPage
          BY <1>0, <5>1 DEF Run, LookAtMain, PlaceInv, Late, Looking
        <5>4. DOMAIN runs[b].image = Pages
          BY <5>3, ImagesAreSequences DEF Pages
        <5>5. \A i \in DOMAIN runs[b].image : runs[b].image[i] = v
          BY <4>2, <5>1, <5>2, <5>4 DEF SourceInv, AllPages
        <5>6. Whole(runs[b].image, v)
          BY <5>3, <5>5, FullImagesAreWhole
        <5>. QED
          BY <2>1, <3>1, <5>2, <5>6 DEF LookInv, Whole
      <4>. QED
        BY <2>1, <4>1, <4>2 DEF LookInv
    <3>. QED
      BY <3>2, <3>3, <3>4
  <2>. QED
    BY <2>2, <2>3
<1>. QED
  BY <1>1, <1>2, <1>3, <1>4

---------------------------------------------------------------------------
(* What stands at the published names.                                     *)

\* The only ways in which a name changes while the machine runs: it appears, for
\* one whole version that was current since its maker began, or becomes durable.
Appears(n, maker, image, begun) ==
    /\ files[n] = None /\ committed' = committed
    /\ maker \in Backups \cup Migrations /\ image \in Image /\ begun \in Versions
    /\ \E v \in begun .. committed : Whole(image, v)
    /\ n = "output" => /\ files["backup"] # None /\ files["backup"].entry
                       /\ files["backup"].image = image /\ Whole(image, committed)
    /\ files' = [files EXCEPT ![n] = File(maker, image, TRUE, begun)]
Settles(n) == files[n] # None /\ files' = [files EXCEPT ![n].entry = TRUE]
FilesMove ==
    \/ UNCHANGED files
    \/ \E n \in Names : Settles(n)
    \/ \E n \in Names : \E maker, image, begun : Appears(n, maker, image, begun)

\* When a backup is linked, its copy is one version.
LEMMA CopiesAreWhole ==
  ASSUME ToolTypeOK, StoreTypeOK, NEW b \in Backups, PlaceInv(b), CopyInv(b), LookInv(b),
         runs[b].at = "publishing"
  PROVE  /\ \E v \in runs[b].begun .. committed : Whole(runs[b].image, v)
         /\ runs[b].durable /\ runs[b].image # <<>>
<1>0. /\ runs[b] \in Run /\ committed \in Nat /\ runs[b].begun \in Nat /\ runs[b].seen \in Nat
  BY FileConstants DEF ToolTypeOK, StoreTypeOK, FileTypeOK, Run, Versions
<1>1. Len(runs[b].image) = LastPage /\ runs[b].durable /\ runs[b].image \in Image
  BY <1>0 DEF PlaceInv, Late, Run
<1>2. runs[b].image # <<>>
  BY <1>1, NothingCopied, FileConstants
<1>3. CASE runs[b].immutable
  BY <1>1, <1>2, <1>3 DEF LookInv, Looked, Late
<1>4. CASE ~runs[b].immutable
  <2>1. /\ \A i \in DOMAIN runs[b].image : runs[b].image[i] = runs[b].seen
        /\ runs[b].begun <= runs[b].seen /\ runs[b].seen <= committed
    BY <1>2, <1>4 DEF CopyInv
  <2>2. Whole(runs[b].image, runs[b].seen)
    BY <1>1, <2>1, FullImagesAreWhole
  <2>. QED
    BY <1>0, <1>1, <1>2, <2>1, <2>2
<1>. QED
  BY <1>3, <1>4

LEMMA BackupsMoveFiles ==
  ASSUME ToolTypeOK, StoreTypeOK, NEW b \in Backups, OwnStep(b),
         PlaceInv(b), CopyInv(b), LookInv(b), LinkInv(b)
  PROVE  FilesMove
<1>1. CASE Link(b)
  <2>1. CASE files["backup"] # None
    BY <1>1, <2>1 DEF Link, FilesMove
  <2>2. CASE files["backup"] = None
    <3>1. runs[b].at = "publishing" /\ committed' = committed
          /\ files' = [files EXCEPT !["backup"] =
                           File(b, runs[b].image, runs[b].durable, runs[b].begun)]
      BY <1>1, <2>2 DEF Link, fileVars
    <3>2. runs[b].durable = TRUE /\ runs[b].image \in Image /\ runs[b].begun \in Versions
      BY <3>1, CopiesAreWhole DEF ToolTypeOK, Run
    <3>3. Appears("backup", b, runs[b].image, runs[b].begun)
      BY <2>2, <3>1, <3>2, CopiesAreWhole DEF Appears
    <3>. QED
      BY <3>3 DEF FilesMove, Names
  <2>. QED
    BY <2>1, <2>2
<1>2. CASE SyncDirectory(b)
  <2>1. files["backup"] # None /\ files' = [files EXCEPT !["backup"].entry = TRUE]
    BY <1>2 DEF SyncDirectory, LinkInv, Linked
  <2>. QED
    BY <2>1 DEF Settles, FilesMove, Names
<1>3. CASE ~Link(b) /\ ~SyncDirectory(b)
  <2>1. UNCHANGED files
    BY <1>3 DEF OwnStep, BackupStep, Inspect, InspectSidecars, NewTarget, Connect, Attest, Copy,
       Compare, LookAtMain, LookAtSidecars, LookAtJournal, SyncStage, NewTargetAgain,
       BackupStops, Same
  <2>. QED
    BY <2>1 DEF FilesMove
<1>. QED
  BY <1>1, <1>2, <1>3

LEMMA MigrationsMoveFiles ==
  ASSUME ToolTypeOK, StoreTypeOK, NEW m \in Migrations, OwnMigrationStep(m), MigrationInv(m)
  PROVE  FilesMove
<1>0. /\ migrations[m] \in MigrationRun /\ committed \in Nat
  BY FileConstants DEF ToolTypeOK, StoreTypeOK, FileTypeOK, Versions
<1>1. ASSUME NEW n \in Names, NEW next, Publish(m, n, next), files[n] = None,
             migrations[m].at \in {"linking", "checking"},
             n = "output" => migrations[m].at = "checking"
      PROVE  FilesMove
  <2>1. /\ files[n] = None /\ committed' = committed
        /\ files' = [files EXCEPT ![n] = File(m, migrations[m].image, migrations[m].durable,
                                              migrations[m].begun)]
    BY <1>1 DEF Publish, fileVars
  <2>2. /\ migrations[m].durable = TRUE /\ migrations[m].begun = committed
        /\ Whole(migrations[m].image, migrations[m].begun)
    BY <1>0, <1>1 DEF MigrationInv, Fenced, MigrationRun
  <2>3. \E v \in migrations[m].begun .. committed : Whole(migrations[m].image, v)
    BY <1>0, <2>2
  <2>4. n = "output" => /\ files["backup"] # None /\ files["backup"].entry
                       /\ files["backup"].image = migrations[m].image
    BY <1>1 DEF MigrationInv
  <2>5. Appears(n, m, migrations[m].image, migrations[m].begun)
    BY <1>0, <2>1, <2>2, <2>3, <2>4 DEF Appears, MigrationRun
  <2>. QED
    BY <2>5 DEF FilesMove
<1>2. CASE LinkBackup(m)
  <2>1. migrations[m].at = "linking" /\ Publish(m, "backup", "directory") /\ "backup" \in Names
    BY <1>2 DEF LinkBackup, Names
  <2>2. CASE files["backup"] # None
    BY <2>1, <2>2 DEF Publish, FilesMove
  <2>. QED
    BY <1>1, <2>1, <2>2
<1>3. CASE LinkOutput(m)
  <2>1. /\ migrations[m].at = "checking" /\ "output" \in Names
        /\ UNCHANGED files \/ Publish(m, "output", "finishing")
    BY <1>3 DEF LinkOutput, Names
  <2>2. CASE files["output"] # None
    BY <2>1, <2>2 DEF Publish, FilesMove
  <2>. QED
    BY <1>1, <2>1, <2>2 DEF FilesMove
<1>4. CASE SyncBackup(m)
  <2>1. files["backup"] # None /\ files' = [files EXCEPT !["backup"].entry = TRUE]
    BY <1>4 DEF SyncBackup, MigrationInv
  <2>. QED
    BY <2>1 DEF Settles, FilesMove, Names
<1>5. CASE SyncOutput(m)
  <2>1. files["output"] # None /\ files' = [files EXCEPT !["output"].entry = TRUE]
    BY <1>5 DEF SyncOutput, MigrationInv
  <2>. QED
    BY <2>1 DEF Settles, FilesMove, Names
<1>6. CASE \/ Prepare(m) \/ Fence(m) \/ FenceTimesOut(m) \/ InspectHistory(m) \/ CopyHistory(m)
           \/ Build(m) \/ MigrationFails(m)
  BY <1>6 DEF Prepare, Fence, FenceTimesOut, InspectHistory, CopyHistory, Build, MigrationFails,
     MSame, FilesMove
<1>. QED
  BY <1>2, <1>3, <1>4, <1>5, <1>6 DEF OwnMigrationStep, MigrationStep

\* While the machine runs a file stays as it was linked.
FilesKept ==
    \A n \in Names : files[n] # None =>
        /\ files'[n] # None /\ files'[n].by = files[n].by /\ files'[n].image = files[n].image
        /\ files'[n].synced = files[n].synced /\ files'[n].from = files[n].from
        /\ files'[n].upTo = files[n].upTo /\ (files[n].entry => files'[n].entry)

LEMMA MovesKeepFiles ==
  ASSUME ToolTypeOK, StoreTypeOK, StoreTypeOK', committed <= committed', FilesMove,
         FilesInv, OutputInv
  PROVE  /\ files' \in [Names -> Published \cup {None}]
         /\ FilesKept /\ FilesInv' /\ OutputInv'
<1>0. /\ files \in [Names -> Published \cup {None}] /\ None \notin Published
      /\ committed \in Versions /\ committed' \in Versions /\ Versions \subseteq Nat
      /\ Names = {"backup", "output"}
  BY FileConstants, ToolConstants DEF ToolTypeOK, StoreTypeOK, FileTypeOK, Versions, Names
<1>a. ASSUME NEW x \in Names, files[x] # None, files'[x] # None,
             files'[x].synced = files[x].synced, files'[x].image = files[x].image,
             files'[x].from = files[x].from, files'[x].upTo = files[x].upTo
      PROVE  /\ files'[x].synced /\ files'[x].upTo <= committed'
             /\ \E v \in files'[x].from .. files'[x].upTo : Whole(files'[x].image, v)
  <2>1. files[x] \in Published /\ files[x].upTo \in Nat /\ files[x].upTo <= committed
    BY <1>0, <1>a DEF Published, FilesInv
  <2>. QED
    BY <1>0, <1>a, <2>1 DEF FilesInv
<1>1. CASE UNCHANGED files
  <2>1. FilesKept
    BY <1>1 DEF FilesKept
  <2>2. FilesInv'
    BY <1>1, <1>a DEF FilesInv, Whole
  <2>3. OutputInv'
    BY <1>1 DEF OutputInv, Whole
  <2>. QED
    BY <1>0, <1>1, <2>1, <2>2, <2>3
<1>2. ASSUME NEW n \in Names, Settles(n)
      PROVE  /\ files' \in [Names -> Published \cup {None}]
             /\ FilesKept /\ FilesInv' /\ OutputInv'
  <2>1. files[n] \in Published /\ files' = [files EXCEPT ![n] = [files[n] EXCEPT !.entry = TRUE]]
    BY <1>0, <1>2 DEF Settles
  <2>2. [files[n] EXCEPT !.entry = TRUE] \in Published
    BY <2>1 DEF Published
  <2>3. files' \in [Names -> Published \cup {None}]
    BY <1>0, <2>1, <2>2
  <2>4. FilesKept
    BY <1>0, <2>1, <2>2 DEF FilesKept, Published
  <2>5. \A x \in Names : files'[x] # None => files[x] # None
    BY <1>0, <2>1
  <2>6. FilesInv'
    BY <1>a, <2>4, <2>5 DEF FilesInv, FilesKept, Whole
  <2>7. OutputInv'
    BY <1>0, <2>4, <2>5 DEF OutputInv, FilesKept
  <2>. QED
    BY <2>3, <2>4, <2>6, <2>7
<1>3. ASSUME NEW n \in Names, NEW maker, NEW image, NEW begun, Appears(n, maker, image, begun)
      PROVE  /\ files' \in [Names -> Published \cup {None}]
             /\ FilesKept /\ FilesInv' /\ OutputInv'
  <2> DEFINE f == File(maker, image, TRUE, begun)
  <2>1. f \in Published /\ f # None
    <3>1. maker \in Backups \cup Migrations /\ image \in Image /\ begun \in Versions
      BY <1>3 DEF Appears
    <3>2. f \in Published
      BY <1>0, <3>1 DEF File, Published
    <3> HIDE DEF f
    <3>. QED
      BY <1>0, <3>2
  <2>2. /\ f.by = maker /\ f.image = image /\ f.synced = TRUE /\ f.from = begun
        /\ f.upTo = committed
    BY DEF File
  <2> HIDE DEF f
  <2>3. files' = [files EXCEPT ![n] = f] /\ files[n] = None
    BY <1>3 DEF Appears, f
  <2>4. files' \in [Names -> Published \cup {None}]
    BY <1>0, <2>1, <2>3
  <2>5. FilesKept
    BY <1>0, <2>3 DEF FilesKept
  <2>6. FilesInv'
    <3>1. ASSUME NEW x \in Names, files'[x] # None
          PROVE  /\ files'[x].synced /\ files'[x].upTo <= committed'
                 /\ \E v \in files'[x].from .. files'[x].upTo : Whole(files'[x].image, v)
      <4>1. CASE x = n
        BY <1>0, <1>3, <2>2, <2>3, <4>1 DEF Appears
      <4>2. CASE x # n
        <5>1. files'[x] = files[x] /\ files[x] \in Published
          BY <1>0, <2>3, <3>1, <4>2
        <5>. QED
          BY <1>0, <1>a, <3>1, <5>1
      <4>. QED
        BY <4>1, <4>2
    <3>. QED
      BY <3>1 DEF FilesInv, Whole
  <2>7. OutputInv'
    <3>1. CASE n = "output"
      BY <1>0, <1>3, <2>2, <2>3, <3>1 DEF Appears, OutputInv, Whole
    <3>2. CASE n = "backup"
      BY <1>0, <2>3, <3>2 DEF OutputInv
    <3>. QED
      BY <1>0, <3>1, <3>2
  <2>. QED
    BY <2>4, <2>5, <2>6, <2>7
<1>. QED
  BY <1>1, <1>2, <1>3 DEF FilesMove

---------------------------------------------------------------------------
(* Receipts.                                                               *)

\* A file that was linked stays, for the runs and the migrations that wait.
LEMMA LinksStay ==
  ASSUME NEW b \in Backups, FilesKept, runs'[b] = runs[b], mode' = mode, LinkInv(b)
  PROVE  LinkInv(b)'
<1>1. CASE Linked(runs[b])
  <2>1. /\ files["backup"] # None
        /\ files'["backup"] # None /\ files'["backup"].by = files["backup"].by
        /\ files'["backup"].image = files["backup"].image
        /\ files'["backup"].upTo = files["backup"].upTo
        /\ (files["backup"].entry => files'["backup"].entry)
    BY <1>1 DEF LinkInv, FilesKept, Names
  <2>. QED
    BY <1>1, <2>1 DEF LinkInv, Linked
<1>2. CASE ~Linked(runs[b])
  BY <1>2 DEF LinkInv, Linked
<1>. QED
  BY <1>1, <1>2

\* The look at the main file settles a copy under rollback, the one at the log a
\* copy under WAL: the version of the copy is still the latest one.
LEMMA ThirdLook ==
  ASSUME StoreTypeOK, ToolTypeOK, NEW b \in Backups, ~runs[b].immutable, runs[b].image # <<>>,
         SourceInv(b), CopyInv(b), FilesInv, files["backup"] # None,
         runs[b].seen <= files["backup"].upTo,
         runs[b].at \in Looking,
         \/ mode = "rollback" /\ b \in mainSeen
         \/ mode = "wal" /\ b \in logSeen
  PROVE  files["backup"].upTo = runs[b].seen
<1>0. /\ runs[b] \in Run /\ committed \in Nat /\ runs[b].begun \in Nat /\ runs[b].seen \in Nat
      /\ files["backup"] \in Published /\ files["backup"].upTo \in Nat
      /\ files["backup"].upTo <= committed
  BY FileConstants
     DEF StoreTypeOK, FileTypeOK, ToolTypeOK, Run, Versions, Published, FilesInv, Names
<1>1. runs[b].begun <= runs[b].seen /\ runs[b].seen <= committed
  BY DEF CopyInv
<1>2. CASE mode = "rollback" /\ b \in mainSeen
  <2>1. runs[b].begun = committed
    BY <1>2 DEF SourceInv, Looking
  <2>. QED
    BY <1>0, <1>1, <2>1
<1>3. CASE mode = "wal" /\ b \in logSeen
  <2>1. runs[b].seen = committed
    BY <1>3 DEF CopyInv
  <2>. QED
    BY <1>0, <2>1
<1>. QED
  BY <1>2, <1>3

LEMMA OwnStepKeepsLink ==
  ASSUME StoreTypeOK, ToolTypeOK, NEW b \in Backups, OwnStep(b), FilesInv, FilesKept,
         PlaceInv(b), SourceInv(b), CopyInv(b), LookInv(b), LinkInv(b)
  PROVE  LinkInv(b)'
<1>0. /\ runs \in [Backups -> Run] /\ runs[b] \in Run /\ mode \in {"rollback", "wal"}
      /\ committed \in Nat /\ files \in [Names -> Published \cup {None}] /\ "backup" \in Names
  BY FileConstants DEF ToolTypeOK, StoreTypeOK, FileTypeOK, Versions, Names
<1>1. CASE Refused(b)
  <2>1. ~Linked(runs[b])'
    BY <1>1, RefusalKeeps
  <2>. QED
    BY <2>1 DEF LinkInv
<1>2. CASE Link(b) /\ ~Refused(b)
  <2>1. /\ runs[b].at = "publishing" /\ runs' = [runs EXCEPT ![b].at = "directory"]
        /\ files["backup"] = None /\ mode' = mode
        /\ files' = [files EXCEPT !["backup"] =
                         File(b, runs[b].image, runs[b].durable, runs[b].begun)]
    BY <1>2 DEF Link, Check, Go, Refuse, Refused, fileVars
  <2>2. /\ runs'[b].at = "directory" /\ runs'[b].round = 2 /\ runs'[b].image = runs[b].image
        /\ runs'[b].immutable = runs[b].immutable /\ runs'[b].seen = runs[b].seen
    BY <1>0, <2>1 DEF Run, PlaceInv
  <2>3. /\ files'["backup"].by = b /\ files'["backup"].image = runs[b].image
        /\ files'["backup"].upTo = committed
        /\ files'["backup"] = File(b, runs[b].image, TRUE, runs[b].begun)
    BY <1>0, <2>1, CopiesAreWhole DEF File, Run
  <2>4. files'["backup"] # None
    <3>1. /\ runs[b].image \in Image /\ runs[b].begun \in Versions /\ committed \in Versions
      BY <1>0 DEF Run, StoreTypeOK, FileTypeOK
    <3>2. files'["backup"] \in Published
      BY <2>3, <3>1 DEF File, Published
    <3>. QED
      BY <3>2, ToolConstants
  <2>5. ~runs[b].immutable => runs[b].seen <= committed
    BY <2>1, CopiesAreWhole DEF CopyInv
  <2>6. runs'[b].at \notin {"sidecars", "journal", "done"} /\ runs'[b].round # 3
    BY <2>2
  <2>7. ~runs'[b].immutable => runs'[b].seen <= files'["backup"].upTo
    BY <2>2, <2>3, <2>5
  <2>8. files'["backup"].image = runs'[b].image
    BY <2>2, <2>3
  <2>. QED
    BY <2>3, <2>4, <2>6, <2>7, <2>8 DEF LinkInv
<1>3. CASE SyncDirectory(b)
  <2>1. /\ runs[b].at = "directory" /\ runs' = [runs EXCEPT ![b].at = "main", ![b].round = 3]
        /\ files' = [files EXCEPT !["backup"].entry = TRUE] /\ mode' = mode
    BY <1>3 DEF SyncDirectory, fileVars
  <2>2. /\ runs'[b].at = "main" /\ runs'[b].round = 3 /\ runs'[b].image = runs[b].image
        /\ runs'[b].immutable = runs[b].immutable /\ runs'[b].seen = runs[b].seen
    BY <1>0, <2>1 DEF Run
  <2>3. /\ files["backup"] # None /\ files["backup"].by = b
        /\ files["backup"].image = runs[b].image
        /\ ~runs[b].immutable => runs[b].seen <= files["backup"].upTo
    BY <2>1 DEF LinkInv, Linked
  <2>4. files["backup"] \in Published
    BY <1>0, <2>3
  <2>5. files'["backup"].entry = TRUE
    BY <1>0, <2>1, <2>4 DEF Published
  <2>6. /\ files'["backup"] # None /\ files'["backup"].by = files["backup"].by
        /\ files'["backup"].image = files["backup"].image
        /\ files'["backup"].upTo = files["backup"].upTo
    BY <1>0, <2>3 DEF FilesKept
  <2>. QED
    BY <2>2, <2>3, <2>5, <2>6 DEF LinkInv
<1>4. CASE (LookAtMain(b) \/ LookAtSidecars(b) \/ LookAtJournal(b)) /\ ~Refused(b)
  <2>0. /\ runs[b].at \in Looking /\ mode' = mode
        /\ \/ /\ runs[b].at = "main" /\ b \in mainSeen
              /\ runs' = [runs EXCEPT ![b].at = "sidecars"]
           \/ /\ runs[b].at = "sidecars" /\ LogUnchanged(b)
              /\ runs' = [runs EXCEPT ![b].at = "journal"]
           \/ /\ runs[b].at = "journal"
              /\ runs' = [runs EXCEPT ![b].at = AfterLook(b)]
    BY <1>4 DEF LookAtMain, LookAtSidecars, LookAtJournal, MainUnchanged, Check, Go, Refuse,
       Refused, Looking, Same, fileVars
  <2>1. /\ runs'[b].round = runs[b].round /\ runs'[b].image = runs[b].image
        /\ runs'[b].immutable = runs[b].immutable /\ runs'[b].seen = runs[b].seen
        /\ runs'[b].at \in {"sidecars", "journal", AfterLook(b)}
        /\ runs[b].at = "main" => runs'[b].at = "sidecars" /\ b \in mainSeen
        /\ runs[b].at = "sidecars" => runs'[b].at = "journal" /\ LogUnchanged(b)
        /\ runs[b].at = "journal" => runs'[b].at = AfterLook(b)
    BY <1>0, <2>0 DEF Run
  <2>2. CASE runs[b].round # 3
    <3>1. ~Linked(runs[b])'
      BY <2>0, <2>1, <2>2 DEF Linked, AfterLook, PlaceInv, Looking
    <3>. QED
      BY <3>1 DEF LinkInv
  <2>3. CASE runs[b].round = 3
    <3>1. /\ files["backup"] # None /\ files["backup"].by = b
          /\ files["backup"].image = runs[b].image /\ files["backup"].entry
          /\ ~runs[b].immutable => runs[b].seen <= files["backup"].upTo
      BY <2>0, <2>3 DEF LinkInv, Linked
    <3>2. /\ files'["backup"] # None /\ files'["backup"].by = files["backup"].by
          /\ files'["backup"].image = files["backup"].image /\ files'["backup"].entry
          /\ files'["backup"].upTo = files["backup"].upTo
      BY <1>0, <3>1 DEF FilesKept
    <3>3. runs'[b].at \in {"sidecars", "journal", "done"}
      BY <2>1, <2>3 DEF AfterLook
    <3>4. runs[b].image # <<>>
      <4>1. Len(runs[b].image) = LastPage
        BY <2>0 DEF PlaceInv, Late
      <4>. QED
        BY <4>1, NothingCopied, FileConstants
    <3>5. ASSUME ~runs[b].immutable, mode = "rollback" PROVE files["backup"].upTo = runs[b].seen
      <4>1. CASE runs[b].at = "main"
        BY <2>0, <2>1, <3>1, <3>4, <3>5, <4>1, ThirdLook
      <4>2. CASE runs[b].at \in {"sidecars", "journal"}
        BY <2>3, <3>5, <4>2 DEF LinkInv, Linked, Looking
      <4>. QED
        BY <2>0, <4>1, <4>2 DEF Looking
    <3>6. ASSUME ~runs[b].immutable, mode = "wal", runs'[b].at \in {"journal", "done"}
          PROVE  files["backup"].upTo = runs[b].seen
      <4>1. CASE runs[b].at = "sidecars"
        <5>1. runs[b].log # None
          BY <3>6, <4>1 DEF SourceInv
        <5>2. b \in logSeen
          BY <2>1, <4>1, <5>1 DEF LogUnchanged
        <5>. QED
          BY <2>0, <3>1, <3>4, <3>6, <5>2, ThirdLook
      <4>2. CASE runs[b].at = "journal"
        BY <2>3, <3>6, <4>2 DEF LinkInv, Linked, Looking
      <4>3. runs[b].at # "main"
        BY <2>1, <3>6
      <4>. QED
        BY <2>0, <4>1, <4>2, <4>3 DEF Looking
    <3>. QED
      BY <2>0, <2>1, <3>1, <3>2, <3>3, <3>5, <3>6 DEF LinkInv
  <2>. QED
    BY <2>2, <2>3
<1>5. CASE /\ ~Link(b) /\ ~SyncDirectory(b) /\ ~Refused(b)
           /\ ~LookAtMain(b) /\ ~LookAtSidecars(b) /\ ~LookAtJournal(b)
  <2>1. ~Linked(runs[b])'
    <3>1. CASE Inspect(b) \/ InspectSidecars(b) \/ NewTarget(b) \/ Connect(b) \/ Attest(b)
      <4>1. runs'[b].at \in {"inspected", "naming", "opening", "attesting", "copying"}
        BY <1>0, <1>5, <3>1 DEF Inspect, InspectSidecars, NewTarget, Connect, Attest, Check, Go,
           Refuse, Refused, Run
      <4>. QED
        BY <4>1 DEF Linked, Looking
    <3>2. CASE Copy(b)
      <4> DEFINE r == runs[b]
                 n == Len(r.image) + 1
                 image == IF r.immutable THEN Append(r.image, main[n])
                          ELSE IF r.seen = committed THEN Append(r.image, Read(n)) ELSE <<Read(1)>>
                 at == IF Len(image) = LastPage THEN "comparing" ELSE "copying"
      <4>1. runs' = [runs EXCEPT ![b].image = image, ![b].seen = committed, ![b].at = at]
        BY <1>5, <3>2 DEF Copy, Refuse, Refused
      <4>2. at \in {"comparing", "copying"}
        OBVIOUS
      <4> HIDE DEF image, at
      <4>3. runs'[b].at = at
        BY <1>0, <4>1 DEF Run
      <4>. QED
        BY <4>2, <4>3 DEF Linked, Looking
    <3>3. CASE Compare(b) \/ SyncStage(b)
      <4>1. runs'[b].at = "main" /\ runs'[b].round \in {1, 2}
        BY <1>0, <1>5, <3>3 DEF Compare, SyncStage, Refuse, Refused, Run
      <4>. QED
        BY <4>1 DEF Linked
    <3>4. CASE NewTargetAgain(b)
      <4>1. runs'[b].at = "publishing"
        BY <1>0, <1>5, <3>4 DEF NewTargetAgain, Check, Go, Refuse, Refused, Run
      <4>. QED
        BY <4>1 DEF Linked, Looking
    <3>. QED
      BY <1>5, <3>1, <3>2, <3>3, <3>4 DEF OwnStep, BackupStep, BackupStops, Refuse, Refused
  <2>. QED
    BY <2>1 DEF LinkInv
<1>. QED
  BY <1>1, <1>2, <1>3, <1>4, <1>5

---------------------------------------------------------------------------
(* What the fence keeps.                                                   *)

\* Steps of the others while the machine runs.
OthersStep(m) ==
    \/ \E b \in Backups : OwnStep(b)
    \/ \E x \in Migrations \ {m} : OwnMigrationStep(x)
    \/ WriterStep \/ WriterCrash \/ UNCHANGED vars

LEMMA FenceHolds ==
  ASSUME StoreTypeOK, ToolTypeOK, MigrationsInv, NEW m \in Migrations, lock = m, OthersStep(m)
  PROVE  lock' = m /\ committed' = committed
<1>0. m # None /\ m # "writer"
  BY ToolConstants
<1>1. ASSUME NEW b \in Backups, OwnStep(b) PROVE lock' = m /\ committed' = committed
  BY <1>1 DEF OwnStep, BackupStep, Inspect, InspectSidecars, NewTarget, Connect, Attest, Copy,
     Compare, LookAtMain, LookAtSidecars, LookAtJournal, SyncStage, NewTargetAgain, Link,
     SyncDirectory, BackupStops, Same, fileVars
<1>2. ASSUME NEW x \in Migrations \ {m}, OwnMigrationStep(x)
      PROVE  lock' = m /\ committed' = committed
  <2>1. ~Fence(x)
    BY <1>0 DEF Fence
  <2>2. migrations[x].at \notin Fenced
    BY <1>2 DEF MigrationsInv, MigrationInv
  <2>3. UNCHANGED fileVars
    BY <1>2, <2>1, <2>2, MigrationMoves
  <2>. QED
    BY <2>3 DEF fileVars
<1>3. CASE WriterStep
  BY <1>0, <1>3 DEF WriterStep, WriterFinishes, WriterOpens, WriterBegins, WriterWrites,
     WriterCommits, WriterAppends, WriterCheckpoints, WriterCloses
<1>4. CASE WriterCrash \/ UNCHANGED vars
  BY <1>0, <1>4 DEF WriterCrash, WriterDies, vars, fileVars
<1>. QED
  BY <1>1, <1>2, <1>3, <1>4 DEF OthersStep

LEMMA OthersKeepMigration ==
  ASSUME NEW m \in Migrations, MigrationInv(m), FilesKept, migrations'[m] = migrations[m],
         lock = m => lock' = m /\ committed' = committed
  PROVE  MigrationInv(m)'
<1>1. CASE migrations[m].at \in Fenced
  <2>1. lock' = m /\ migrations[m].begun = committed'
    BY <1>1 DEF MigrationInv
  <2>2. migrations[m].at \in {"directory", "checking", "finishing"} =>
           /\ files'["backup"] # None /\ files'["backup"].by = m
           /\ files'["backup"].image = migrations[m].image
           /\ files["backup"].entry => files'["backup"].entry
    BY DEF MigrationInv, FilesKept, Names
  <2>3. migrations[m].at = "finishing" => files'["output"] # None
    BY DEF MigrationInv, FilesKept, Names
  <2>. QED
    BY <2>1, <2>2, <2>3 DEF MigrationInv, Whole
<1>2. CASE migrations[m].at \notin Fenced
  BY <1>2 DEF MigrationInv, Fenced
<1>. QED
  BY <1>1, <1>2

\* A migration that only goes on, or ends.
Goes(m, at) == migrations' = [migrations EXCEPT ![m].at = at]

LEMMA EndedMigrations ==
  ASSUME ToolTypeOK, NEW m \in Migrations, NEW at \in {"failed", "done", "fencing"}, Goes(m, at)
  PROVE  migrations' \in [Migrations -> MigrationRun] /\ MigrationInv(m)'
<1>1. migrations' \in [Migrations -> MigrationRun]
  BY DEF Goes, ToolTypeOK, MigrationRun, MigrationPlaces, Ended
<1>2. migrations'[m].at = at
  BY DEF Goes, ToolTypeOK, MigrationRun
<1>3. migrations'[m].at \notin Fenced
  BY <1>2 DEF Fenced
<1>. QED
  BY <1>1, <1>3 DEF MigrationInv, Fenced

LEMMA OwnStepKeepsMigration ==
  ASSUME StoreTypeOK, ToolTypeOK, FileInv, NEW m \in Migrations, OwnMigrationStep(m),
         MigrationInv(m)
  PROVE  migrations' \in [Migrations -> MigrationRun] /\ MigrationInv(m)'
<1>0. /\ migrations \in [Migrations -> MigrationRun] /\ migrations[m] \in MigrationRun
      /\ committed \in Versions
      /\ files \in [Names -> Published \cup {None}] /\ {"backup", "output"} = Names
  BY DEF ToolTypeOK, StoreTypeOK, FileTypeOK, Names
<1>1. CASE \E at \in {"failed", "done", "fencing"} : Goes(m, at)
  BY <1>1, EndedMigrations
<1>2. ASSUME NEW at, MEnd(m, at), at \in {"failed", "done"}
      PROVE  \E next \in {"failed", "done", "fencing"} : Goes(m, next)
  BY <1>2 DEF MEnd, MGo, Goes
<1>3. CASE Prepare(m) \/ FenceTimesOut(m) \/ SyncOutput(m) \/ MigrationFails(m)
  BY <1>1, <1>2, <1>3 DEF Prepare, FenceTimesOut, SyncOutput, MigrationFails, MGo, Goes
<1>4. CASE Fence(m)
  <2>1. /\ lock' = m /\ committed' = committed
        /\ migrations' = [migrations EXCEPT ![m].at = "inspecting", ![m].begun = committed]
    BY <1>4 DEF Fence
  <2>2. migrations'[m].at = "inspecting" /\ migrations'[m].begun = committed
    BY <1>0, <2>1 DEF MigrationRun
  <2>3. migrations' \in [Migrations -> MigrationRun]
    BY <1>0, <2>1 DEF MigrationRun, MigrationPlaces
  <2>. QED
    BY <2>1, <2>2, <2>3 DEF MigrationInv, Fenced
<1>5. CASE InspectHistory(m)
  <2>1. CASE schema = "legacy"
    <3>1. /\ migrations[m].at = "inspecting" /\ Goes(m, "copying")
          /\ lock' = lock /\ committed' = committed
      BY <1>5, <2>1 DEF InspectHistory, MGo, Goes, MSame, fileVars
    <3>2. migrations' \in [Migrations -> MigrationRun] /\ migrations'[m].at = "copying"
          /\ migrations'[m].begun = migrations[m].begun
      BY <1>0, <3>1 DEF Goes, MigrationRun, MigrationPlaces
    <3>. QED
      BY <3>1, <3>2 DEF MigrationInv, Fenced
  <2>. QED
    BY <1>1, <1>2, <1>5, <2>1 DEF InspectHistory
<1>6. CASE CopyHistory(m)
  <2>1. /\ migrations[m].at = "copying" /\ lock' = lock /\ committed' = committed
        /\ migrations' = [migrations EXCEPT ![m].at = "building", ![m].durable = TRUE,
                              ![m].image = [p \in Pages |-> Read(p)]]
    BY <1>6 DEF CopyHistory, MSame, fileVars
  <2>2. lock = m /\ migrations[m].begun = committed
    BY <2>1 DEF MigrationInv, Fenced
  <2>3. ~Hot /\ ~Blocked
    BY <2>2, ToolConstants DEF FileInv, Hot, Blocked
  <2>4. [p \in Pages |-> Read(p)] = [p \in Pages |-> committed]
    BY <2>3, ReadsTheLatest
  <2>5. [p \in Pages |-> committed] \in Image
    BY <1>0, WholeImages
  <2>6. migrations' = [migrations EXCEPT ![m] = [migrations[m] EXCEPT !.at = "building", !.durable = TRUE,
                              !.image = [p \in Pages |-> committed]]]
    BY <2>1, <2>4
  <2>7. [migrations[m] EXCEPT !.at = "building", !.durable = TRUE,
                              !.image = [p \in Pages |-> committed]] \in MigrationRun
    BY <1>0, <2>5 DEF MigrationRun, MigrationPlaces
  <2>8. migrations' \in [Migrations -> MigrationRun]
    BY <1>0, <2>6, <2>7
  <2>9. /\ migrations'[m].at = "building" /\ migrations'[m].durable = TRUE
        /\ migrations'[m].begun = committed
        /\ migrations'[m].image = [p \in Pages |-> committed]
    BY <1>0, <2>2, <2>6 DEF MigrationRun
  <2>. QED
    BY <2>1, <2>2, <2>8, <2>9 DEF MigrationInv, Fenced, Whole
<1>7. ASSUME NEW at \in {"linking", "directory", "checking", "finishing"}, Goes(m, at),
             lock' = lock, committed' = committed,
             migrations[m].at \in Fenced \ {"inspecting", "copying"},
             at # "linking" => /\ files'["backup"] # None /\ files'["backup"].by = m
                               /\ files'["backup"].image = migrations[m].image,
             at \in {"checking", "finishing"} => files'["backup"].entry,
             at = "finishing" => files'["output"] # None
      PROVE  migrations' \in [Migrations -> MigrationRun] /\ MigrationInv(m)'
  <2>1. migrations' \in [Migrations -> MigrationRun]
    BY <1>0, <1>7 DEF Goes, MigrationRun, MigrationPlaces
  <2>2. /\ migrations'[m].at = at /\ migrations'[m].image = migrations[m].image
        /\ migrations'[m].begun = migrations[m].begun
        /\ migrations'[m].durable = migrations[m].durable
    BY <1>0, <1>7 DEF Goes, MigrationRun
  <2>3. /\ lock = m /\ migrations[m].begun = committed
        /\ Whole(migrations[m].image, migrations[m].begun) /\ migrations[m].durable
    BY <1>7 DEF MigrationInv
  <2>. QED
    BY <1>7, <2>1, <2>2, <2>3 DEF MigrationInv, Whole
<1>8. CASE Build(m)
  <2>1. CASE migrations[m].begun = committed
    <3>1. Goes(m, "linking") /\ lock' = lock /\ committed' = committed
          /\ migrations[m].at = "building"
      BY <1>8, <2>1 DEF Build, MGo, Goes, MSame, fileVars
    <3>. QED
      BY <1>7, <3>1 DEF Fenced
  <2>. QED
    BY <1>1, <1>2, <1>8, <2>1 DEF Build
<1>9. ASSUME NEW n \in Names, NEW next \in {"directory", "finishing"}, Publish(m, n, next),
             files[n] = None
      PROVE  /\ Goes(m, next) /\ lock' = lock /\ committed' = committed
             /\ files' = [files EXCEPT ![n] = files'[n]]
             /\ files'[n] = File(m, migrations[m].image, migrations[m].durable, migrations[m].begun)
             /\ files'[n] # None
             /\ files'[n].by = m /\ files'[n].image = migrations[m].image
  <2> DEFINE f == File(m, migrations[m].image, migrations[m].durable, migrations[m].begun)
  <2>1. /\ Goes(m, next) /\ lock' = lock /\ committed' = committed
        /\ files' = [files EXCEPT ![n] = f]
    BY <1>9 DEF Publish, MGo, Goes, fileVars
  <2>2. f \in Published /\ f.by = m /\ f.image = migrations[m].image
    BY <1>0 DEF File, Published, MigrationRun
  <2> HIDE DEF f
  <2>3. files'[n] = f
    BY <1>0, <2>1
  <2>. QED
    BY <2>1, <2>2, <2>3, ToolConstants DEF f
<1>10. CASE LinkBackup(m)
  <2>1. migrations[m].at = "linking" /\ Publish(m, "backup", "directory") /\ "backup" \in Names
    BY <1>0, <1>10 DEF LinkBackup
  <2>2. CASE files["backup"] = None
    <3>1. /\ Goes(m, "directory") /\ lock' = lock /\ committed' = committed
          /\ files'["backup"] # None
          /\ files'["backup"].by = m /\ files'["backup"].image = migrations[m].image
      BY <1>9, <2>1, <2>2
    <3>. QED
      BY <1>7, <2>1, <3>1 DEF Fenced
  <2>. QED
    BY <1>1, <1>2, <2>1, <2>2 DEF Publish
<1>11. CASE SyncBackup(m)
  <2>1. /\ migrations[m].at = "directory" /\ Goes(m, "checking") /\ lock' = lock
        /\ committed' = committed /\ files' = [files EXCEPT !["backup"].entry = TRUE]
    BY <1>11 DEF SyncBackup, MGo, Goes, fileVars
  <2>2. /\ files["backup"] # None /\ files["backup"].by = m
        /\ files["backup"].image = migrations[m].image
    BY <2>1 DEF MigrationInv
  <2>3. files["backup"] \in Published
    BY <1>0, <2>2
  <2>4. /\ files'["backup"] \in Published /\ files'["backup"].entry = TRUE
        /\ files'["backup"].by = m /\ files'["backup"].image = migrations[m].image
    BY <1>0, <2>1, <2>2, <2>3 DEF Published
  <2>5. files'["backup"] # None
    BY <2>4, ToolConstants
  <2>. QED
    BY <1>7, <2>1, <2>4, <2>5 DEF Fenced
<1>12. CASE LinkOutput(m)
  <2>1. migrations[m].at = "checking" /\ "output" \in Names
    BY <1>0, <1>12 DEF LinkOutput
  <2>2. CASE migrations[m].begun = committed /\ files["output"] = None
    <3>1. Publish(m, "output", "finishing")
      BY <1>12, <2>2 DEF LinkOutput
    <3>2. /\ Goes(m, "finishing") /\ lock' = lock /\ committed' = committed
          /\ files'["output"] # None /\ files' = [files EXCEPT !["output"] = files'["output"]]
      BY <1>9, <2>1, <2>2, <3>1
    <3>3. files'["backup"] = files["backup"]
      BY <1>0, <3>2
    <3>4. /\ files["backup"] # None /\ files["backup"].by = m
          /\ files["backup"].image = migrations[m].image /\ files["backup"].entry
      BY <2>1 DEF MigrationInv
    <3>. QED
      BY <1>7, <2>1, <3>2, <3>3, <3>4 DEF Fenced
  <2>. QED
    BY <1>1, <1>2, <1>12, <2>2 DEF LinkOutput, Publish
<1>. QED
  BY <1>3, <1>4, <1>5, <1>6, <1>8, <1>10, <1>11, <1>12 DEF OwnMigrationStep, MigrationStep

---------------------------------------------------------------------------
(* After a power loss nobody works, and what was settled is there.         *)

LEMMA SettledSurvives ==
  ASSUME ToolTypeOK, FilesInv, PowerLoss
  PROVE  /\ \A n \in Names : files'[n] = None \/ files'[n] = files[n]
         /\ \A n \in Names : files[n] # None /\ files[n].entry => files'[n] = files[n]
         /\ files' \in [Names -> Published \cup {None}]
<1>1. PICK lost \in SUBSET {n \in Names : files[n] # None /\ ~files[n].entry} :
           files' = [n \in Names |->
                        IF n \in lost \/ files[n] = None THEN None
                        ELSE IF files[n].synced THEN files[n]
                        ELSE [files[n] EXCEPT !.image = <<>>]]
  BY DEF PowerLoss
<1>2. \A n \in Names : files[n] # None => files[n].synced
  BY DEF FilesInv
<1>3. files' = [n \in Names |-> IF n \in lost \/ files[n] = None THEN None ELSE files[n]]
  BY <1>1, <1>2
<1>. QED
  BY <1>3 DEF ToolTypeOK

LEMMA PowerLossEndsTools ==
  ASSUME ToolTypeOK, PowerLoss
  PROVE  /\ runs' \in [Backups -> Run]
         /\ migrations' \in [Migrations -> MigrationRun]
         /\ \A b \in Backups : \/ runs[b].at = "done" /\ runs'[b] = runs[b]
                               \/ runs'[b] = [runs[b] EXCEPT !.at = "dead"]
         /\ \A m \in Migrations : migrations'[m].at \notin Fenced
<1>1. \A b \in Backups : runs[b] \in Run /\ [runs[b] EXCEPT !.at = "dead"] \in Run
  BY DEF ToolTypeOK, Run, RunPlaces, Ended
<1>2. runs' = [b \in Backups |-> IF runs[b].at = "done" THEN runs[b]
                                 ELSE [runs[b] EXCEPT !.at = "dead"]]
  BY DEF PowerLoss
<1>3. \A m \in Migrations : /\ migrations[m] \in MigrationRun
                            /\ [migrations[m] EXCEPT !.at = "dead"] \in MigrationRun
                            /\ [migrations[m] EXCEPT !.at = "dead"].at = "dead"
  BY DEF ToolTypeOK, MigrationRun, MigrationPlaces, Ended
<1>4. migrations' = [m \in Migrations |-> IF migrations[m].at = "done" THEN migrations[m]
                                          ELSE [migrations[m] EXCEPT !.at = "dead"]]
  BY DEF PowerLoss
<1>5. \A m \in Migrations : migrations'[m].at \in {"done", "dead"}
  BY <1>3, <1>4
<1>6. \A m \in Migrations : migrations'[m].at \notin Fenced
  BY <1>5 DEF Fenced
<1>. QED
  BY <1>1, <1>2, <1>3, <1>4, <1>6

LEMMA PowerLossKeeps ==
  ASSUME ToolsInv, PowerLoss
  PROVE  ToolTypeOK' /\ RunInv' /\ MigrationsInv' /\ FilesInv' /\ OutputInv'
<1>0. /\ StoreTypeOK /\ ToolTypeOK /\ FilesInv /\ OutputInv /\ RunInv
      /\ UNCHANGED <<mode, main, mainSeen, journal, wal, logSeen, committed, schema>>
      /\ faults < MaxFaults /\ faults' = faults + 1
  BY DEF ToolsInv, PowerLoss, mainFile, logFile
<1>1. ToolTypeOK'
  <2>1. faults' \in 0..MaxFaults
    BY <1>0, ToolConstants DEF ToolTypeOK
  <2>. QED
    BY <1>0, <2>1, PowerLossEndsTools, SettledSurvives DEF ToolTypeOK
<1>2. ASSUME NEW b \in Backups
      PROVE  PlaceInv(b)' /\ SourceInv(b)' /\ CopyInv(b)' /\ LookInv(b)' /\ LinkInv(b)'
  <2>0. PlaceInv(b) /\ SourceInv(b) /\ CopyInv(b) /\ LookInv(b) /\ LinkInv(b)
    BY <1>0 DEF RunInv
  <2>1. CASE runs[b].at = "done" /\ runs'[b] = runs[b]
    <3>1. PlaceInv(b)' /\ CopyInv(b)' /\ LookInv(b)'
      BY <1>0, <2>0, <2>1 DEF PlaceInv, CopyInv, LookInv, Whole
    <3>2. SourceInv(b)'
      BY <1>0, <2>0, <2>1 DEF SourceInv, AllPages
    <3>3. LinkInv(b)'
      <4>1. Linked(runs[b])
        BY <2>0, <2>1 DEF PlaceInv, Linked
      <4>2. files["backup"] # None /\ files["backup"].entry
        BY <2>0, <2>1, <4>1 DEF LinkInv, PlaceInv
      <4>3. files'["backup"] = files["backup"]
        BY <1>0, <4>2, SettledSurvives DEF Names
      <4>. QED
        BY <1>0, <2>0, <2>1, <4>3 DEF LinkInv, Linked
    <3>. QED
      BY <3>1, <3>2, <3>3
  <2>2. CASE runs'[b] = [runs[b] EXCEPT !.at = "dead"]
    <3>1. /\ runs'[b].at = "dead" /\ runs'[b].image = runs[b].image
          /\ runs'[b].immutable = runs[b].immutable /\ runs'[b].log = runs[b].log
          /\ runs'[b].seen = runs[b].seen /\ runs'[b].begun = runs[b].begun
          /\ runs'[b].round = runs[b].round /\ runs'[b].durable = runs[b].durable
      BY <1>0, <2>2 DEF ToolTypeOK, Run
    <3>2. PlaceInv(b)' /\ CopyInv(b)'
      BY <1>0, <2>0, <3>1 DEF PlaceInv, CopyInv, Early, Late, Looking
    <3>3. LookInv(b)' /\ LinkInv(b)'
      BY <3>1 DEF LookInv, Looked, LinkInv, Linked, Late, Looking
    <3>4. SourceInv(b)'
      BY <1>0, <2>0, <3>1 DEF SourceInv, AllPages
    <3>. QED
      BY <3>2, <3>3, <3>4
  <2>. QED
    BY <1>0, <2>1, <2>2, PowerLossEndsTools
<1>3. MigrationsInv'
  BY <1>0, PowerLossEndsTools DEF MigrationsInv, MigrationInv, Fenced
<1>4. FilesInv'
  BY <1>0, SettledSurvives DEF FilesInv
<1>5. OutputInv'
  <2>1. CASE files'["output"] # None
    <3>1. files'["output"] = files["output"] /\ files["output"] # None
      BY <1>0, <2>1, SettledSurvives DEF Names
    <3>2. files'["backup"] = files["backup"]
      BY <1>0, <3>1, SettledSurvives DEF OutputInv, Names
    <3>. QED
      BY <1>0, <3>1, <3>2 DEF OutputInv
  <2>. QED
    BY <2>1 DEF OutputInv
<1>. QED
  BY <1>1, <1>2, <1>3, <1>4, <1>5 DEF RunInv

---------------------------------------------------------------------------
(* The steps together.                                                     *)

\* A tool's own step leaves the others alone.
LEMMA BackupsLeaveOthers ==
  ASSUME ToolTypeOK, NEW b \in Backups, OwnStep(b)
  PROVE  /\ \A x \in Backups \ {b} : runs'[x] = runs[x]
         /\ UNCHANGED <<migrations, schema>>
         /\ faults' \in 0..MaxFaults
<1>0. runs \in [Backups -> Run] /\ faults \in 0..MaxFaults /\ MaxFaults \in Nat
  BY ToolConstants DEF ToolTypeOK
<1>1. CASE Copy(b)
  <2> DEFINE r == runs[b]
             image == IF r.immutable THEN Append(r.image, main[Len(r.image) + 1])
                      ELSE IF r.seen = committed
                      THEN Append(r.image, Read(Len(r.image) + 1)) ELSE <<Read(1)>>
             at == IF Len(image) = LastPage THEN "comparing" ELSE "copying"
  <2>1. /\ UNCHANGED <<migrations, schema, faults>>
        /\ Refused(b) \/ runs' = [runs EXCEPT ![b].image = image, ![b].seen = committed, ![b].at = at]
    BY <1>1 DEF Copy, Refuse, Refused, Same
  <2> HIDE DEF image, at
  <2>. QED
    BY <1>0, <2>1 DEF Refused
<1>2. CASE ~Copy(b)
  <2>1. UNCHANGED <<migrations, schema>> /\ faults' \in {faults, faults + 1}
        /\ (faults' = faults \/ faults < MaxFaults)
    BY <1>2 DEF OwnStep, BackupStep, Inspect, InspectSidecars, NewTarget, Connect, Attest,
       Compare, LookAtMain, LookAtSidecars, LookAtJournal, SyncStage, NewTargetAgain, Link,
       SyncDirectory, BackupStops, Same
  <2>2. \A x \in Backups \ {b} : runs'[x] = runs[x]
    BY <1>0, <1>2 DEF OwnStep, BackupStep, Inspect, InspectSidecars, NewTarget, Connect, Attest,
       Compare, LookAtMain, LookAtSidecars, LookAtJournal, SyncStage, NewTargetAgain, Link,
       SyncDirectory, BackupStops, Check, Go, Refuse
  <2>3. faults' \in 0..MaxFaults
    BY <1>0, <2>1
  <2>. QED
    BY <2>1, <2>2, <2>3
<1>. QED
  BY <1>1, <1>2

LEMMA MigrationsLeaveOthers ==
  ASSUME ToolTypeOK, NEW m \in Migrations, OwnMigrationStep(m)
  PROVE  /\ \A x \in Migrations \ {m} : migrations'[x] = migrations[x]
         /\ UNCHANGED <<runs, schema>>
         /\ faults' \in 0..MaxFaults
<1>0. migrations \in [Migrations -> MigrationRun] /\ faults \in 0..MaxFaults /\ MaxFaults \in Nat
  BY ToolConstants DEF ToolTypeOK
<1>1. UNCHANGED <<runs, schema>> /\ faults' \in {faults, faults + 1}
      /\ (faults' = faults \/ faults < MaxFaults)
  BY DEF OwnMigrationStep, MigrationStep, Prepare, Fence, FenceTimesOut, InspectHistory,
     CopyHistory, Build, LinkBackup, SyncBackup, LinkOutput, SyncOutput, Publish, MigrationFails,
     MEnd, MSame
<1>2. \A x \in Migrations \ {m} : migrations'[x] = migrations[x]
  BY <1>0 DEF OwnMigrationStep, MigrationStep, Prepare, Fence, FenceTimesOut, InspectHistory,
     CopyHistory, Build, LinkBackup, SyncBackup, LinkOutput, SyncOutput, Publish, MigrationFails,
     MEnd, MGo
<1>3. faults' \in 0..MaxFaults
  BY <1>0, <1>1
<1>. QED
  BY <1>1, <1>2, <1>3

LEMMA WritersLeaveTools ==
  ASSUME ToolTypeOK, WriterStep \/ WriterCrash \/ UNCHANGED vars
  PROVE  UNCHANGED <<runs, migrations, schema, files>> /\ faults' \in 0..MaxFaults
<1>1. UNCHANGED <<runs, migrations, schema, files>> /\ faults' \in {faults, faults + 1}
      /\ (faults' = faults \/ faults < MaxFaults)
  BY DEF WriterStep, WriterCrash, vars, toolVars
<1>. QED
  BY <1>1, ToolConstants DEF ToolTypeOK

\* Every step while the machine runs.
RunningStep ==
    \/ \E b \in Backups : OwnStep(b)
    \/ \E m \in Migrations : OwnMigrationStep(m)
    \/ WriterStep \/ WriterCrash \/ UNCHANGED vars

LEMMA RunningStepsMoveFiles ==
  ASSUME ToolsInv, RunningStep
  PROVE  FilesMove /\ committed <= committed'
<1>0. StoreTypeOK /\ ToolTypeOK /\ RunInv /\ MigrationsInv /\ FileInv
  BY DEF ToolsInv
<1>1. ASSUME NEW b \in Backups, OwnStep(b) PROVE FilesMove
  BY <1>0, <1>1, BackupsMoveFiles DEF RunInv
<1>2. ASSUME NEW m \in Migrations, OwnMigrationStep(m) PROVE FilesMove
  BY <1>0, <1>2, MigrationsMoveFiles DEF MigrationsInv
<1>3. ASSUME WriterStep \/ WriterCrash \/ UNCHANGED vars PROVE FilesMove
  BY <1>0, <1>3, WritersLeaveTools DEF FilesMove
<1>4. committed \in Nat
  BY <1>0, FileConstants DEF StoreTypeOK, FileTypeOK, Versions
<1>5. ASSUME NEW b \in Backups, OwnStep(b) PROVE committed' = committed
  BY <1>5 DEF OwnStep, BackupStep, Inspect, InspectSidecars, NewTarget, Connect, Attest, Copy,
     Compare, LookAtMain, LookAtSidecars, LookAtJournal, SyncStage, NewTargetAgain, Link,
     SyncDirectory, BackupStops, Same, fileVars
<1>6. ASSUME NEW m \in Migrations, OwnMigrationStep(m) PROVE committed' = committed
  BY <1>0, <1>6, MigrationMoves DEF Fence, GivesBack, fileVars
<1>7. WriterStep \/ WriterCrash \/ UNCHANGED vars => committed' = committed \/ committed' = committed + 1
  BY DEF WriterStep, WriterFinishes, WriterOpens, WriterBegins, WriterWrites, WriterCommits,
     WriterAppends, WriterCheckpoints, WriterCloses, WriterCrash, WriterDies, vars, fileVars
<1>8. committed' = committed \/ committed' = committed + 1
  BY <1>5, <1>6, <1>7 DEF RunningStep
<1>9. FilesMove
  BY <1>1, <1>2, <1>3 DEF RunningStep
<1>. QED
  BY <1>4, <1>8, <1>9

LEMMA RunningStepsKeepRuns ==
  ASSUME ToolsInv, RunningStep, StoreTypeOK', FilesKept
  PROVE  RunInv' /\ runs' \in [Backups -> Run]
<1>0. /\ StoreTypeOK /\ ToolTypeOK /\ FileInv /\ RunInv /\ FilesInv
      /\ runs \in [Backups -> Run]
  BY DEF ToolsInv, ToolTypeOK
<1>1. ASSUME NEW b \in Backups, OwnStep(b)
      PROVE  /\ PlaceInv(b)' /\ SourceInv(b)' /\ CopyInv(b)' /\ LookInv(b)' /\ LinkInv(b)'
             /\ runs' \in [Backups -> Run]
  <2>1. PlaceInv(b) /\ SourceInv(b) /\ CopyInv(b) /\ LookInv(b) /\ LinkInv(b)
    BY <1>0 DEF RunInv
  <2>. QED
    BY <1>0, <1>1, <2>1, OwnStepKeepsPlaces, OwnStepKeepsSight, OwnStepKeepsLink
<1>2. ASSUME NEW b \in Backups, Outlook(b), runs'[b] = runs[b]
      PROVE  PlaceInv(b)' /\ SourceInv(b)' /\ CopyInv(b)' /\ LookInv(b)' /\ LinkInv(b)'
  <2>1. PlaceInv(b) /\ SourceInv(b) /\ CopyInv(b) /\ LookInv(b) /\ LinkInv(b)
    BY <1>0 DEF RunInv
  <2>2. mode' = mode
    BY <1>2 DEF Outlook
  <2>. QED
    BY <1>0, <1>2, <2>1, <2>2, OutlookKeeps, LinksStay
<1>3. ASSUME NEW b \in Backups, OwnStep(b) PROVE RunInv' /\ runs' \in [Backups -> Run]
  <2>1. ASSUME NEW x \in Backups \ {b} PROVE Outlook(x) /\ runs'[x] = runs[x]
    BY <1>0, <1>3, <2>1, ToolsOutlook, BackupsLeaveOthers
  <2>. QED
    BY <1>1, <1>2, <1>3, <2>1 DEF RunInv
<1>4. ASSUME NEW m \in Migrations, OwnMigrationStep(m) PROVE RunInv' /\ runs' \in [Backups -> Run]
  <2>1. runs' = runs
    BY <1>0, <1>4, MigrationsLeaveOthers
  <2>2. \A b \in Backups : Outlook(b)
    BY <1>0, <1>4, ToolsOutlook
  <2>. QED
    BY <1>0, <1>2, <2>1, <2>2 DEF RunInv
<1>5. CASE WriterStep \/ WriterCrash \/ UNCHANGED vars
  <2>1. runs' = runs
    BY <1>0, <1>5, WritersLeaveTools
  <2>2. \A b \in Backups : Outlook(b)
    BY <1>0, <1>5, ToolsOutlook, WritersOutlook
  <2>. QED
    BY <1>0, <1>2, <2>1, <2>2 DEF RunInv
<1>. QED
  BY <1>3, <1>4, <1>5 DEF RunningStep

LEMMA RunningStepsKeepMigrations ==
  ASSUME ToolsInv, RunningStep, FilesKept
  PROVE  MigrationsInv' /\ migrations' \in [Migrations -> MigrationRun]
<1>0. /\ StoreTypeOK /\ ToolTypeOK /\ FileInv /\ MigrationsInv
      /\ migrations \in [Migrations -> MigrationRun]
  BY DEF ToolsInv, ToolTypeOK
<1>1. ASSUME NEW m \in Migrations, OthersStep(m), migrations'[m] = migrations[m]
      PROVE  MigrationInv(m)'
  <2>1. MigrationInv(m) /\ (lock = m => lock' = m /\ committed' = committed)
    BY <1>0, <1>1, FenceHolds DEF MigrationsInv
  <2>. QED
    BY <1>1, <2>1, OthersKeepMigration
<1>2. ASSUME NEW m \in Migrations, OwnMigrationStep(m)
      PROVE  MigrationsInv' /\ migrations' \in [Migrations -> MigrationRun]
  <2>1. MigrationInv(m)' /\ migrations' \in [Migrations -> MigrationRun]
    BY <1>0, <1>2, OwnStepKeepsMigration DEF MigrationsInv
  <2>2. ASSUME NEW x \in Migrations \ {m} PROVE MigrationInv(x)'
    <3>1. migrations'[x] = migrations[x]
      BY <1>0, <1>2, MigrationsLeaveOthers
    <3>2. OthersStep(x)
      BY <1>2, <2>2 DEF OthersStep
    <3>. QED
      BY <1>1, <3>1, <3>2
  <2>. QED
    BY <2>1, <2>2 DEF MigrationsInv
<1>3. CASE (\E b \in Backups : OwnStep(b)) \/ WriterStep \/ WriterCrash \/ UNCHANGED vars
  <2>1. migrations' = migrations
    BY <1>0, <1>3, BackupsLeaveOthers, WritersLeaveTools
  <2>2. \A m \in Migrations : OthersStep(m)
    BY <1>3 DEF OthersStep
  <2>. QED
    BY <1>0, <1>1, <2>1, <2>2 DEF MigrationsInv
<1>. QED
  BY <1>2, <1>3 DEF RunningStep

LEMMA EveryStep ==
  ASSUME [Next]_vars
  PROVE  RunningStep \/ PowerLoss
BY DEF Next, RunningStep, OwnStep, OwnMigrationStep

\* What a running step does to the published names, whatever else it does.
LEMMA RunningStepsKeepFiles ==
  ASSUME ToolsInv, RunningStep, StoreTypeOK'
  PROVE  /\ files' \in [Names -> Published \cup {None}]
         /\ FilesKept /\ FilesInv' /\ OutputInv'
<1>1. StoreTypeOK /\ ToolTypeOK /\ FilesInv /\ OutputInv
  BY DEF ToolsInv
<1>. QED
  BY <1>1, RunningStepsMoveFiles, MovesKeepFiles

LEMMA ToolsStep ==
  ASSUME ToolsInv, [Next]_vars
  PROVE  ToolsInv'
<1>1. StoreTypeOK' /\ FileInv'
  BY StoreStep DEF ToolsInv
<1>2. CASE RunningStep
  <2>1. /\ files' \in [Names -> Published \cup {None}]
        /\ FilesKept /\ FilesInv' /\ OutputInv'
    BY <1>1, <1>2, RunningStepsKeepFiles
  <2>2. RunInv' /\ runs' \in [Backups -> Run]
    BY <1>1, <1>2, <2>1, RunningStepsKeepRuns
  <2>3. MigrationsInv' /\ migrations' \in [Migrations -> MigrationRun]
    BY <1>2, <2>1, RunningStepsKeepMigrations
  <2>4. ToolTypeOK /\ schema \in {"current", "legacy"}
    BY DEF ToolsInv, ToolTypeOK
  <2>5. schema' = schema /\ faults' \in 0..MaxFaults
    BY <1>2, <2>4, BackupsLeaveOthers, MigrationsLeaveOthers, WritersLeaveTools DEF RunningStep
  <2>6. ToolTypeOK'
    BY <2>1, <2>2, <2>3, <2>4, <2>5 DEF ToolTypeOK
  <2>. QED
    BY <1>1, <2>1, <2>2, <2>3, <2>6 DEF ToolsInv
<1>3. CASE PowerLoss
  BY <1>1, <1>3, PowerLossKeeps DEF ToolsInv
<1>. QED
  BY <1>2, <1>3, EveryStep

LEMMA ToolsStart ==
  ASSUME Init
  PROVE  ToolsInv
<1>0. /\ 0 \in Versions /\ LastPage \in Nat \ {0} /\ None # "writer" /\ None \notin Migrations
      /\ 0 \in 0..MaxFaults /\ 0 \in 0..3 /\ "writer" \notin Migrations
  BY FileConstants, ToolConstants DEF Versions
<1>1. StoreTypeOK
  BY <1>0 DEF Init, FileInit, StoreTypeOK, FileTypeOK
<1>2. NoRun \in Run
  BY <1>0, NothingCopied DEF NoRun, Run, RunPlaces
<1>3. NoMigration \in MigrationRun
  BY <1>0, NothingCopied DEF NoMigration, MigrationRun, MigrationPlaces
<1>4. ToolTypeOK
  BY <1>0, <1>2, <1>3 DEF Init, ToolTypeOK
<1>5. FileInv
  BY <1>0 DEF Init, FileInit, FileInv, HasFrames, AllPages
<1>6. RunInv
  <2>1. ASSUME NEW b \in Backups
        PROVE  PlaceInv(b) /\ SourceInv(b) /\ CopyInv(b) /\ LookInv(b) /\ LinkInv(b)
    <3>1. /\ runs[b].at = "idle" /\ runs[b].image = <<>> /\ runs[b].immutable = FALSE
          /\ runs[b].round = 0 /\ runs[b].begun = 0 /\ committed = 0 /\ mainSeen = {}
      BY DEF Init, FileInit, NoRun
    <3>2. PlaceInv(b)
      BY <3>1 DEF PlaceInv, Early, Looking, Late
    <3>. QED
      BY <3>1, <3>2 DEF SourceInv, CopyInv, LookInv, LinkInv, Linked, Looking
  <2>. QED
    BY <2>1 DEF RunInv
<1>7. MigrationsInv
  BY DEF Init, NoMigration, MigrationsInv, MigrationInv, Fenced
<1>8. FilesInv /\ OutputInv
  BY DEF Init, FilesInv, OutputInv, Names
<1>. QED
  BY <1>1, <1>4, <1>5, <1>6, <1>7, <1>8 DEF ToolsInv

---------------------------------------------------------------------------
\* The inductive invariant of the offline tools: what the files of the store mean,
\* what every backup knows of them, what every fence keeps, what is published.
THEOREM ToolsAreSound == Spec => []ToolsInv
<1>1. Init => ToolsInv
  BY ToolsStart
<1>2. ToolsInv /\ [Next]_vars => ToolsInv'
  BY ToolsStep
<1>. QED
  BY <1>1, <1>2, PTL DEF Spec

\* Types of the store, the tools and the published files; and only a store in WAL
\* mode without a log is ever read without locks (backup_cli._sqlite_uri).
THEOREM ToolsTypeCorrect == Spec => []BackupTypeOK
<1>1. ToolsInv => BackupTypeOK
  <2>1. ASSUME ToolsInv PROVE BackupTypeOK
    <3>1. StoreTypeOK /\ ToolTypeOK /\ RunInv
      BY <2>1 DEF ToolsInv
    <3>2. \A b \in Backups : /\ runs[b].image \in Image /\ runs[b].round \in 0..3
                             /\ runs[b].immutable => mode = "wal" /\ runs[b].log = None
      BY <3>1 DEF ToolTypeOK, Run, RunInv, SourceInv
    <3>3. \A n \in Names : files[n] # None => /\ files[n].by \in Backups \cup Migrations
                                              /\ files[n].image \in Image
      BY <3>1 DEF ToolTypeOK, Published
    <3>. QED
      BY <3>1, <3>2, <3>3 DEF BackupTypeOK, StoreTypeOK, ToolTypeOK, MigrationRun
  <2>. QED
    BY <2>1
<1>. QED
  BY <1>1, ToolsAreSound, PTL

\* What stands at a published name is one committed version, whole, that was
\* current while its maker worked (backup_store, _publish_backup), for every number
\* of pages, transactions, tools and faults.
THEOREM PublishedAreSnapshots == Spec => []PublishedIsSnapshot
<1>1. ToolsInv => PublishedIsSnapshot
  BY DEF ToolsInv, FilesInv, PublishedIsSnapshot, Whole
<1>. QED
  BY <1>1, ToolsAreSound, PTL

\* A receipt of a backup is true and stays true: its file stands for good, and no
\* transaction had overtaken it unless the store was read without locks.
THEOREM ReceiptsHold == Spec => []ReceiptHolds
<1>1. ToolsInv => ReceiptHolds
  <2>1. ASSUME ToolsInv, NEW b \in Backups, runs[b].at = "done"
        PROVE  /\ files["backup"] # None /\ files["backup"].by = b
               /\ files["backup"].image = runs[b].image
               /\ runs[b].immutable \/ \A p \in Pages : runs[b].image[p] = files["backup"].upTo
    <3>1. /\ StoreTypeOK /\ ToolTypeOK /\ PlaceInv(b) /\ CopyInv(b) /\ LinkInv(b)
          /\ runs[b].image \in Image /\ mode \in {"rollback", "wal"}
      BY <2>1 DEF ToolsInv, RunInv, ToolTypeOK, Run, StoreTypeOK, FileTypeOK
    <3>2. Linked(runs[b]) /\ Len(runs[b].image) = LastPage
      BY <2>1, <3>1 DEF PlaceInv, Late, Linked
    <3>3. ASSUME ~runs[b].immutable, NEW p \in Pages
          PROVE  runs[b].image[p] = files["backup"].upTo
      <4>1. files["backup"].upTo = runs[b].seen
        BY <2>1, <3>1, <3>2, <3>3 DEF LinkInv
      <4>2. p \in DOMAIN runs[b].image
        BY <3>1, <3>2, <3>3, ImagesAreSequences DEF Pages
      <4>3. runs[b].image # <<>>
        BY <3>2, NothingCopied, FileConstants
      <4>. QED
        BY <3>1, <3>3, <4>1, <4>2, <4>3 DEF CopyInv
    <3>. QED
      BY <3>1, <3>2, <3>3 DEF LinkInv
  <2>. QED
    BY <2>1 DEF ReceiptHolds
<1>. QED
  BY <1>1, ToolsAreSound, PTL

\* A migrated store never stands without the backup it was made from, and it has
\* all that was committed to the old one when it was linked (migrate_legacy_store).
THEOREM OutputsHaveBackups == Spec => []OutputHasBackup
<1>1. ToolsInv => OutputHasBackup
  BY DEF ToolsInv, OutputInv, OutputHasBackup, Whole
<1>. QED
  BY <1>1, ToolsAreSound, PTL

\* What a tool has published is never replaced: a link to a taken name fails, and a
\* power loss takes a name away or leaves it (os.link in both tools).
THEOREM NothingIsOverwritten == Spec => NeverOverwrites
<1>1. ASSUME ToolsInv, [Next]_vars, NEW n \in Names, files[n] # None, files'[n] # None
      PROVE  files'[n].by = files[n].by
  <2>1. CASE RunningStep
    <3>1. StoreTypeOK'
      BY <1>1, StoreStep DEF ToolsInv
    <3>. QED
      BY <1>1, <2>1, <3>1, RunningStepsKeepFiles DEF FilesKept
  <2>2. CASE PowerLoss
    BY <1>1, <2>2, SettledSurvives DEF ToolsInv
  <2>. QED
    BY <1>1, <2>1, <2>2, EveryStep
<1>2. ToolsInv /\ [Next]_vars =>
         [\A n \in Names : files[n] # None /\ files'[n] # None => files'[n].by = files[n].by]_vars
  BY <1>1
<1>. QED
  BY <1>2, ToolsAreSound, PTL DEF Spec, NeverOverwrites
=============================================================================
