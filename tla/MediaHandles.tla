---------------------------- MODULE MediaHandles ----------------------------
(***************************************************************************)
(* PrivateWebMediaHandleStore: private copies of images behind opaque      *)
(* refs, from staging until a create consumes them.  The store lives in    *)
(* one directory that outlasts the process.  An open create request in the *)
(* dashboard's table of pending writes protects the refs it names; every   *)
(* other ref goes away when it is older than 15 minutes, when its client   *)
(* discards it, or when the store is closed.                               *)
(*                                                                         *)
(* A directory entry is durable once the directory was synced after its    *)
(* last change.  A process death keeps what the process wrote; a power     *)
(* loss may undo any change that was not synced.                           *)
(***************************************************************************)
EXTENDS FiniteSets, Naturals

CONSTANTS
    Refs,        \* the refs that token_urlsafe ever generates
    Large,       \* those whose image counts twice in the quota of bytes
    MaxHandles,  \* _MAX_STAGED_HANDLES
    MaxBytes     \* _MAX_STAGED_BYTES

ASSUME HandleConstants ==
    /\ IsFiniteSet(Refs) /\ Large \subseteq Refs
    /\ MaxHandles \in Nat /\ MaxBytes \in Nat

VARIABLES
    cached,     \* the refs whose file is in the directory
    unsynced,   \* the refs whose entry changed since the directory was synced
    temps,      \* the refs whose temporary file is in the directory
    up, closed, \* does the process run, and is its store closed?
    sources,    \* _sources: the refs that can be resolved
    bytes,      \* _staged_bytes
    broken,     \* _cleanup_required
    leftovers,  \* _pending_cleanup_paths
    made, old,  \* refs ever generated, and those past their time to live
    holder,     \* who has the ref: "nobody", a "tab" of the dashboard, a direct
                \* "client", or a "request" that was bound
    row,        \* the refs named by the open create request of the dashboard
    rowWasLive, \* were they all staged and intact when the request was bound?
    started,    \* has the write API started the execution of that request?
    step, job,  \* the create that runs: how far it has come, and its refs
    jobOfRow,   \* is it the execution of the open request?
    retired,    \* history: refs whose retirement was reported as done
    published,  \* history: refs that were handed to a writer
    repeated    \* history: refs that were handed to a writer once more

disk    == <<cached, unsynced, temps>>
memory  == <<up, closed, sources, bytes, broken, leftovers>>
clients == <<holder, row, rowWasLive, started>>
create  == <<step, job, jobOfRow>>
history == <<retired, published, repeated>>
vars == <<disk, memory, made, old, clients, create, history>>

Weight(R) == Cardinality(R) + Cardinality(R \cap Large)
Fits(R) == Cardinality(R) <= MaxHandles /\ Weight(R) <= MaxBytes

Init ==
    /\ cached = {} /\ unsynced = {} /\ temps = {}
    /\ up = FALSE /\ closed = FALSE /\ sources = {} /\ bytes = 0
    /\ broken = FALSE /\ leftovers = {}
    /\ made = {} /\ old = {}
    /\ holder = [r \in Refs |-> "nobody"]
    /\ row = {} /\ rowWasLive = FALSE /\ started = FALSE
    /\ step = "none" /\ job = {} /\ jobOfRow = FALSE
    /\ retired = {} /\ published = {} /\ repeated = {}

-----------------------------------------------------------------------------
(* Opening the store.  The caller holds the lease on the database, so no   *)
(* other process uses the directory.                                       *)

\* Files past their time to live go, unless an open request names them.
RemovedAtStart == (cached \cap old) \ row

\* Variant: the directory is not synced first.
RehydrateWithoutSync ==
    /\ ~up
    /\ LET loaded == cached \ RemovedAtStart IN
        /\ Fits(loaded)
        /\ cached' = loaded
        /\ unsynced' = unsynced \union RemovedAtStart
        /\ temps' = {}
        /\ sources' = loaded
        /\ bytes' = Weight(loaded)
    /\ up' = TRUE /\ closed' = FALSE /\ broken' = FALSE /\ leftovers' = {}
    /\ UNCHANGED <<made, old, clients, create, history>>

\* The directory is synced, then read.  Temporary files are removed too; these
\* removals are not synced.
Rehydrate ==
    /\ ~up
    /\ LET loaded == cached \ RemovedAtStart IN
        /\ Fits(loaded)
        /\ cached' = loaded
        /\ unsynced' = RemovedAtStart
        /\ temps' = {}
        /\ sources' = loaded
        /\ bytes' = Weight(loaded)
    /\ up' = TRUE /\ closed' = FALSE /\ broken' = FALSE /\ leftovers' = {}
    /\ UNCHANGED <<made, old, clients, create, history>>

-----------------------------------------------------------------------------
(* Retiring handles, and the lazy expiry that stage and resolve do first.  *)
(* Each of the next operators is one outcome of a part of an operation.    *)

\* What is left of the count of bytes when R is popped.
BytesWithout(R) == IF Weight(R) <= bytes THEN bytes - Weight(R) ELSE 0

\* Variant: the directory is not synced.
RetiredUnsynced(R) ==
    /\ cached' = cached \ R
    /\ unsynced' = unsynced \union R
    /\ sources' = sources \ R
    /\ bytes' = BytesWithout(R)

\* The files are unlinked, the directory is synced, the handles are dropped.
Retired(R) ==
    /\ cached' = cached \ R
    /\ unsynced' = {}
    /\ sources' = sources \ R
    /\ bytes' = BytesWithout(R)

\* Variant: a failed retirement drops the handles.
ForgetsWhenRetiringFails(R) ==
    \E gone \in SUBSET R :
        /\ cached' = cached \ gone
        /\ unsynced' = unsynced \union gone
        /\ sources' = sources \ R
        /\ bytes' = BytesWithout(R)
        /\ UNCHANGED broken

\* An unlink or the sync failed: some files are gone, all handles stay.
RetiringFails(R) ==
    \E gone \in SUBSET R :
        /\ cached' = cached \ gone
        /\ unsynced' = unsynced \union gone
        /\ broken' = TRUE
        /\ UNCHANGED <<sources, bytes>>

\* Variant: expiry does not look at the open request.
ExpiredUnprotected(preserve) == (sources \cap old) \ preserve

Expired(preserve) == (sources \cap old) \ (preserve \union row)

Ready == up /\ ~closed /\ ~broken

-----------------------------------------------------------------------------
(* stage_media, for the dashboard or for a direct client of the write API. *)

\* The directory after the expiry that preceded the staging of an image.
SyncedByExpiry == IF Expired({}) = {} THEN unsynced ELSE {}

\* The image is written, synced, renamed, and the directory is synced.
Staged(r, kept) ==
    /\ cached' = (cached \ Expired({})) \union {r}
    /\ unsynced' = {}
    /\ sources' = kept \union {r}
    /\ bytes' = Weight(kept) + Weight({r})
    /\ holder' \in {[holder EXCEPT ![r] = who] : who \in {"nobody", "tab", "client"}}
    /\ UNCHANGED <<temps, broken, leftovers>>

\* Writing or renaming failed, and the temporary file cannot be removed.
LeavesTemp(r, kept) ==
    /\ cached' = cached \ Expired({})
    /\ unsynced' = SyncedByExpiry
    /\ sources' = kept
    /\ bytes' = Weight(kept)
    /\ temps' = temps \union {r}
    /\ leftovers' = leftovers \union {r}
    /\ broken' = TRUE
    /\ UNCHANGED holder

\* Writing failed and left nothing, or syncing the new entry failed and the
\* file was taken back.  Then that removal is synced, or is known not to be.
TakenBack(r, kept) ==
    /\ cached' = cached \ Expired({})
    /\ sources' = kept
    /\ bytes' = Weight(kept)
    /\ \/ unsynced' \in {SyncedByExpiry, {}} /\ broken' = broken
       \/ unsynced' = SyncedByExpiry \union {r} /\ broken' = TRUE
    /\ UNCHANGED <<temps, leftovers, holder>>

\* Neither the sync nor the removal succeeded: the file keeps a handle, which
\* nobody was given, and counts.
PublishedBroken(r, kept) ==
    /\ cached' = (cached \ Expired({})) \union {r}
    /\ unsynced' = SyncedByExpiry \union {r}
    /\ sources' = kept \union {r}
    /\ bytes' = Weight(kept) + Weight({r})
    /\ broken' = TRUE
    /\ UNCHANGED <<temps, leftovers, holder>>

HasRoom(r, kept) ==
    /\ Cardinality(kept) < MaxHandles
    /\ Weight(kept) + Weight({r}) <= MaxBytes

StageMedia(r) ==
    /\ Ready
    /\ r \notin made
    /\ LET kept == sources \ Expired({}) IN
        \/ /\ Expired({}) # {}
           /\ RetiringFails(Expired({}))
           /\ UNCHANGED <<temps, leftovers, holder, made>>
        \/ /\ ~HasRoom(r, kept)
           /\ Expired({}) # {}
           /\ Retired(Expired({}))
           /\ UNCHANGED <<temps, broken, leftovers, holder, made>>
        \/ /\ HasRoom(r, kept)
           /\ made' = made \union {r}
           /\ \/ Staged(r, kept)
              \/ LeavesTemp(r, kept)
              \/ TakenBack(r, kept)
              \/ PublishedBroken(r, kept)
    /\ UNCHANGED <<up, closed, old, row, rowWasLive, started, create, history>>

\* 15 minutes have passed since the image was staged.
Age(r) ==
    /\ r \in made \ old
    /\ old' = old \union {r}
    /\ UNCHANGED <<disk, memory, made, clients, create, history>>

\* discard, by the client that holds the refs: the dashboard's page gives
\* back images whose create was not bound, and does not use them again,
\* whatever the answer is.
Discard(R) ==
    /\ up
    /\ \A r \in R : holder[r] \in {"tab", "client"}
    /\ LET live == R \cap sources IN
        \/ /\ live = {}
           /\ retired' = retired \union R
           /\ UNCHANGED <<cached, unsynced, sources, bytes, broken>>
        \/ /\ live # {}
           /\ Retired(live)
           /\ retired' = retired \union R
           /\ UNCHANGED broken
        \/ /\ live # {}
           /\ RetiringFails(live)
           /\ UNCHANGED retired
    /\ holder' = [r \in Refs |->
                    IF r \in R /\ holder[r] = "tab" THEN "nobody" ELSE holder[r]]
    /\ UNCHANGED <<temps, up, closed, leftovers, made, old, row, rowWasLive,
                   started, create, published, repeated>>

-----------------------------------------------------------------------------
(* The create request that the dashboard binds, and the creates.           *)

\* The page binds a request with the images it has staged; from now on they
\* are the request's, not the page's.
BindRequest(R) ==
    /\ up
    /\ row = {} /\ R # {}
    /\ \A r \in R : holder[r] = "tab"
    /\ row' = R
    /\ rowWasLive' = (R \subseteq sources \intersect cached)
    /\ started' = FALSE
    /\ holder' = [r \in Refs |-> IF r \in R THEN "request" ELSE holder[r]]
    /\ UNCHANGED <<disk, memory, made, old, create, history>>

\* Its end was acknowledged, and the row is deleted.
ReleaseRequest ==
    /\ row # {} /\ ~jobOfRow
    /\ row' = {} /\ rowWasLive' = FALSE /\ started' = FALSE
    /\ UNCHANGED <<disk, memory, made, old, holder, create, history>>

\* The write API has started the execution and calls create_with_media; the
\* service runs one create at a time.  A request of the dashboard is executed
\* at most once, a direct client may use new keys as often as it likes.
BeginCreate(R, ofRow) ==
    /\ up /\ ~closed
    /\ step = "none"
    /\ R # {}
    /\ IF ofRow THEN R = row /\ ~started ELSE \A r \in R : holder[r] = "client"
    /\ started' = (started \/ ofRow)
    /\ step' = "begun" /\ job' = R /\ jobOfRow' = ofRow
    /\ UNCHANGED <<disk, memory, made, old, holder, row, rowWasLive, history>>

NoCreate == step' = "none" /\ job' = {} /\ jobOfRow' = FALSE

\* resolve: refs that are asked for are not expired by the way.
Resolve ==
    /\ step = "begun"
    /\ \/ /\ ~Ready
          /\ NoCreate
          /\ UNCHANGED <<cached, unsynced, sources, bytes, broken>>
       \/ /\ Ready /\ Expired(job) # {}
          /\ RetiringFails(Expired(job))
          /\ NoCreate
       \/ /\ Ready
          /\ IF Expired(job) = {}
             THEN UNCHANGED <<cached, unsynced, sources, bytes>>
             ELSE Retired(Expired(job))
          /\ IF job \subseteq sources
             THEN step' = "resolved" /\ UNCHANGED <<job, jobOfRow>>
             ELSE NoCreate
          /\ UNCHANGED broken
    /\ UNCHANGED <<temps, up, closed, leftovers, made, old, clients, history>>

\* _prepare_local_media copies the files; one that is gone ends the create
\* before anything was published.
Prepare ==
    /\ step = "resolved"
    /\ \/ job \subseteq cached /\ step' = "prepared" /\ UNCHANGED <<job, jobOfRow>>
       \/ NoCreate
    /\ UNCHANGED <<disk, memory, made, old, clients, history>>

\* The refs are retired before the writer sees the images; a failure ends the
\* create.
Consume ==
    /\ step = "prepared"
    /\ LET live == job \cap sources IN
        \/ /\ live = {}
           /\ step' = "consumed"
           /\ retired' = retired \union job
           /\ UNCHANGED <<cached, unsynced, sources, bytes, broken, job, jobOfRow>>
        \/ /\ live # {}
           /\ Retired(live)
           /\ step' = "consumed"
           /\ retired' = retired \union job
           /\ UNCHANGED <<broken, job, jobOfRow>>
        \/ /\ live # {}
           /\ RetiringFails(live)
           /\ NoCreate
           /\ UNCHANGED retired
    /\ UNCHANGED <<temps, up, closed, leftovers, made, old, clients,
                   published, repeated>>

\* The orchestrator may call the writer with the copies; the create ends.
Publish ==
    /\ step = "consumed"
    /\ \/ /\ published' = published \union job
          /\ repeated' = repeated \union (published \cap job)
       \/ UNCHANGED <<published, repeated>>
    /\ NoCreate
    /\ UNCHANGED <<disk, memory, made, old, clients, retired>>

-----------------------------------------------------------------------------
(* Closing, and the ways in which the process ends.                        *)

\* Handlers have ended when the store is closed.  What an open request names
\* stays for the next process.
Close ==
    /\ up /\ ~closed /\ step = "none"
    /\ LET orphans == sources \ row IN
        \/ /\ cached' = cached \ orphans
           /\ temps' = temps \ leftovers
           /\ unsynced' = IF orphans \union leftovers # {} \/ broken THEN {} ELSE unsynced
           /\ closed' = TRUE /\ sources' = {} /\ bytes' = 0
           /\ broken' = FALSE /\ leftovers' = {}
        \/ /\ orphans \union leftovers # {} \/ broken
           /\ \E gone \in SUBSET orphans :
                cached' = cached \ gone /\ unsynced' = unsynced \union gone
           /\ temps' \in {temps, temps \ leftovers}
           /\ broken' = TRUE
           /\ UNCHANGED <<closed, sources, bytes, leftovers>>
    /\ UNCHANGED <<up, made, old, clients, create, history>>

Forget ==
    /\ up' = FALSE /\ closed' = FALSE /\ sources' = {} /\ bytes' = 0
    /\ broken' = FALSE /\ leftovers' = {}
    /\ NoCreate
    /\ UNCHANGED <<made, old, clients, history>>

\* The process ends.  A death in the midst of an operation leaves the disk as
\* some failure of that operation does.
Exit ==
    /\ up
    /\ Forget
    /\ UNCHANGED disk

\* The machine loses power: entries that were not synced are there or not.
PowerLoss ==
    /\ \E kept \in SUBSET unsynced : cached' = (cached \ unsynced) \union kept
    /\ unsynced' = {}
    /\ Forget
    /\ UNCHANGED temps

Next ==
    \/ Rehydrate
    \/ \E r \in Refs : StageMedia(r) \/ Age(r)
    \/ \E R \in (SUBSET Refs) \ {{}} : Discard(R) \/ BindRequest(R)
    \/ \E R \in SUBSET Refs : BeginCreate(R, TRUE) \/ BeginCreate(R, FALSE)
    \/ ReleaseRequest
    \/ Resolve \/ Prepare \/ Consume \/ Publish
    \/ Close \/ Exit \/ PowerLoss

HandleSpec == Init /\ [][Next]_vars

-----------------------------------------------------------------------------
(* Properties                                                              *)

\* Types of what is on the disk, in memory and in requests.
HandleTypeOK ==
    /\ cached \subseteq made /\ unsynced \subseteq made /\ temps \subseteq made
    /\ made \subseteq Refs /\ old \subseteq made
    /\ sources \subseteq made /\ leftovers \subseteq made
    /\ up \in BOOLEAN /\ closed \in BOOLEAN /\ broken \in BOOLEAN
    /\ bytes \in Nat
    /\ leftovers # {} => broken
    /\ job = {} <=> step = "none"
    /\ holder \in [Refs -> {"nobody", "tab", "client", "request"}]
    /\ row \subseteq made /\ job \subseteq made
    /\ rowWasLive \in BOOLEAN /\ started \in BOOLEAN /\ jobOfRow \in BOOLEAN
    /\ step \in {"none", "begun", "resolved", "prepared", "consumed"}
    /\ retired \subseteq made /\ published \subseteq made /\ repeated \subseteq made

\* The images of a bound request whose execution has not started stay: through
\* expiry, creates and stagings of other clients, shutdown, process death and
\* power loss.  Whenever a store is open, the request can be resolved.
BoundImagesSurvive ==
    rowWasLive /\ ~started =>
        /\ row \subseteq cached \ unsynced
        /\ up /\ ~closed => row \subseteq sources

\* An image reaches a writer at most once, whatever keys a client uses, and
\* although the deletion of a file can be undone by a power loss.
ImagePublishedOnce == repeated = {}

\* While a store is open and knows of no failed cleanup, the files of the
\* directory are exactly its handles, and its count of bytes is theirs: no
\* file escapes the quota, and none is kept that nobody can delete.  A store
\* that was closed without an error leaves no image behind, whole or in part,
\* that was never bound to a request.
DirectoryIsAccounted ==
    /\ Ready => cached = sources /\ temps = {} /\ bytes = Weight(sources) /\ Fits(sources)
    /\ closed => temps = {} /\ \A r \in cached : holder[r] = "request"

\* What failures and power losses leave behind never makes the next start
\* refuse the directory for its quota.  The exception is a request that was
\* bound to images which had expired: it protects a file that a power loss
\* brings back, and the start is refused until the other files expire.
NextStartSucceeds ==
    ~up /\ (row = {} \/ rowWasLive) => Fits(cached \ RemovedAtStart)
=============================================================================
