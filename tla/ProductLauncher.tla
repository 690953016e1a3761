-------------------------- MODULE ProductLauncher --------------------------
(***************************************************************************)
(* The processes that share one SnapshotStore: product launchers, each of  *)
(* which reads the owner's inventory before it takes the write lease and   *)
(* then serves writes; MarkService.refresh_inventory called from elsewhere;*)
(* and the offline dashboard.  Reads take time, transactions may fail or   *)
(* commit without saying so, processes die, ads change on other devices.   *)
(*                                                                         *)
(* The execution of one write is SafeWrite's, the lease and the close of   *)
(* the write runtime are WriteApi's and MediaRuntime's; here they are the  *)
(* steps that touch the store or the launcher.                             *)
(***************************************************************************)
EXTENDS SnapshotStore

CONSTANTS
    Procs,
    Roles,      \* what each process may be: "launch", "refresh", "offline"
    Known,      \* the ads that are observed and on the platform at first
    Emails,     \* the batch of messages that each process imports
    None,
    MaxFaults,  \* bound: changes by others, missed ads, deaths of processes,
                \* failing transactions
    MaxWrites   \* bound: writes

ASSUME LauncherConstants ==
    /\ None \notin Ads \union Procs /\ IsFiniteSet(Ads) /\ Known \subseteq Ads
    /\ Roles \in [Procs -> SUBSET {"launch", "refresh", "offline"}]
    /\ \A p \in Procs : \A e \in Emails[p] : e.id \in Messages /\ e.body # "none"
    /\ MaxFaults \in Nat /\ MaxWrites \in Nat

VARIABLES
    world,      \* world[a]: the ad on the platform
    db,         \* the SQLite file
    lease,      \* the process that holds the store's write lease, or None
    role,       \* role[p]: what it is
    at,         \* at[p]: how far the process has come
    tracked,    \* tracked[p]: the ids tracked when it started
    attempt,    \* attempt[p]: its row of the journal, 0 if it has none
    seen,       \* seen[p]: what its inventory read has seen so far
    open,       \* open[p]: what it has open: "inventory", "write", "server"
    pending,    \* pending[p]: an unsettled media submit
    write,      \* write[p]: the write in execution
    clients,    \* the processes with a client that is connected to the write
                \* API and has not sent its request
    trouble,    \* trouble[p]: what close() has met with, and "again"
    code,       \* code[p]: how the process, or the call, has ended
    faults, writes,
    broken,     \* history: the processes for which a transaction has failed
    vouched     \* history: ads whose write was reported as confirmed, or
                \* whose media a verifier was sent to look at

reader  == <<tracked, attempt, seen>>
runtime == <<open, pending, write, clients, trouble>>
vars == <<world, db, lease, role, at, reader, runtime, code, faults, writes,
          broken, vouched>>

Idle == [at |-> "idle", kind |-> "none", ad |-> None, media |-> FALSE]
Unseen == [state |-> "none", truth |-> "none"]

-----------------------------------------------------------------------------
(* The platform.  An ad is unborn, then listed, then gone.                 *)

OnPlatform(a) == world[a] = "listed"

StateOf(a) == IF OnPlatform(a) THEN "present" ELSE "absent"

Fault == faults < MaxFaults /\ faults' = faults + 1

\* The owner on another device, or the platform.
ElsewhereChange(a) ==
    /\ Fault
    /\ world[a] # "gone"
    /\ world' = [world EXCEPT ![a] = IF @ = "unborn" THEN "listed" ELSE "gone"]
    /\ UNCHANGED <<db, lease, role, at, reader, runtime, code, writes, broken, vouched>>

-----------------------------------------------------------------------------
(* Transactions.                                                           *)

\* A transaction ends well; or the call raises, and then it was rolled back
\* or, when the failure came with the commit, not.
Commits(p, new) == db' = new /\ UNCHANGED <<broken, faults>>
Raises(p, new) == Fault /\ db' \in {db, new} /\ broken' = broken \union {p}

Go(p, place) == at' = [at EXCEPT ![p] = place]

-----------------------------------------------------------------------------
(* The inventory read and its journal: build_product_launcher up to the    *)
(* append, and refresh_inventory.                                          *)

Begun == Len(db.attempts) + 1

\* What the read has gathered is gone with its function.
ForgetRead(p) ==
    /\ tracked' = [tracked EXCEPT ![p] = {}]
    /\ seen' = [seen EXCEPT ![p] = [a \in Ads |-> Unseen]]
    /\ UNCHANGED attempt

\* tracked_ad_ids, a transaction of its own before the attempt is begun.
\* The offline dashboard only opens the store.
OpenStore(p) ==
    /\ at[p] = "off"
    /\ \/ /\ tracked' = [tracked EXCEPT ![p] = TrackedAds(db)]
          /\ Go(p, IF role[p] = "offline" THEN "synced" ELSE "opened")
          /\ UNCHANGED <<code, faults>>
       \/ Fault /\ Go(p, "ended") /\ code' = [code EXCEPT ![p] = "error"] /\ UNCHANGED tracked
    /\ UNCHANGED <<world, db, lease, role, attempt, seen, runtime, writes,
                   broken, vouched>>

BeginAttempt(p) ==
    /\ at[p] = "opened"
    /\ \/ /\ Commits(p, BeginSyncAttempt(db, tracked[p]))
          /\ attempt' = [attempt EXCEPT ![p] = Begun]
          /\ Go(p, IF role[p] = "launch" THEN "begun" ELSE "reading")
          /\ UNCHANGED code
       \/ /\ Raises(p, BeginSyncAttempt(db, tracked[p]))
          /\ Go(p, "ended") /\ code' = [code EXCEPT ![p] = "error"]
          /\ UNCHANGED attempt
    /\ UNCHANGED <<world, lease, role, tracked, seen, runtime, writes, vouched>>

StartInventory(p) ==
    /\ at[p] = "begun"
    /\ \/ open' = [open EXCEPT ![p] = {"inventory"}] /\ Go(p, "reading") /\ UNCHANGED faults
       \/ Fault /\ UNCHANGED open /\ Go(p, "failing")
    /\ UNCHANGED <<world, db, lease, role, reader, pending, write, clients, trouble, code,
                   writes, broken, vouched>>

\* The list is read page by page.  An ad that moves to a page that was read
\* before is not seen at all.
Look(p, a) ==
    /\ at[p] = "reading" /\ seen[p][a] = Unseen
    /\ \/ seen' = [seen EXCEPT ![p][a] = [state |-> StateOf(a), truth |-> world[a]]]
          /\ UNCHANGED faults
       \/ /\ OnPlatform(a) /\ Fault
          /\ seen' = [seen EXCEPT ![p][a] = [state |-> "absent", truth |-> "missed"]]
    /\ UNCHANGED <<world, db, lease, role, at, tracked, attempt, runtime, code, writes,
                   broken, vouched>>

\* The read raises or is inconsistent: fail_sync_attempt follows.
ReadFails(p) ==
    /\ at[p] = "reading"
    /\ Fault /\ Go(p, "failing")
    /\ ForgetRead(p)
    /\ UNCHANGED <<world, db, lease, role, runtime, code, writes, broken, vouched>>

\* It ends with a failed result, which append_inventory_result puts in the
\* journal: refresh_inventory returns it, a launcher gives up.
ReadIsFailure(p) ==
    /\ at[p] = "reading"
    /\ Fault /\ UNCHANGED broken
    /\ IsOpenAttempt(db, attempt[p]) /\ db' = FailSyncAttempt(db, attempt[p])
    /\ IF role[p] = "refresh"
       THEN Go(p, "ended") /\ code' = [code EXCEPT ![p] = "ok"]
       ELSE Go(p, "aborting") /\ UNCHANGED code
    /\ ForgetRead(p)
    /\ UNCHANGED <<world, lease, role, runtime, writes, vouched>>

\* Variant: the tracked ids are read when they are used.
InventoryOfNow(p) == AppendInventory(db, attempt[p], seen[p], TrackedAds(db))

Inventory(p) == AppendInventory(db, attempt[p], seen[p], tracked[p])

AppendResult(p) ==
    /\ at[p] = "reading" /\ \A a \in Ads : seen[p][a] # Unseen
    /\ IsOpenAttempt(db, attempt[p])
    /\ \/ Commits(p, Inventory(p)) /\ Go(p, "synced")
       \/ Raises(p, Inventory(p)) /\ Go(p, "failing")
    /\ ForgetRead(p)
    /\ UNCHANGED <<world, lease, role, runtime, code, writes, vouched>>

\* fail_sync_attempt.  It refuses an attempt that has its verdict, and may
\* itself fail; the exception that led here goes on in every case.
FailAttempt(p) ==
    /\ at[p] = "failing"
    /\ \/ IsOpenAttempt(db, attempt[p]) /\ Commits(p, FailSyncAttempt(db, attempt[p]))
       \/ ~IsOpenAttempt(db, attempt[p]) /\ UNCHANGED <<db, broken, faults>>
       \/ IsOpenAttempt(db, attempt[p]) /\ Raises(p, FailSyncAttempt(db, attempt[p]))
    /\ Go(p, "aborting")
    /\ UNCHANGED <<world, lease, role, reader, runtime, code, writes, vouched>>

Release(p) == lease' = IF lease = p THEN None ELSE lease

\* A process that ends leaves nothing but the database.
End(p, how) ==
    /\ Go(p, "ended") /\ code' = [code EXCEPT ![p] = how]
    /\ Release(p)
    /\ open' = [open EXCEPT ![p] = {}]
    /\ pending' = [pending EXCEPT ![p] = FALSE]
    /\ write' = [write EXCEPT ![p] = Idle]
    /\ clients' = clients \ {p}
    /\ trouble' = [trouble EXCEPT ![p] = {}]

\* What was built is closed as far as it can be, and the build raises.  A
\* write runtime that was started joins its handlers.
Abort(p) ==
    /\ at[p] = "aborting"
    /\ p \notin clients
    /\ End(p, "error")
    /\ UNCHANGED <<world, db, role, reader, faults, writes, broken, vouched>>

\* refresh_inventory returns.
ReturnRefresh(p) ==
    /\ at[p] = "synced" /\ role[p] = "refresh"
    /\ Go(p, "ended") /\ code' = [code EXCEPT ![p] = "ok"]
    /\ UNCHANGED <<world, db, lease, role, reader, runtime, faults, writes,
                   broken, vouched>>

-----------------------------------------------------------------------------
(* The rest of the start.                                                  *)

\* Variant: the messages that agree are stored, although others do not.
ImportWhatAgrees(p) ==
    /\ at[p] = "synced" /\ role[p] # "refresh"
    /\ LET agreeing == {e \in Emails[p] : db.events[e.id] \in {"none", e.body}} IN
       Commits(p, AppendEvents(db, agreeing))
    /\ Go(p, IF ~BatchAgrees(db, Emails[p]) THEN "aborting"
             ELSE IF role[p] = "launch" THEN "imported" ELSE "writable")
    /\ UNCHANGED <<world, lease, role, reader, runtime, code, writes, vouched>>

\* All files are parsed before the events are appended.
ImportEmails(p) ==
    /\ at[p] = "synced" /\ role[p] # "refresh"
    /\ \/ /\ BatchAgrees(db, Emails[p])
          /\ \/ Commits(p, AppendEvents(db, Emails[p]))
                /\ Go(p, IF role[p] = "launch" THEN "imported" ELSE "writable")
             \/ Raises(p, AppendEvents(db, Emails[p])) /\ Go(p, "aborting")
       \/ /\ IF BatchAgrees(db, Emails[p]) THEN Fault ELSE UNCHANGED faults
          /\ UNCHANGED <<db, broken>> /\ Go(p, "aborting")
    /\ UNCHANGED <<world, lease, role, reader, runtime, code, writes, vouched>>

\* The write runtime takes the lease, or refuses to start.
BuildWrites(p) ==
    /\ at[p] = "imported"
    /\ \/ /\ lease = None /\ lease' = p
          /\ open' = [open EXCEPT ![p] = @ \union {"write"}]
          /\ Go(p, "writable") /\ UNCHANGED faults
       \/ /\ IF lease = None THEN Fault ELSE UNCHANGED faults
          /\ UNCHANGED <<lease, open>> /\ Go(p, "aborting")
    /\ UNCHANGED <<world, db, role, reader, pending, write, clients, trouble, code, writes,
                   broken, vouched>>

\* The write runtime starts, the dashboard gets its socket.
BuildDashboard(p) ==
    /\ at[p] = "writable"
    /\ \/ open' = [open EXCEPT ![p] = @ \union {"server"}] /\ Go(p, "serving") /\ UNCHANGED faults
       \/ Fault /\ UNCHANGED open /\ Go(p, "aborting")
    /\ UNCHANGED <<world, db, lease, role, reader, pending, write, clients, trouble, code,
                   writes, broken, vouched>>

-----------------------------------------------------------------------------
(* Serving.  One write at a time is executed, under the lease.             *)

\* The write API accepts a client, from its start to the end of its serve
\* loop, which close() stops first.
Connects(p) ==
    /\ "write" \in open[p]
    /\ at[p] \in {"writable", "serving", "stopping"} /\ "again" \notin trouble[p]
    /\ clients' = clients \union {p}
    /\ UNCHANGED <<world, db, lease, role, at, reader, open, pending, write, trouble, code,
                   faults, writes, broken, vouched>>

\* It goes away, or sends something that is not executed.
HangsUp(p) ==
    /\ p \in clients
    /\ clients' = clients \ {p}
    /\ UNCHANGED <<world, db, lease, role, at, reader, open, pending, write, trouble, code,
                   faults, writes, broken, vouched>>

\* A connected client requests a write, which is submitted; a media submit may
\* stay unsettled, and then keeps every further write out.  Nobody has the
\* token before main has printed it.
Submit(p, kind, a, media) ==
    /\ p \in clients /\ clients' \in {clients, clients \ {p}}
    /\ "write" \in open[p] /\ at[p] \notin {"writable", "aborting"}
    /\ write[p] = Idle /\ ~pending[p]
    /\ writes < MaxWrites /\ writes' = writes + 1
    /\ CASE kind = "create" -> world[a] = "unborn" /\ world' = [world EXCEPT ![a] = "listed"]
         [] kind = "change" -> OnPlatform(a) /\ UNCHANGED world
         [] kind = "delete" -> OnPlatform(a) /\ world' = [world EXCEPT ![a] = "gone"]
    /\ media => kind = "create"
    /\ \E stays \in {FALSE, media} : pending' = [pending EXCEPT ![p] = stays]
    /\ write' = [write EXCEPT ![p] = [at |-> "submitted", kind |-> kind, ad |-> a,
                                     media |-> media]]
    /\ UNCHANGED <<db, lease, role, at, reader, open, trouble, code, faults,
                   broken, vouched>>

\* What the readback of a confirmed write has seen.
Expected(kind) == IF kind = "delete" THEN "absent" ELSE "present"

EndWrite(p) == write' = [write EXCEPT ![p] = Idle]

\* The readback confirms the write, or leaves it ambiguous: such a receipt
\* stores no observation.
ReadBack(p) ==
    /\ write[p].at = "submitted"
    /\ \/ /\ StateOf(write[p].ad) = Expected(write[p].kind)
          /\ write' = [write EXCEPT ![p].at =
                         IF write[p].media THEN "confirmed" ELSE "verified"]
       \/ EndWrite(p)
    /\ UNCHANGED <<world, db, lease, role, at, reader, open, pending, clients, trouble,
                   code, faults, writes, broken, vouched>>

Vouch(p) == vouched' = vouched \union {write[p].ad}

\* Variant: the verifier looks first.
CheckpointLater(p) ==
    /\ write[p].at = "confirmed"
    /\ write' = [write EXCEPT ![p].at = "verified"] /\ Vouch(p)
    /\ UNCHANGED <<world, db, lease, role, at, reader, open, pending, clients, trouble,
                   code, faults, writes, broken>>

\* A confirmed create with media is checkpointed before its images are
\* verified.
Checkpoint(p) ==
    /\ write[p].at = "confirmed"
    /\ \/ /\ Commits(p, AppendCheckpoint(db, write[p].ad))
          /\ write' = [write EXCEPT ![p].at = "verified"] /\ Vouch(p)
       \/ /\ Raises(p, AppendCheckpoint(db, write[p].ad))
          /\ EndWrite(p) /\ UNCHANGED vouched
    /\ UNCHANGED <<world, lease, role, at, reader, open, pending, clients, trouble, code,
                   writes>>

\* The receipt is stored, then the answer is given.
Record(p) ==
    LET truth == IF write[p].kind = "delete" THEN "gone" ELSE "listed"
        new == AppendReceipt(db, write[p].ad, Expected(write[p].kind), truth) IN
    /\ write[p].at = "verified"
    /\ \/ Commits(p, new) /\ Vouch(p)
       \/ Raises(p, new) /\ UNCHANGED vouched
    /\ EndWrite(p)
    /\ UNCHANGED <<world, lease, role, at, reader, open, pending, clients, trouble, code,
                   writes>>

-----------------------------------------------------------------------------
(* The end: main of launcher.py and of offline_launcher.py.                *)

\* An interrupt, or serve_forever raises.
StopServing(p) ==
    /\ at[p] = "serving"
    /\ Go(p, "stopping")
    /\ \/ code' = [code EXCEPT ![p] = "ok"] /\ UNCHANGED faults
       \/ code' = [code EXCEPT ![p] = "error"] /\ Fault
    /\ UNCHANGED <<world, db, lease, role, reader, runtime, writes,
                   broken, vouched>>

\* close(): what was closed before stays closed, what failed is tried again.
CloseServer(p) ==
    /\ at[p] = "stopping"
    /\ \/ /\ open' = [open EXCEPT ![p] = @ \ {"server"}]
          /\ UNCHANGED <<trouble, faults>>
       \/ /\ "server" \in open[p] /\ Fault
          /\ trouble' = [trouble EXCEPT ![p] = @ \union {"failed"}]
          /\ UNCHANGED open
    /\ Go(p, IF role[p] = "launch" THEN "stopping write" ELSE "stopped")
    /\ UNCHANGED <<world, db, lease, role, reader, pending, write, clients, code,
                   writes, broken, vouched>>

\* Variant: a running handler is not waited for.
CloseWriteAtOnce(p) ==
    /\ at[p] = "stopping write"
    /\ open' = [open EXCEPT ![p] = @ \ {"write"}] /\ Release(p)
    /\ Go(p, "stopping inventory")
    /\ UNCHANGED <<world, db, role, reader, pending, write, clients, trouble, code, faults,
                   writes, broken, vouched>>

\* The write runtime cannot stop its serve loop or close its socket: it gives
\* up before it joins its handlers.
CloseWriteFails(p) ==
    /\ at[p] = "stopping write"
    /\ "write" \in open[p] /\ "again" \notin trouble[p] /\ Fault
    /\ trouble' = [trouble EXCEPT ![p] = @ \union {"failed"}]
    /\ Go(p, "stopping inventory")
    /\ UNCHANGED <<world, db, lease, role, reader, open, pending, write, clients, code,
                   writes, broken, vouched>>

\* Handlers are joined without a deadline: a write in execution ends, but a
\* client may never send its request.
HandlersEnded(p) == write[p] = Idle /\ p \notin clients

\* The write runtime joins its handlers first (MediaRuntime).
CloseWrite(p) ==
    /\ at[p] = "stopping write" /\ HandlersEnded(p)
    /\ \/ /\ ~pending[p]
          /\ open' = [open EXCEPT ![p] = @ \ {"write"}] /\ Release(p)
          /\ UNCHANGED <<trouble, faults>>
       \/ /\ pending[p]
          /\ trouble' = [trouble EXCEPT ![p] = @ \union {"unknown"}]
          /\ UNCHANGED <<open, lease, faults>>
       \/ /\ "write" \in open[p] /\ ~pending[p] /\ Fault
          /\ trouble' = [trouble EXCEPT ![p] = @ \union {"failed"}]
          /\ UNCHANGED <<open, lease>>
    /\ Go(p, "stopping inventory")
    /\ UNCHANGED <<world, db, role, reader, pending, write, clients, code, writes, broken,
                   vouched>>

\* An inventory runtime that failed to close is not closed again.
CloseInventory(p) ==
    /\ at[p] = "stopping inventory"
    /\ \/ /\ "stuck" \notin trouble[p]
          /\ open' = [open EXCEPT ![p] = @ \ {"inventory"}]
          /\ UNCHANGED <<trouble, faults>>
       \/ /\ "inventory" \in open[p]
          /\ IF "stuck" \in trouble[p] THEN UNCHANGED faults ELSE Fault
          /\ trouble' = [trouble EXCEPT ![p] = @ \union {"stuck", "failed"}]
          /\ UNCHANGED open
    /\ Go(p, "stopped")
    /\ UNCHANGED <<world, db, lease, role, reader, pending, write, clients, code, writes,
                   broken, vouched>>

\* Variant: reconciliation is tried until it succeeds.
ReconcileForever(p) ==
    /\ at[p] = "stopped" /\ "unknown" \in trouble[p]
    /\ Go(p, "stopping")
    /\ pending' \in {pending, [pending EXCEPT ![p] = FALSE]}
    /\ trouble' = [trouble EXCEPT ![p] = (@ \ {"unknown", "failed"}) \union {"again"}]
    /\ UNCHANGED <<world, db, lease, role, reader, open, write, clients, code,
                   faults, writes, broken, vouched>>

\* PrivateWebSubmitUnknownError goes before any other failure of close():
\* main reconciles and closes once more.
Reconcile(p) ==
    /\ at[p] = "stopped" /\ "unknown" \in trouble[p] /\ "again" \notin trouble[p]
    /\ Go(p, "stopping")
    /\ pending' = [pending EXCEPT ![p] = FALSE]
    /\ trouble' = [trouble EXCEPT ![p] = (@ \ {"unknown", "failed"}) \union {"again"}]
    /\ UNCHANGED <<world, db, lease, role, reader, open, write, clients, code,
                   faults, writes, broken, vouched>>

\* Variant: a second close() that fails is not noticed.
ExitCodeOfFirstClose(p) ==
    IF trouble[p] \intersect {"unknown", "failed"} # {} /\ "again" \notin trouble[p]
    THEN "error" ELSE code[p]

\* Any failure that is left makes the exit code 2.
ExitCode(p) ==
    IF trouble[p] \intersect {"unknown", "failed"} # {} THEN "error" ELSE code[p]

\* The interpreter waits for the handlers that close() has not joined.
Exit(p) ==
    /\ at[p] = "stopped" /\ HandlersEnded(p)
    /\ End(p, ExitCode(p))
    /\ UNCHANGED <<world, db, role, reader, faults, writes, broken, vouched>>

\* The process is killed; a refresh dies with its caller.
Crash(p) ==
    /\ at[p] \notin {"off", "ended"}
    /\ Fault
    /\ End(p, "killed")
    /\ ForgetRead(p)
    /\ UNCHANGED <<world, db, role, writes, broken, vouched>>

-----------------------------------------------------------------------------

\* A store that knows some of the ads.
Init ==
    /\ world = [a \in Ads |-> IF a \in Known THEN "listed" ELSE "unborn"]
    /\ db = [EmptyDatabase EXCEPT !.rows = {Observation(a, "present", 0, "listed") : a \in Known}]
    /\ lease = None
    /\ role \in {r \in [Procs -> UNION {Roles[p] : p \in Procs}] : \A p \in Procs : r[p] \in Roles[p]}
    /\ at = [p \in Procs |-> "off"]
    /\ tracked = [p \in Procs |-> {}]
    /\ attempt = [p \in Procs |-> 0]
    /\ seen = [p \in Procs |-> [a \in Ads |-> Unseen]]
    /\ open = [p \in Procs |-> {}]
    /\ pending = [p \in Procs |-> FALSE]
    /\ write = [p \in Procs |-> Idle]
    /\ clients = {}
    /\ trouble = [p \in Procs |-> {}]
    /\ code = [p \in Procs |-> "none"]
    /\ faults = 0 /\ writes = 0
    /\ broken = {} /\ vouched = {}

Start(p) ==
    \/ BeginAttempt(p) \/ StartInventory(p) \/ (\E a \in Ads : Look(p, a))
    \/ ReadFails(p) \/ ReadIsFailure(p) \/ AppendResult(p) \/ FailAttempt(p) \/ Abort(p)
    \/ ReturnRefresh(p) \/ ImportEmails(p) \/ BuildWrites(p) \/ BuildDashboard(p)

Serve(p) == ReadBack(p) \/ Checkpoint(p) \/ Record(p)

Stop(p) ==
    \/ CloseServer(p) \/ CloseWrite(p) \/ CloseInventory(p)
    \/ Reconcile(p) \/ Exit(p)

Next ==
    \/ \E p \in Procs :
          \/ OpenStore(p) \/ Start(p) \/ Connects(p) \/ HangsUp(p) \/ Serve(p)
          \/ StopServing(p) \/ CloseWriteFails(p) \/ Stop(p) \/ Crash(p)
          \/ \E kind \in {"create", "change", "delete"}, a \in Ads, media \in BOOLEAN :
                Submit(p, kind, a, media)
    \/ \E a \in Ads : ElsewhereChange(a)

LauncherSpec == Init /\ [][Next]_vars

\* A process that was started, or was told to stop, goes on, and so does the
\* handler of a write: their calls have timeouts, except for the join of the
\* handlers, which CloseWrite, Exit and Abort wait for.  Nothing is assumed of
\* the clients, and nothing has to fail.
LauncherFairSpec ==
    /\ LauncherSpec
    /\ \A p \in Procs : WF_vars(Start(p)) /\ WF_vars(Serve(p)) /\ WF_vars(Stop(p))

-----------------------------------------------------------------------------
(* Properties                                                              *)

Places == {"off", "opened", "begun", "reading", "failing", "aborting", "synced",
           "imported", "writable", "serving", "stopping", "stopping write",
           "stopping inventory", "stopped", "ended"}

\* The type of the state; the lease belongs to the process that has a write
\* runtime open.
LauncherTypeOK ==
    /\ world \in [Ads -> {"unborn", "listed", "gone"}]
    /\ lease \in Procs \union {None}
    /\ at \in [Procs -> Places]
    /\ \A p \in Procs :
          /\ tracked[p] \subseteq Ads
          /\ attempt[p] \in 0 .. Len(db.attempts)
          /\ open[p] \subseteq {"inventory", "write", "server"}
          /\ lease = p <=> "write" \in open[p]
          /\ write[p].at \in {"idle", "submitted", "confirmed", "verified"}
          /\ trouble[p] \subseteq {"again", "failed", "unknown", "stuck"}
    /\ clients \subseteq Procs
    /\ \A r \in db.rows : r.ad \in Ads /\ r.state \in Observed
    /\ code \in [Procs -> {"none", "ok", "error", "killed"}]

\* An ad is stored as absent only if it was on the platform once and is gone,
\* or if the list moved while it was read: an ad that another process has
\* created and stored meanwhile is not declared absent by an older reading.
NoFalseAbsence ==
    \A r \in db.rows : r.state = "absent" => r.truth \in {"gone", "missed"}

\* The journal and the observations tell the same story: a successful attempt
\* has stored what it counted and one row for each ad it had to look for, any
\* other attempt has stored nothing.  An attempt gets its verdict before its
\* process goes on, unless the process dies or the database refuses.
JournalIsTrue ==
    /\ \A i \in DOMAIN db.attempts :
          LET rows == {r \in db.rows : r.attempt = i}
              present == {r \in rows : r.state # "absent"} IN
          IF db.attempts[i].outcome \in {"success_empty", "success_nonempty"}
          THEN /\ db.attempts[i].count = Cardinality(present)
               /\ db.attempts[i].outcome = "success_empty" <=> present = {}
               /\ db.attempts[i].due \subseteq {r.ad : r \in rows}
          ELSE rows = {}
    /\ \A p \in Procs :
          (/\ attempt[p] # 0 /\ p \notin broken /\ code[p] # "killed"
           /\ at[p] \notin {"begun", "reading", "failing"})
          => db.attempts[attempt[p]].outcome # "in_progress"

\* A write that was reported as confirmed, or whose images were sent to be
\* verified, is in the store, whatever happened to its process since.
ConfirmedWriteIsRecorded ==
    /\ vouched \subseteq db.checkpoints \union db.receipts
    /\ db.receipts \subseteq {r.ad : r \in {q \in db.rows : q.attempt = 0}}

\* The messages of a batch are stored together or not at all.
ImportsAreWhole ==
    \A m \in Messages : db.events[m] # "none" =>
        \E p \in Procs : /\ \E e \in Emails[p] : e.id = m
                         /\ \A e \in Emails[p] : db.events[e.id] = e.body

\* A launcher serves only what it has synced and imported, and writes only
\* under the lease, to the end of the last write; no message is in the store
\* without the rest of its batch.
ServesWhatItSynced ==
    /\ ImportsAreWhole
    /\ \A p \in Procs :
          /\ at[p] = "serving" /\ role[p] = "launch" =>
                /\ db.attempts[attempt[p]].outcome \in {"success_empty", "success_nonempty"}
                /\ open[p] = {"inventory", "write", "server"}
                /\ \A e \in Emails[p] : db.events[e.id] = e.body
          /\ write[p] # Idle => lease = p

\* Exit code 0 of a launcher says that nothing was left open and that no
\* media submit is unsettled.
CleanExit ==
    [][\A p \in Procs :
         role[p] = "launch" /\ at[p] = "stopped" /\ code'[p] = "ok" /\ at'[p] = "ended" =>
            open[p] = {} /\ ~pending[p] /\ lease # p]_vars

\* The verdict of an attempt is final, also when its transaction reported a
\* failure although it had been committed.
VerdictIsFinal ==
    [][\A i \in DOMAIN db.attempts :
         db.attempts[i].outcome # "in_progress" => db'.attempts[i] = db.attempts[i]]_vars

\* A process that starts comes to serve or ends; one that stops ends, with
\* unsettled submits and failing cleanups too.  Only a client that never
\* sends its request can hold it.
EveryPhaseEnds ==
    \A p \in Procs :
        \/ <>[](p \in clients)
        \/ at[p] \notin {"off", "serving", "ended"} ~> at[p] \in {"serving", "ended"}
=============================================================================
