# TLA+ models of mark-api

This directory holds TLA+ modules for the parts of mark-api in which state,
order, failure and concurrency decide whether the program is correct; TLC
configurations that check them on small instances; and TLAPS proofs of the most
important properties for every size. Paths below are relative to the root of
the repository; `mark_api/x.py` stands for `src/src/mark_api/x.py`.
`PROJECT.json` gives, for every definition that models code, the source lines
it stands for.

mark-api lets a local agent or a browser dashboard read and write the owner's
classified ads on a platform that has no API. A write is dangerous: the platform
gives no transaction and no idempotency, a click cannot be taken back, and its
effect can be seen only later or not at all. Nearly everything that is hard in
this code serves one rule: *never act twice, and never claim to know what is
not known.*

At this commit the paths that reach the platform are denied by an admission
check that always raises (`_legacy_admission`,
`_require_private_web_cdp_authority`, the one of the media verifier, and
`_require_private_web_authorization` in the launcher). The models describe the code behind that check, which the tests
exercise by patching it.

## 1. The system

### Components, state, operations

| Component | Source | State it keeps | Operations |
| --- | --- | --- | --- |
| Write API server | `write_api.py` | store lease (flock), serve loop, socket, retained flag, handler threads and their count, `create_lock`, `execution_lock` | construct, serve, shutdown, `server_close`, release retained lease; per request: authenticate, validate, claim, begin, call the service, complete, answer, stage/discard media |
| Idempotency ledger | `storage.py`, table `write_api_requests` | per key: fingerprint, owner, `execution_started_at`, answer | `claim_write_api_request`, `begin_write_api_execution`, `complete_write_api_request`, each one SQLite transaction |
| Safe-write orchestrator | `orchestrator.py` | locals of one operation | `create`, `set_state`, `update_content`, `delete` |
| Private-Web writers, pages | `private_web.py`, `private_web_cdp.py` | the browser tab, whether something was clicked | open, check, submit, classify errors as attempted or not |
| Private-Web media runtime | `private_web_runtime.py`, `private_web_cdp_media.py` | pending page, fence, unsettled flags, `operation_lock`, what `close()` has achieved | media create, all other writes behind the fence, `reconcile_media_submit`, `close` |
| Media handle store | `private_web_media.py` | one directory of images, the refs of those that can be resolved, their bytes, whether a cleanup failed | start and rehydrate, stage, expire, resolve, discard, consume, close |
| Media persistence verifier | `private_web_media_verify.py` | worker process, deadlines, the last complete observation | start a worker, look again and again, report, terminate the worker |
| Dashboard server and client | `dashboard.py` | pending write rows, browser tabs with `sessionStorage`/`localStorage`, two-phase acknowledgements | proxy a write, list pending rows, replay, acknowledge, generate drafts |
| Snapshot store | `storage.py` | ads, snapshots, receipts, inbound events, sync attempts, classifications | `append_inventory_result`, receipts with their snapshot, `append_inbound_events`, sync journal |
| MarkService | `application.py`, `ports.py` | none | `refresh_inventory`, `refresh_reactions`, the write methods |
| Product launcher | `launcher.py`, `offline_launcher.py`, `__main__.py` | resources opened so far, what `close()` met with | sync, import, start in order, close in order, reconcile and close again, exit code |
| Email import | `email_import*.py` | none | batch-atomic import |
| Classification, generation, queries, analytics | `classification_cli.py`, `generation*.py`, `query.py`, `analytics.py` | none | one transaction, one provider call, pure functions |
| Adapters | `adapters/`, `prosellers.py` | HTTP sessions | paged inventory read, parsing |
| Backup and migration tools | `backup_cli.py`, `legacy_migration.py` | locals of one run; files at the published names | `backup_store`, `migrate_legacy_store` |
| Smoke scripts | `*_smoke.py` | none | operator scripts |

### How they interact

    client / dashboard --HTTP, Idempotency-Key--> write API handler thread
        handler --claim, begin, complete--> ledger (SQLite)
        handler --call under execution_lock / create_lock--> MarkService
            MarkService --> SafeWriteOrchestrator --reads--> adapters / browser tab
                                                --one attempt--> writer page
            media create --> PrivateWebMediaCreateRuntime --> the same browser tab
    launcher --owns, starts, closes--> dashboard, write runtime, inventory
    write runtime --close()--> HTTP server, then media and content runtimes, then lease
    launchers, refreshes, imports --transactions--> one SQLite file <--reads-- backup, migration
    dashboard's pending row --names refs--> media handle store, which keeps their files

The ledger knows a request as a fingerprint, the service knows it as an
operation, the browser knows it as a tab. The three hold different parts of the
truth when a process dies, and a lost answer is repaired from the ledger alone.

### Behaviours that are hard

* Handler threads, the serve loop, the closing thread and the owner of the
  runtime interleave; several processes compete for one store.
* Process death between any two commits; rows of older versions without owner
  or start time.
* Clients that retry, that retry with another body, that stall or vanish.
* Forms whose effect is late, lost, or mixed with changes made elsewhere.
* Inventory reads that span pages and can miss an ad.
* One browser tab for everything; a submit that has not settled must survive
  errors, other writes and shutdown.
* Shutdown in several steps, each of which can fail and be repeated.
* A page that moves between the look at a control and the click at its place.
* Files whose directory entries a power loss may undo, and cleanups that fail.
* Several processes on one store, none of which sees the others' reads; tools
  that copy the store while it is written.

### What makes each part correct

* Ledger and write API: no key reaches the platform twice; all answers under a
  key agree; a started execution is never forgotten; the lease covers every
  handler; writes do not overlap; shutdown ends.
* Orchestrator: `precondition_failed` means untouched; `confirmed` means the
  goal was really reached; a confirmed create names a new id, and the
  requested content was seen there (`held`).
* Media runtime: an unsettled submit keeps its page and files, keeps every other
  write out, forbids the next create, and keeps the lease.
* Dashboard: a pending row is cleared only after its outcome was shown, and is
  not kept for ever.
* Writers: one attempt per operation, on what was checked, told truthfully.
* Handles: the images of a bound request survive, no image is published twice,
  no file escapes the quota, no leftover blocks the next start.
* Store and journal: an inventory never un-lists an ad it could not have seen,
  every attempt ends with one verdict, batches are atomic.
* Launcher: it serves only what it has synced, and its exit code is true.
* Tools: what is published is one whole version, is never replaced, and outlasts
  the receipt that names it.

`PROJECT.json` lists the individual hazards at their lines, with the properties
that catch them, or the reason why none does.

## 2. Modules and how they correspond to the code

| Module | Models | Extends / uses |
| --- | --- | --- |
| `WriteOnce` | abstract promise of the API per idempotency key | - |
| `WriteRequestTable` | the ledger's three transactions | - |
| `WriteApi` | server instances, lease, handlers, dispatch | `WriteRequestTable`, refines `WriteOnce` |
| `WriteApiProofs` | theorems about `WriteApi` | `WriteApi` |
| `SafeWrite` | one platform operation after another, and the platform | - |
| `SafeWriteProofs` | theorems about `SafeWrite` | `SafeWrite` |
| `MediaRuntime` | media creates, fence, reconciliation, shutdown of the product | - |
| `MediaVerifier` | the worker that looks for published images, and the thread that waits for it | - |
| `MediaCreate` | the runtime with a verification inside each confirmed create | `MediaRuntime`, `MediaVerifier` |
| `MediaProofs` | theorems about `MediaRuntime`, its composition in `MediaCreate`, and the verdicts | `MediaCreate` |
| `DashboardRecovery` | browser tabs, the dashboard's write proxy, pending rows and their acknowledgement | what `WriteOnce` promises, inlined |
| `DashboardRecoveryProofs` | theorems about `DashboardRecovery` | `DashboardRecovery` |
| `MediaHandles` | staged images on a disk that may lose what was not synced | - |
| `MediaHandlesProofs` | theorems about `MediaHandles` | `MediaHandles` |
| `WriteAttempt` | abstract promise of a writer: one attempt, a true outcome | - |
| `WebPage` | the four writers call by call in the browser's tab | refines `WriteAttempt` |
| `WebPageProofs` | theorems about `WebPage`, and that it implements `WriteAttempt` | `WebPage` |
| `SnapshotStore` | the store's transactions on observations, journal, receipts, events | - |
| `ProductLauncher` | the processes on one store: launchers, refreshes, the offline dashboard | `SnapshotStore` |
| `ProductLauncherProofs` | theorems about the store and the processes on it | `ProductLauncher` |
| `SqliteFile` | the files of the store under SQLite, and an ordinary writer (external) | - |
| `StoreBackup` | `backup_store`, call by call | `SqliteFile` |
| `LegacyMigration` | `migrate_legacy_store`, and both tools with the writer | `StoreBackup` |
| `LegacyMigrationProofs` | theorems about the files, the tools and what they publish | `LegacyMigration` |
| `MCWriteApi`, `MCSafeWrite`, `MCMediaRuntime`, `MCMediaCreate`, `MCDashboardRecovery`, `MCMediaHandles`, `MCWebPage`, `MCProductLauncher`, `MCLegacyMigration` | symmetry sets and constant functions for TLC | the module of that name |

Some modules contain, just before a definition, a definition marked *Variant*:
the same operation with a plausible mistake (a guard dropped, an order swapped).
No specification uses a variant. Each is substituted for the definition after it
to make sure that the property it belongs to can fail.

### WriteRequestTable

One row per key with `state`, `request` (fingerprint and operation), `owner`
(`claim_owner`), `started` (`execution_started_at` is set) and `answer`. Each
operator is one `BEGIN IMMEDIATE` transaction of `storage.py`. Rows of older
versions have no owner and no start (`LegacyRow`): they may have been executed,
so they are never taken over. A row that is claimed and not started may be taken
over by another owner; a started row never.

### WriteApi

| State | In the code |
| --- | --- |
| `lease` | the flock taken by `create_write_api_server` |
| `life`, `loop`, `socketClosed`, `retained` | the server instance, `serve_forever`, `_socket_close_succeeded`, `_store_lock_release_deferred` |
| `execLock`, `createLock` | the optional `execution_lock` of the product and the server's `create_lock` |
| `pc`, `server`, `key`, `request`, `result` | a handler thread and its locals |
| `calls`, `replies` | history: calls of the service, answers sent about an attempt |

A handler goes `idle -> connected -> received -> claimed -> entered -> begun ->
calling -> settling -> answering -> done -> idle`; each arrow is the code
between two points where another thread or a crash can be observed. The service
is external here: it returns an answer, raises (stored as `ExecutionError`), or
escapes with a `BaseException`, which leaves the row started for ever.
`Crash` is the death of a process: threads, locks and lease are gone, the
ledger keeps what was committed. `ReleaseIfQuiesced` is
`_release_store_lock_if_quiesced`, which loop end, socket close, handler end and
explicit release all call last.

`SharedLock` selects the composition: TRUE is the private-Web product (one
`execution_lock` for core and media writes, lease retained until the runtime
gives it back), FALSE the server on its own.

### WriteOnce

What a client may rely on: a key is bound to the first request, the platform is
asked at most once for it, its answer is final, and only that answer is told, and
only for that request. `WriteApi` implements it with
`bound <- request of the row`, `attempted <- keys with a call`,
`answer <- answer of the row`. Crashes, takeovers and locks are stutters.

### SafeWrite

The platform is `ads` (id to state, title, text), the ids `used` so far, and
`inflight` forms which were submitted and take effect later (`Land`) or never
(`Lose`). `ForeignChange` is anything the owner does elsewhere. The program side
is the sequence of reads and the one attempt of `SafeWriteOrchestrator`, with
every early return: `ReadBefore`, `ConfirmBefore` (create), `Open`, `Submit`,
and after it `ReadAfter`, `ReadFirstAfter`/`ConfirmDelete`,
`MatchFirstInventory`/`MatchInventories`/`ReadContent`. `Submit` covers what a
page may report: nothing was clicked, it was clicked and fails or succeeds.
`Abandon` is an end without a receipt (an exception other than the expected
ones, for example a receipt whose clock ran backwards).

`held` records whether the goal of an operation was true at any moment since it
began; `receipts` carries it along, so that `ConfirmedWasTrue` compares what the
program says with what was the case.

### MediaRuntime

Handlers run whole operations under `operation_lock` (`_SerializedWriteService`);
what a handler executes shows when it enters: a media create (`Open`) or any other
write (`StartCore`). A page object is
`unused`, `open` or `closed`; `unsettled` are the pages whose
`_media_submit_unsettled` is set; `pending` is `_pending_page`; `fenced` is
`_submit_unknown_fenced`. `tab` and `owner` describe the only page target of the
browser: what it shows and whose form it still holds. `Finish` and `Challenge` are
the platform's side of a submitted form.

A handler begins when a client connects (`Connect`) and waits for its request
(`Request`) or its end (`Hangup`), for ever if the client is silent. `close()` is
begun by `StartClose` and continued by `StopLoop`, `CloseSocket`, `Join` and
`Release`; a second call goes on where the first one stopped. The first two may
raise. `Join` is the rest of `server_close()`: the handlers are no daemons and
`block_on_close` is set (`private_web_runtime.py:1421-1422`), so it has no way out
but their end.

### DashboardRecovery

| State | In the code |
| --- | --- |
| `row` | the row of `dashboard_pending_writes` whose `resource_key` is the ad, with `acknowledged` |
| `entry`, `blocked` | per tab: `pendingWrites`, and `pendingRecoveryBlocked` or a page that has not loaded |
| `task` | an event handler of a page and what it awaits: a write, an acknowledgement after an answer (`settling`) or after an error (`clearing`), a load, the list of rows, the burial of an acknowledged row |
| `thread` | a handler thread of the dashboard server, with the task that waits for it or `None` when nobody does |
| `backend`, `class` | what the write API holds for a key, and whether it refuses its request |
| `used`, `told` | keys made; history: keys whose end was shown |

JavaScript runs one handler at a time, so a step of a task is the code between
two awaits; several tasks of one tab interleave, since a reload or a second click
does not wait for the first. A thread goes `received -> claimed -> waiting`, and
any of its answers can be lost (`Reply`, `Disconnect`) while its work is done.
`Acknowledge` marks the row the first time and deletes it the second time, and
only for the key it names. After the answer `done` the page reloads, finds the
marked row and buries it; an acknowledgement whose reply is lost leaves the
request bound. `CloseTab` and `Crash` forget what a page knew; the rows remain.

`BodyTimeouts` says whether the read of a request's body can time out. Without
it a refusal is a property of the request (`class`), so an error answer to the
first click holds for a second click too.

### MediaHandles

The directory is `cached` (the images), `temps` (half-written ones) and
`unsynced` (entries that changed since the directory was synced, which a power
loss may undo in either direction). `sources`, `bytes`, `broken`, `leftovers`
are the store's fields. `row` is the open create request of the dashboard whose
refs protect their files; `step` is the one create that runs, from `resolve`
through the preparation and consumption to the publication. Staging is taken
apart at the calls that can fail: the file, the sync, the cleanup of what a
failed sync leaves. `old` marks refs past their time to live; expiry is lazy, as
in the code, on the next staging or start.

### MediaVerifier and MediaCreate

`now` counts from the call of the verifier; `worker` is where its process is.
A look is `listing`, then `images`; `mark` is `attempt_started` during a look and
the end of the pause in `sleeping`. `last` holds `last_complete_mismatch_seconds`
as long as `terminal_observation` is a mismatch, and nothing otherwise: the code
never uses one without the other. `BeginLook` and `Continue` are the top and the
bottom of the loop with all its ways out. What a read shows is open, so the
gallery may fill up, change or fail between any two of them. The process may die
anywhere; the thread that waits takes a result only from one that has ended, and
terminates it at the deadline even if its result is in the pipe. `MediaCreate`
starts a verification where the reads have confirmed a create, and lets its
handler go on, still under `operation_lock`, when it has returned.

### WriteAttempt and WebPage

`WebPage` has the tab (`doc`, and `coming` for navigations that were ordered and
have not arrived), the platform (`ads`, `inflight`) and the page object (`snap`,
`expect`, `aim`, the pager's fingerprints). A click goes to coordinates that were
asked for one call earlier, so it hits whatever is there when it arrives
(`steady`, `astray`). Each action is one DevTools call with the Python code up to
the next. `WriteAttempt` is what the orchestrator relies on; the refinement maps
an operation's submitting clicks and its outcome. `SafeWrite` abstracts the same
writers to the outcomes they may report.

Abstracted: a document that has not finished loading counts as not arrived; the
list always offers a next page, in a circle; reply matching by id is exact; the
page's flags against a second submit are left out, as each writer calls `submit`
once. Failures of preconditions are `not_attempted`, all other early failures
`unknown`, as the writers classify them.

### SnapshotStore and ProductLauncher

A database is a record, each method of the store a function on it with a
predicate that says when it is possible. A process has a role, a place `at`, its
row of the journal, and what its inventory read has seen ad by ad; between two of
its steps other processes commit. `Submit`, `ReadBack`, `Checkpoint`, `Record` are
one write as far as the store sees it. A transaction may fail without effect, or
fail after it was committed. `trouble` is what `close()` met with: a failed
close, an unsettled submit, a cleanup that will not succeed any more. `clients` are
the write runtimes with a client that has connected and not sent a request yet:
`CloseWrite`, and the end of the process, wait for it as for a write that is
executed (`HandlersEnded`), unless the serve loop or the socket fails to close
first (`CloseWriteFails`).

A read may raise (`ReadFails`) or return a failure (`ReadIsFailure`): the second is
put in the journal by `append_inventory_result`, a refresh returns it and ends
normally, a launcher gives up. `ServesWhatItSynced` says of messages too that a
batch is stored whole or not at all (`ImportsAreWhole`), whichever process imported
it and whether it came to serve.

Observations are not ordered by `observed_at`; the rows of an inventory are
stamped after all its pages were read (`adapters/management.py:304`). The exit
code is a matter of the launcher only; `main()` calls for reconciliation after any
failure of the second close.

### SqliteFile, StoreBackup and LegacyMigration

`SqliteFile` is SQLite as the tools rely on it, with transactions that write
every page: `main` says which version each page is of, `journal` what a rollback
journal restores, `wal` the last committed frames of the log with its shared
memory. In rollback mode a commit is the deletion of the journal after the pages
were written one by one; in WAL mode it is the appended frames, which a
checkpoint copies page by page and the last close drops. `mainSeen` and `logSeen`
are the runs for which mtime and ctime are as they noted them.

`StoreBackup` follows `backup_store`: look at the source, note the log, look at
the target, connect (without locks when the store is quiet and in WAL mode),
attest, copy page by page with a restart when another connection commits, compare
with the main file, then three looks of three calls each around the sync of the
image, the link and the sync of the directory. `LegacyMigration` holds the write
lock from the inspection to the last sync, publishes the backup, then the new
store. A published file remembers who made it and which versions were current
when its maker began and when it was linked.

A receipt of a backup that was read without locks may be given although a
transaction overtook it before the link: the third look reads the main file
before the log (`backup_cli.py:758-759`), and a log made after the second look may
be copied and dropped between the two. The file is still one whole version;
`ReceiptHolds` excludes this case from its last conjunct, and the operator's guide
(`docs/offline-backup.md`) asks to stop all users of the store first.

### Assumptions of the models

* `DashboardRecovery`: keys are unique and not guessed; the write API behaves as
  `WriteOnce` and its queue and ledger are one step each.

* `SafeWrite`: a read is one step; at most `MaxMisses` reads of one operation
  miss an ad; operations do not overlap, which `WriteApi` shows for creates on
  its own and for all writes in the product. The first click of a delete only
  opens the confirmation and is not an attempt.
* `MediaRuntime`: nobody but the program and the submitted form navigates the
  tab; the browser has one page target, which the CDP client requires; reads of
  the owner inventory do not use the tab, the content read does.
* `WriteApi`: SQLite transactions are atomic and durable, flock is exclusive and
  dropped at process death.
* `MediaVerifier`: no time passes between the end of a look and the decision that
  follows it; a fetch may end after the deadline, a timeout comes at the deadline
  or later.
* `MediaHandles`: `fsync` of a file or directory makes durable what precedes it;
  refs are never generated twice; images have one of two sizes.
* `WebPage`: one operation at a time (`MediaRuntime`); an ad is on one page of the
  list or on none; nobody opens a deletion dialog by hand.
* `ProductLauncher`: the writes of a process are one at a time (`WriteApi`); the
  lease follows the write runtime.
* `SqliteFile`: every write moves mtime or ctime of the file it is made to; a torn
  image need not fail the integrity check; transactions are durable.

## 3. Runs

| Run | Instance | Checks | Shows |
| --- | --- | --- | --- |
| `write_api_product` | 2 servers, 2 handlers, 2 keys, create and pause, shared lock | `AtMostOnce`, `ServiceCallsAreSerial`, `PromiseKept` | no interleaving of crash, restart, takeover and retry calls the service twice for a key or answers it twice; the API keeps the promise of `WriteOnce` |
| `write_api_drain` | 1 server, 2 handlers, 2 keys, no shared lock, no symmetry | `LeaseCoversHandlers`, `StoppedServerDrains`, `ClosedServerFreesLease` | the generic server: the lease covers the handlers; handlers that queue behind a slow create end too, and the lease is given back; for the lock that the product shares see `media_runtime` |
| `safe_write` | 2 ids, 2 titles, 1 text, 2 operations, 1 foreign change, 1 missed ad | `NotAttemptedMeansUntouched`, `ConfirmedWasTrue`, `ConfirmedDeleteIsFinal`, `ConfirmedCreateNamesNewAd` | what each outcome of a receipt promises, with effects of the first operation landing in the second |
| `media_runtime` (`MediaCreate`) | 2 handlers, 2 pages, 4 units of time, 2 looks, no symmetry | `NoWriteBesideUnsettled`, `LeaseIsReleasedLast`, `VerdictIsSound`, `NoRetryAfterUnknown`, `CloseReturns` | the fence, the pending page and the order of shutdown; verdicts on the images; `close()` joins threads that need the lock which it takes later, and one that waits for a worker, and still returns unless a client is silent for ever |
| `media_reconcile` | 1 handler, 1 page | `PendingIsReconcilable` (violated) | finding 1 below |
| `dashboard_recovery` | 2 tabs, 2 tasks, 2 threads, 2 keys, 1 loss | `OpenAttemptIsFenced`, `AcknowledgedWasTold`, `ToldStaysOver` | recovery over lost answers, closed tabs and crashes never frees an ad whose outcome is open |
| `dashboard_release` | 1 tab, 1 task, 2 threads, 2 keys, 2 losses, no symmetry | `RowIsReleased` | no lost answer or acknowledgement leaves an answered row for ever |
| `dashboard_timeout` | 1 tab, 2 tasks, 2 threads, 2 keys, no loss, body timeouts | `OneOpenAttempt` (violated) | finding 2 below |
| `media_handles` | 3 refs, one of them large, room for two | `BoundImagesSurvive`, `ImagePublishedOnce`, `DirectoryIsAccounted`, `NextStartSucceeds` | files, fields and requests agree over failed cleanups, deaths and power losses |
| `web_page` | 2 operations, 3 ads on 2 pages and on none, 1 change elsewhere, no symmetry | `SubmitsWhatItChecked`, `SavesNoStaleText`, `DoneWasTrue`, `MakesOneAttempt`, `OperationEnds` | one attempt, on what was checked, with a true outcome, and an end, in a tab that moves |
| `product_store` | 2 processes in any role, 2 ads, 2 messages, 1 write, 1 fault, no symmetry | `NoFalseAbsence`, `JournalIsTrue`, `ConfirmedWriteIsRecorded`, `ServesWhatItSynced`, `CleanExit`, `VerdictIsFinal`, `EveryPhaseEnds` | what the journal, the observations, the receipts and the exit code say is true; imports are whole; every phase ends unless a client is silent for ever |
| `offline_tools` | 2 pages, 1 transaction, 2 runs of 2 backups and 2 migrations, 2 faults, no symmetry | `PublishedIsSnapshot`, `ReceiptHolds`, `OutputHasBackup`, `NeverOverwrites`, `ToolsEnd` | published files are whole, kept and durable beside a writer in either journal mode |

### Bounds, and why they are enough

* Two server instances make a takeover possible, in which one crashes or closes
  and the next finds its rows. A third instance would meet the same rows: the
  ledger does not know how often it changed hands, and a takeover needs only the
  row and the new owner. Two handlers are the smallest number that can race for a
  key, a lock or the end of a server; the proofs remove this bound.
* Two requests on a key (a create and a write of another kind) distinguish
  repeat, conflict and the two locks. Two answers distinguish stored outcomes.
* Two operations in `SafeWrite` let a form of the first land during the second;
  one foreign change and one missed ad are what the code defends against (with
  two misses in one operation, the double read of an inventory can agree on a
  wrong view, which the code accepts). The proofs keep the bound on misses and
  remove the others.
* Two media pages let one submit be pending while another waits; two handlers let
  one hold the lock while the other queues. The proofs remove these bounds.
* Four units of time, one of them the way back and one the reserve, and two looks:
  a difference and then a failure, a timeout, the end of the attempts with and
  without time left. The proof removes these bounds.
* Two tabs or two tasks are needed to repeat, reload or acknowledge beside each
  other; two keys are a request and the one that may replace it. One loss
  (`MaxLosses`) is a lost answer, a closed tab, a failed load or a crash; the
  liveness run allows two, so that the repair of a loss can be lost as well. The
  proofs remove these bounds.
* Three refs fill the store with two and leave one to be refused; the large one
  makes the two limits differ. Deaths and power losses are unbounded there. The
  proofs hold for any number of images, any quota and any sizes.
* Two operations in the tab let a late navigation or click of the first meet the
  second; two list pages make the pager turn, three allowed pages let it go round;
  an ad on no page makes it search in vain. The proofs remove these bounds.
* Two processes are a launcher and whatever runs beside it; an ad that is known
  and one that is created make "absent" true for one reader and false for the
  other. One fault (`MaxFaults`) is a change elsewhere, a missed ad, a death, a
  transaction or a call that fails; pairs of faults take TLC too long. The proofs remove these bounds too.
* Two pages are needed for a torn copy, one transaction for a restart, a stale
  receipt and a half-written file. Two runs contend for a name or for the write
  lock. Two faults let a power loss follow a run that failed after its link, or a
  writer that died in a commit. The proofs remove these bounds.
* Clients, forms and close calls have no other bound: every counter that could
  grow is absent from the state or limited by the constants above.

Deadlock checking is off everywhere: servers may be closed, operations may be
used up, and everyone may then rest.

### Fairness

* `WriteApi`: weak fairness of each handler thread from the moment it has its
  request. Locks are released on every way out, service calls end because the
  reads and browser steps below have deadlines, body reads have a deadline of
  their own. Nothing is assumed of clients that are connected and silent, of the
  thread that closes, or of crashes. `StoppedServerDrains` needs no strong
  fairness for the lock: only finitely many handlers compete once no new request
  is accepted.
* `WebPage`: weak fairness of the program's own step: each call has a socket
  timeout, and each wait a monotonic deadline. Navigations, renderings and people
  may stay away for ever.
* `ProductLauncher`: weak fairness of a process that starts, of the handler of its
  write, and of one that stops: their calls have deadlines, all but the join of the
  handlers, which is a guard of the step. Nobody has to start a process or stop it,
  no call has to fail, and nothing is assumed of clients: `EveryPhaseEnds` exempts a
  process with a client that is silent for ever.
* `LegacyMigration`: weak fairness of the steps of tools and of a commit that has
  begun, taken together: a tool has no loop but the copy, which starts again only
  after a commit. A store that is written for ever is outside the bound.
* `MediaCreate`: weak fairness of handlers that have a request, of a `close()` that
  was begun and of the clock. `Join` waits until no handler is left, and nothing
  is assumed of clients that are connected: `CloseReturns` exempts one that is
  silent for ever. A `close()` that raises has returned too. Nothing forces the platform to finish a form, or the verification worker
  to do anything: the thread that waits for it has a deadline.
* `DashboardRecovery`: weak fairness of tasks, threads and executions, and strong
  fairness of a user who reloads and repeats what is bound. The last is an
  assumption about a person: the code repeats nothing by itself, on purpose, and
  the property says that patience is enough. An execution that never gets an
  answer is exempt, its row stays.

## 4. Proofs

TLAPS checks these for every value of the constants. Every safety and action
property of the runs that pass, each module's type invariant, and the two
refinements are theorems.

| Theorem | States |
| --- | --- |
| `WriteApiProofs!Invariance` | `Spec => []IInv` |
| `TypeCorrect`, `CalledAtMostOnce`, `LeaseIsExclusive`, `CallsAreSerial`, `AnswersAgree`, `BarrierHolds` | the type of the state; the safety properties of the runs of `WriteApi`; and that a retained lease is held (`RetainedLeaseIsHeld`), waiting claims stay unstarted (`QueuedClaimsStayUnstarted`), all answers under a key agree (`OneAnswerPerKey`), and a started row never changes hands (`BarrierIsPermanent`) |
| `Refinement` | `Spec => PromiseKept`: `WriteApi` implements `WriteOnce` |
| `SafeWriteProofs!SafeWriteTypeCorrect`, `DenialsAreTrue` | the type of the state; a receipt `precondition_failed` is true and stays true |
| `ConfirmationsAreTrue`, `ConfirmedDeletesAreFinal`, `ConfirmedCreatesAreNew` | under `MaxMisses <= 1`: `ConfirmedWasTrue`, `ConfirmedDeleteIsFinal`, `ConfirmedCreateNamesNewAd` |
| `MediaProofs!MediaInvariance` | `MediaSpec => []MediaInv` |
| `MediaTypeCorrect`, `UnsettledPagesAreKept`, `FilesAreKept`, `UnsettledSubmitIsAlone`, `LeaseGoesLast`, `NoBlindRetry` | the type of the state; the safety properties of the run `media_runtime`; that unsettled pages are kept (`UnsettledPageIsKept`), and that image files are not given up while their form runs (`FilesOutliveSubmit`) |
| `ComposesRuntime`, `ComposedRuntimeIsSafe` | `CreateSpec => MediaSpec`, and with it what is proved of `MediaRuntime` |
| `VerdictsAreSound`, `VerifierTypeCorrect` | `VerdictIsSound` for all times and numbers of attempts; the type of the verifier |
| `DashboardRecoveryProofs!RecoveryTypeCorrect` | the type of tabs, tasks, threads and rows |
| `OpenAttemptsAreFenced`, `AcknowledgedOnlyWhatWasTold`, `OneAttemptIsOpen`, `ToldIsFinal` | under `~BodyTimeouts`: `OpenAttemptIsFenced`, `AcknowledgedWasTold`, `OneOpenAttempt`, `ToldStaysOver` |
| `MediaHandlesProofs!HandleTypeCorrect`, `BoundImagesStay`, `ImagesArePublishedOnce`, `DirectoriesAreAccounted`, `NextStartsSucceed` | the type of the state and the safety properties of the run `media_handles` |
| `WebPageProofs!OneAttempt` | `PageSpec => MakesOneAttempt`: `WebPage` implements `WriteAttempt` |
| `PageTypeCorrect`, `SubmitsAreTheOnesAskedFor`, `NoStaleTextIsSaved`, `DoneIsTrue` | the type of the state and the safety properties of the run `web_page` |
| `ProductLauncherProofs!LauncherTypeCorrect`, `AbsencesAreTrue`, `TheJournalIsTrue`, `ConfirmedWritesAreRecorded`, `ServesOnlyWhatItSynced`, `VerdictsAreFinal`, `ExitsAreClean` | the type of the state; the invariants and action properties of the run `product_store` |
| `LegacyMigrationProofs!ToolsAreSound` | `Spec => []ToolsInv` |
| `ToolsTypeCorrect`, `PublishedAreSnapshots`, `ReceiptsHold`, `OutputsHaveBackups`, `NothingIsOverwritten` | the type of the state; the safety properties of the run `offline_tools` |

### Assumptions

The modules' named ASSUMEs: special values (`None`, `NoLook`) differ from ordinary
ones, and records with different fields from each other where that decides which
control or row is meant (`NoneIsNoControl`); subsets are subsets; bounds are
naturals, and those that must be positive are (`LastPage`, `MaxPages`,
`MaxAttempts`); refs and ads are finite sets, so that they can be counted; a
migration is not a backup. TLC evaluates them in every run.

Two groups of theorems have a hypothesis about behaviour, not data:

* `~BodyTimeouts`: with it a click that is refused because its body came late
  acknowledges the row of the one that runs. The run `dashboard_timeout` shows
  that `OneOpenAttempt` fails then, so the hypothesis cannot be dropped.
* `MaxMisses <= 1`: two reads are made before and after a create so that one of
  them may miss an ad. If both miss the same one, an old ad counts as new; the
  code has no answer to that, and no run claims it has.

### Along which argument

**WriteApi.** `AtMostOnce` is not inductive: it must be known that a handler
which is about to call holds a row that is started in its name, and that no
other handler can have it. `IInv` therefore says what the ledger looks like
(`RowsWellFormed`), that whoever works holds the lease (`LeaseInv`), what a
handler knows at each place (`HandlerInv`), that no two handlers work under one
claim (`ClaimsAreExclusive`: between two servers because of the lease, within one
because a claim is granted only to a key without a claim of that owner), what the locks
mean (`LocksInv`), and that a call counted is a row that no claim will ever be
granted again (`CallsInv`). The lemmas `ClaimEffect`, `BeginEffect` and
`CompleteEffect` describe each transaction once; the step lemmas treat one
conjunct each, action by action. The refinement shows that `Claim` binds or
stutters, `Call` attempts, `Complete` settles, `Answer` replies, and everything
else leaves the promise's variables alone.

**SafeWrite.** `NotAttemptedMeansUntouched` needs that the operation which now
runs has submitted nothing before its `Submit` step, and that numbers of
operations are not reused (`SubmitInv`, `CountInv`). The confirmations need what
the reads are evidence of (`EvidenceInv`): an id is never given twice (`UsedInv`),
the goal of the running operation does not hold unnoticed (`RunInv`), and an ad
that was there when a create began, and that neither read before the attempt has
shown, is gone (`ReadsInv`), since one of the two was complete. So what appears
afterwards is new. A confirmed delete is final because what is gone stays gone
under forms that land late and under changes made elsewhere (`DeletedIsGone`).

**MediaRuntime.** The properties hold only together. `MediaInv` ties the thread
inside `operation_lock` to its page and to the tab (`KeptInv`, `TabInv`), the
fence to the outcomes nobody has seen (`FenceInv`), and the shutdown to the order
of its steps (`CloseInv`). That the private files outlive the submit, for
example, rests on the claim that the management page in the tab can only be the
end of the one submit that anybody waits for. There is one lemma per action, with
one step per conjunct.

**MediaCreate.** A verdict is sound because a result is in the pipe only when the
loop is over, and because the duration that is kept is that of the last look that
ended (`VerdictInv`). Both ends of the loop have a lemma (`BeginLookKeeps`,
`ContinueKeeps`). The composition adds a wait and no step of the runtime.

**DashboardRecovery.** The idea is that being *over* (answered for good, or
refused every time) is stable, and that every message which can lead to an
acknowledgement was born when its key was over. `RecoveryInv` says so of the
answers on their way (`AnswersAreTrue`), of what was shown (`ToldIsOver`) and of
acknowledgements on their way or about to be sent (`AcksAreTold`); then a row whose
key is not over can be neither marked nor deleted, and it stands from the claim on
(`Fenced`). `Linked` is needed for messages at all: a thread answers one task,
which still waits, with the same key.

**MediaHandles.** `NextStartSucceeds` is about a directory after a power loss, so
the quota must hold for every file that could come back: `FitInv` counts the
handles together with the files that a power loss may return and the next start
would keep. `StoreInv` relates handles, files, temporary files and remembered
failures, `HolderInv` says that a ref goes from nobody to a tab, from there to a
request and never to a second one, and `JobInv` that a create which has consumed
its images holds the only copies.

**WebPage.** `OneAttempt` needs only that nothing was submitted before the click
on the submit control (`AttemptInv`). The other properties need everything the
driver knows at a step (`Knows`): that the document is of its own operation
(`FreshInv`), that the control it aims at is the right one (`StepInv`), that no
dialog is open but its own (`DialogInv`), that a text in the editor is one that
the ad has had or a person typed (`TextInv`), and that what the document shows of
the goal has held (`HeldInv`). Clicks on a document that has moved are excluded
by `astray`, as the properties say.

**ProductLauncher.** `NoFalseAbsence` spans processes that do not see each other.
What carries it is that databases only grow (`Grows`: rows, receipts, verdicts and
the ids an attempt asks for stay), so that what one process knows survives the
transactions of all others; the lemma for each transaction shows it once. On top
of that `ProcessInv` says, place by place, which attempt is whose (`AttemptInv`),
what a read has seen (`SightInv`), which verdict it reached (`VerdictInv`), what
a launcher has opened, synced and leased (`OpenInv`, `SyncedInv`, `LeaseInv`), and
that `close()` remembers what it left open (`CloseInv`); `StoreInv` ties each
attempt to its rows. `ImportsAreWhole` is inductive because a batch is stored only
beside messages it agrees with (`StepEvents`, `ImportStep`); the waiting clients
matter for liveness alone, and enter the invariant with their type.

**LegacyMigration.** `PublishedIsSnapshot` is not inductive at several levels.
`FileInv` says what SQLite's files mean: unless a journal is left behind, every
page a reader gets is of the latest version, whichever of main file and log it
comes from. `RunInv` says what a backup knows: as long as it recognises mtime and
ctime of the file into which the next transaction goes, no transaction has
overtaken its copy (`SourceInv`, `CopyInv`, `LookInv`), so that the looks around
the link prove what they are meant to (`LinkInv`). `MigrationsInv` says that a
migration between its fence and its end has the lock, and nothing is committed.
`FilesInv` and `OutputInv` carry over to what is published. Every step is either
one of a running machine, in which published files only appear and become durable
(`RunningStep`, `FilesMove`), or a power loss, which spares what is durable.

### Only model-checked

* Liveness (`ClosedServerFreesLease`, `StoppedServerDrains`, `CloseReturns`,
  `RowIsReleased`, `OperationEnds`, `EveryPhaseEnds`, `ToolsEnd`): fairness and
  ENABLED are out of the prover's reach.
* The two properties that are violated (`PendingIsReconcilable` and, with body
  timeouts, `OneOpenAttempt`): a counterexample is the result.

The strengthening invariants named here were checked by TLC on the
instances of the runs before they were proved. No run repeats them: they imply the
runs' properties, and the proofs hold for more.

## 5. Findings

1. **A pending media submit can lose its tab** (`media_reconcile`,
   `mark_api/orchestrator.py:363`). After a submit that ended UNKNOWN the page is
   kept as pending, but `create` goes on with its reads. If the inventories show
   exactly one new ad, the content read opens that ad's editor in the only tab.
   `reconcile_media_submit` then sees neither the form nor the management page
   and raises; all writes stay fenced and `close()` keeps refusing until a person
   navigates the tab. `private_web_runtime.py:1053-1055` says that a pending
   submit "remains explicitly reconcilable". Safety is not affected.
2. **An error of the first click releases the second** (`dashboard_timeout`,
   `mark_api/dashboard.py:1243`). An error 4xx of a first attempt counts as proof
   that nothing was executed, and the page acknowledges its key. If the read of
   that attempt's body timed out (`dashboard.py:2515`) while a second click with
   the same key is being executed, the acknowledgement marks the row of the
   running request; the next load deletes it, and a new key starts on the same
   ad. `docs/DECISIONS.md:408` says that a differing key cannot execute an open
   resource anew. Without body timeouts the fence holds (`dashboard_recovery`).

## 6. Not modelled, and plan

Not modelled on purpose: HTTP parsing and authentication, DOM probing and the
CDP wire protocol, image formats, HTML and JSON parsing, rendering, and the
operator's smoke scripts. They are pure, or I/O that appears in the models as a
nondeterministic result. Process death with a pending media submit is in neither
model alone: the fence for other keys is lost with the process, by design.

A client that connects and sends no request head keeps its handler, and with it
`server_close()` and the lease, since the read deadline of `write_api.py:548`
covers bodies only, although `docs/DECISIONS.md:294` says that stalling clients
cannot do that. `close()` of the runtime and the end of the launcher wait for it in
the same way. `ClosedServerFreesLease`, `StoppedServerDrains`, `CloseReturns` and
`EveryPhaseEnds` exempt it, and nothing else.

Two pairs of looks of `backup_store` are one step each, since nothing is done
between them that depends on the order: the identity of the source and the absence
of a journal (`Inspect`), and the attestation of the log and the baseline that the
copy starts from (`Attest`).

Not modelled so far, and why:

* Descriptions (`generation*.py`), classifications, queries and analytics: pure
  functions or single transactions; candidates for bounded checks of operators
  against reference definitions.
* Adapters: parsing; the paged read of the inventory is part of `SafeWrite` and
  `ProductLauncher` as what a read may miss.
* In `dashboard.py`: staging from the browser, drafts, analytics and rendering.

Next: descriptions and classifications, with their transactions; a process death
inside the composition of media runtime and dashboard; and an abstract store that
`SnapshotStore`, `SqliteFile` and the tools both implement, so that "one whole
version" is stated once. The safety properties of all runs are proved; what remains
model-checked is named in section 4.
