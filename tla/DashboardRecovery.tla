------------------------- MODULE DashboardRecovery -------------------------
(***************************************************************************)
(* Writes from the dashboard: browser tabs, the proxy that stores a pending*)
(* row before it forwards a request to the write API, and the two-phase    *)
(* acknowledgement that removes the row when a tab knows the outcome.      *)
(*                                                                         *)
(* One resource is modelled, an ad: rows of different resources never meet.*)
(* Its scopes are taken as one, since its row excludes them all.  The form *)
(* for new ads, of which a tab has one request under way (createInFlight), *)
(* behaves as some of what is modelled.  A key stands for the request it   *)
(* was made for.  The write API is reduced to what WriteOnce promises.     *)
(***************************************************************************)
EXTENDS Naturals, FiniteSets

CONSTANTS
    Tabs,        \* browser tabs
    Tasks,       \* event handlers of the page that run or await something
    Threads,     \* handler threads of the dashboard server
    Keys,        \* idempotency keys
    None,
    BodyTimeouts,  \* may the read of a request's body time out in a server?
    MaxLosses    \* bound: lost responses, closed tabs, crashes

\* What a page can be answered, or take the lack of an answer for.
Answer == {"done", "rejected", "denied", "busy", "unknown", "lost", "conflict",
           "ok", "missing", "empty", "open", "acknowledged"}

ASSUME RecoveryConstants ==
    /\ None \notin Tabs \union Tasks \union Keys \union Answer
    /\ None \notin [key : Keys, acked : BOOLEAN]
    /\ BodyTimeouts \in BOOLEAN
    /\ MaxLosses \in Nat

VARIABLES
    row,       \* the dashboard_pending_writes row of the resource, or None
    backend,   \* what the ledger of the write API holds for a key
    class,     \* how the write API treats the request of a key
    entry,     \* pendingWrites of a tab: the key bound to the resource
    blocked,   \* the tab does not write: not loaded, or pendingRecoveryBlocked
    task, thread,
    used,      \* the keys made so far
    told,      \* history: keys whose end a tab has shown to its user
    losses

vars == <<row, backend, class, entry, blocked, task, thread, used, told, losses>>

NoTask == [at |-> "idle", tab |-> None, key |-> None, retry |-> FALSE, reply |-> None]
Free   == [at |-> "idle", task |-> None, key |-> None]

\* What an INSERT into dashboard_pending_writes leaves: a row that nobody has
\* acknowledged.
OpenRow(k) == [key |-> k, acked |-> FALSE]

Init ==
    /\ row = None
    /\ backend = [k \in Keys |-> "absent"]
    \* "rejected": always a 400 of DETERMINISTIC_PRE_EXECUTION_ERRORS;
    \* "denied": always another 4xx, by the configuration of the product.
    /\ class \in [Keys -> {"valid", "rejected", "denied"}]
    /\ entry = [t \in Tabs |-> None]
    /\ blocked = [t \in Tabs |-> TRUE]
    /\ task = [x \in Tasks |-> NoTask]
    /\ thread = [h \in Threads |-> Free]
    /\ used = {} /\ told = {} /\ losses = 0

-----------------------------------------------------------------------------
(* A page.  Between two awaits a handler runs alone in its tab.            *)

Idle(x) == task' = [task EXCEPT ![x] = NoTask]

\* fetch: the task awaits the reply of a thread.
Send(x, h, at, k, next) ==
    /\ thread[h].at = "idle"
    /\ thread' = [thread EXCEPT ![h] = [at |-> at, task |-> x, key |-> k]]
    /\ task' = [task EXCEPT ![x] = [next EXCEPT !.key = k, !.reply = None]]

\* acknowledgePendingWrite.
SendAck(x, h, at) == Send(x, h, "ack", task[x].key, [task[x] EXCEPT !.at = at])

\* The user starts a write; nothing is bound to the resource in this tab.
SubmitFresh(t, x, h) ==
    /\ ~blocked[t]
    /\ entry[t] = None
    /\ task[x].at = "idle"
    /\ \E k \in Keys \ used :
          /\ used' = used \union {k}
          /\ entry' = [entry EXCEPT ![t] = k]
          /\ Send(x, h, "received", k, [NoTask EXCEPT !.at = "writing", !.tab = t])
    /\ UNCHANGED <<row, backend, class, blocked, told, losses>>

\* The user repeats what is bound, with the key and payload of the entry.
SubmitAgain(t, x, h) ==
    /\ ~blocked[t]
    /\ entry[t] # None
    /\ task[x].at = "idle"
    /\ Send(x, h, "received", entry[t],
            [NoTask EXCEPT !.at = "writing", !.tab = t, !.retry = TRUE])
    /\ UNCHANGED <<row, backend, class, entry, blocked, used, told, losses>>

\* Variant: an answer 409 idempotency_in_progress counts as settled.
ClearsAlsoBusy(x) ==
    \/ task[x].reply \in {"rejected", "busy"}
    \/ task[x].reply = "denied" /\ ~task[x].retry

\* canClearPendingAfterError.
ClearsPending(x) ==
    \/ task[x].reply = "rejected"
    \/ task[x].reply = "denied" /\ ~task[x].retry

\* The answer settles the request: a terminal answer of its key, or an error
\* that shows it was not executed.  It is shown, and then acknowledged.
Settled(x, h) ==
    /\ task[x].at = "writing"
    /\ task[x].reply = "done" \/ ClearsPending(x)
    /\ told' = told \union {task[x].key}
    /\ SendAck(x, h, IF task[x].reply = "done" THEN "settling" ELSE "clearing")
    /\ UNCHANGED <<row, backend, class, entry, blocked, used, losses>>

\* Any other answer leaves the key bound.
StaysBound(x) ==
    /\ task[x].at = "writing"
    /\ task[x].reply \notin {None, "done", "conflict"}
    /\ ~ClearsPending(x)
    /\ Idle(x)
    /\ UNCHANGED <<row, backend, class, entry, blocked, thread, used, told, losses>>

\* dashboard_pending_write_conflict: reload.
Conflicts(x) ==
    /\ task[x].at = "writing"
    /\ task[x].reply = "conflict"
    /\ task' = [task EXCEPT ![x] = [NoTask EXCEPT !.at = "loading", !.tab = task[x].tab]]
    /\ UNCHANGED <<row, backend, class, entry, blocked, thread, used, told, losses>>

\* The reply to an acknowledgement.  A terminal answer is followed by a
\* reload.  Without the reply the request stays bound.
Acknowledged(x) ==
    /\ task[x].at \in {"settling", "clearing"}
    /\ task[x].reply # None
    /\ IF task[x].reply = "ok"
       THEN /\ entry' = [entry EXCEPT ![task[x].tab] = None]
            /\ IF task[x].at = "settling"
               THEN task' = [task EXCEPT ![x] =
                                 [NoTask EXCEPT !.at = "loading", !.tab = task[x].tab]]
               ELSE Idle(x)
       ELSE Idle(x) /\ UNCHANGED entry
    /\ UNCHANGED <<row, backend, class, blocked, thread, used, told, losses>>

\* load(), when the page opens or on request.
Reload(t, x) ==
    /\ task[x].at = "idle"
    /\ task' = [task EXCEPT ![x] = [NoTask EXCEPT !.at = "loading", !.tab = t]]
    /\ UNCHANGED <<row, backend, class, entry, blocked, thread, used, told, losses>>

\* refreshPendingWrites forgets what was bound and asks for the rows.
Refresh(x) ==
    /\ task[x].at = "loading"
    /\ entry' = [entry EXCEPT ![task[x].tab] = None]
    /\ blocked' = [blocked EXCEPT ![task[x].tab] = FALSE]
    /\ task' = [task EXCEPT ![x].at = "listing"]
    /\ UNCHANGED <<row, backend, class, thread, used, told, losses>>

\* One of the other reads of load() fails first.
LoadFails(x) ==
    /\ task[x].at = "loading"
    /\ losses < MaxLosses
    /\ losses' = losses + 1
    /\ Idle(x)
    /\ UNCHANGED <<row, backend, class, entry, blocked, thread, used, told>>

\* The server reads the rows.
ListRows(x) ==
    /\ task[x].at = "listing"
    /\ task[x].reply = None
    /\ task' = IF row = None THEN [task EXCEPT ![x].reply = "empty"]
               ELSE [task EXCEPT
                        ![x].key = row.key,
                        ![x].reply = IF row.acked THEN "acknowledged" ELSE "open"]
    /\ UNCHANGED <<row, backend, class, entry, blocked, thread, used, told, losses>>

\* It fails to, or its answer is lost.
ListFails(x) ==
    /\ task[x].at = "listing"
    /\ task[x].reply = None
    /\ losses < MaxLosses
    /\ losses' = losses + 1
    /\ task' = [task EXCEPT ![x].reply = "unknown"]
    /\ UNCHANGED <<row, backend, class, entry, blocked, thread, used, told>>

\* The open row is bound again.  A failure, or an entry made meanwhile, stops
\* all writes of the tab until the next load.
BindRows(x) ==
    LET t == task[x].tab IN
    /\ task[x].at = "listing"
    /\ task[x].reply \in {"empty", "open", "unknown"}
    /\ Idle(x)
    /\ CASE task[x].reply = "empty" -> UNCHANGED <<entry, blocked>>
         [] task[x].reply = "open" /\ entry[t] = None ->
               entry' = [entry EXCEPT ![t] = task[x].key] /\ UNCHANGED blocked
         [] OTHER ->
               /\ entry' = [entry EXCEPT ![t] = None]
               /\ blocked' = [blocked EXCEPT ![t] = TRUE]
    /\ UNCHANGED <<row, backend, class, thread, used, told, losses>>

\* Variant: acknowledged rows are skipped.
SkipTombstone(x, h) ==
    /\ task[x].at = "listing"
    /\ task[x].reply = "acknowledged"
    /\ Idle(x)
    /\ UNCHANGED <<row, backend, class, entry, blocked, thread, used, told, losses>>

\* A row that an earlier page has acknowledged is acknowledged again, which
\* deletes it.
BuryTombstone(x, h) ==
    /\ task[x].at = "listing"
    /\ task[x].reply = "acknowledged"
    /\ SendAck(x, h, "burying")
    /\ UNCHANGED <<row, backend, class, entry, blocked, used, told, losses>>

\* Whether that succeeded is of no interest to the page.
Buried(x) ==
    /\ task[x].at = "burying"
    /\ task[x].reply # None
    /\ Idle(x)
    /\ UNCHANGED <<row, backend, class, entry, blocked, thread, used, told, losses>>

-----------------------------------------------------------------------------
(* The dashboard server.                                                   *)

\* The thread ends.  Its answer may be lost, or nobody waits for it.
Reply(h, answer) ==
    LET x == thread[h].task IN
    /\ thread' = [thread EXCEPT ![h] = Free]
    /\ \/ x = None /\ UNCHANGED <<task, losses>>
       \/ x # None /\ task' = [task EXCEPT ![x].reply = answer] /\ UNCHANGED losses
       \/ /\ x # None /\ losses < MaxLosses
          /\ task' = [task EXCEPT ![x].reply = "lost"]
          /\ losses' = losses + 1

\* The request is refused before the row is claimed (_write_session_authorized,
\* _read_proxy_body).
Refuse(h) ==
    /\ thread[h].at = "received"
    /\ class[thread[h].key] = "denied" \/ BodyTimeouts
    /\ Reply(h, "denied")
    /\ UNCHANGED <<row, backend, class, entry, blocked, used, told>>

\* Variant: a tombstone, or the row of another tab, does not stand in the way.
ClaimAnyway(h) ==
    /\ thread[h].at = "received"
    /\ row' = OpenRow(thread[h].key)
    /\ thread' = [thread EXCEPT ![h].at = "claimed"]
    /\ UNCHANGED <<backend, class, entry, blocked, task, used, told, losses>>

\* claim_dashboard_pending_write.
Claim(h) ==
    LET mine == OpenRow(thread[h].key) IN
    /\ thread[h].at = "received"
    /\ IF row \in {None, mine}
       THEN /\ row' = mine
            /\ thread' = [thread EXCEPT ![h].at = "claimed"]
            /\ UNCHANGED <<task, losses>>
       ELSE Reply(h, "conflict") /\ UNCHANGED row
    /\ UNCHANGED <<backend, class, entry, blocked, used, told>>

\* The write API executes the request, or answers without doing so.
Forward(h) ==
    LET k == thread[h].key IN
    /\ thread[h].at = "claimed"
    /\ CASE backend[k] = "done" -> Reply(h, "done") /\ UNCHANGED backend
         [] backend[k] \in {"running", "stuck"} -> Reply(h, "busy") /\ UNCHANGED backend
         [] backend[k] = "absent" /\ class[k] # "valid" ->
               Reply(h, class[k]) /\ UNCHANGED backend
         [] OTHER ->
               \/ /\ backend' = [backend EXCEPT ![k] = "running"]
                  /\ thread' = [thread EXCEPT ![h].at = "waiting"]
                  /\ UNCHANGED <<task, losses>>
               \/ BodyTimeouts /\ Reply(h, "denied") /\ UNCHANGED backend
    /\ UNCHANGED <<row, class, entry, blocked, used, told>>

\* The execution ends; its answer is stored, or the row stays started.
FinishRun(k) ==
    /\ backend[k] = "running"
    /\ \E end \in {"done", "stuck"} : backend' = [backend EXCEPT ![k] = end]
    /\ UNCHANGED <<row, class, entry, blocked, task, thread, used, told, losses>>

\* The answer of the execution is passed on.
PassOn(h) ==
    /\ thread[h].at = "waiting"
    /\ backend[thread[h].key] # "running"
    /\ Reply(h, IF backend[thread[h].key] = "done" THEN "done" ELSE "unknown")
    /\ UNCHANGED <<row, backend, class, entry, blocked, used, told>>

\* A store error of either server, or no answer from the write API in time
\* (write_proxy_transport_unknown).
Fail(h) ==
    /\ thread[h].at # "idle"
    /\ losses < MaxLosses
    /\ losses' = losses + 1
    /\ thread' = [thread EXCEPT ![h] = Free]
    /\ task' = IF thread[h].task = None THEN task
               ELSE [task EXCEPT ![thread[h].task].reply = "unknown"]
    /\ UNCHANGED <<row, backend, class, entry, blocked, used, told>>

\* Variant: the acknowledgement does not look at the key.
FindsAny(k) == row # None

\* acknowledge_dashboard_pending_write looks for the row of a key ...
Finds(k) == row # None /\ row.key = k

\* ... marks it the first time, and deletes it the second time.
MarkOrDelete == row' = IF row.acked THEN None ELSE [row EXCEPT !.acked = TRUE]

\* _ack_dashboard_pending_write.
Acknowledge(h) ==
    /\ thread[h].at = "ack"
    /\ IF Finds(thread[h].key)
       THEN MarkOrDelete /\ Reply(h, "ok")
       ELSE UNCHANGED row /\ Reply(h, "missing")
    /\ UNCHANGED <<backend, class, entry, blocked, used, told>>

-----------------------------------------------------------------------------
(* Losses.                                                                 *)

Abandoned(gone) ==
    [h \in Threads |-> IF thread[h].task \in gone
                       THEN [thread[h] EXCEPT !.task = None] ELSE thread[h]]

\* The tab is closed or navigated; its requests are on their way.
CloseTab(t) ==
    LET gone == {x \in Tasks : task[x].tab = t} IN
    /\ losses < MaxLosses
    /\ losses' = losses + 1
    /\ task' = [x \in Tasks |-> IF x \in gone THEN NoTask ELSE task[x]]
    /\ thread' = Abandoned(gone)
    /\ entry' = [entry EXCEPT ![t] = None]
    /\ blocked' = [blocked EXCEPT ![t] = TRUE]
    /\ UNCHANGED <<row, backend, class, used, told>>

\* The connection breaks while the thread works on.
Disconnect(x) ==
    /\ \E h \in Threads : thread[h].task = x
    /\ losses < MaxLosses
    /\ losses' = losses + 1
    /\ task' = [task EXCEPT ![x].reply = "lost"]
    /\ thread' = Abandoned({x})
    /\ UNCHANGED <<row, backend, class, entry, blocked, used, told>>

\* The product's process dies, with dashboard and write API.  A claim that was
\* not started is free again, a started one is not.  The tokens of the open
\* tabs are worth nothing to the next process.
Crash ==
    /\ losses < MaxLosses
    /\ losses' = losses + 1
    /\ \E end \in {"absent", "stuck"} :
          backend' = [k \in Keys |-> IF backend[k] = "running" THEN end ELSE backend[k]]
    /\ task' = [x \in Tasks |-> NoTask]
    /\ thread' = [h \in Threads |-> Free]
    /\ entry' = [t \in Tabs |-> None]
    /\ blocked' = [t \in Tabs |-> TRUE]
    /\ UNCHANGED <<row, class, used, told>>

-----------------------------------------------------------------------------
PageStep(x) ==
    \/ \E h \in Threads : Settled(x, h) \/ BuryTombstone(x, h)
    \/ StaysBound(x) \/ Conflicts(x) \/ Acknowledged(x)
    \/ Refresh(x) \/ ListRows(x) \/ BindRows(x) \/ Buried(x)

PageLoss(x) == LoadFails(x) \/ ListFails(x) \/ Disconnect(x)

ThreadStep(h) ==
    Refuse(h) \/ Claim(h) \/ Forward(h) \/ PassOn(h) \/ Acknowledge(h)

UserStep(t) ==
    \E x \in Tasks :
        Reload(t, x) \/ \E h \in Threads : SubmitFresh(t, x, h) \/ SubmitAgain(t, x, h)

Next ==
    \/ \E t \in Tabs : UserStep(t) \/ CloseTab(t)
    \/ \E x \in Tasks : PageStep(x) \/ PageLoss(x)
    \/ \E h \in Threads : ThreadStep(h) \/ Fail(h)
    \/ \E k \in Keys : FinishRun(k)
    \/ Crash

RecoverySpec == Init /\ [][Next]_vars

\* Pages and threads go on, executions end, and a user who sees a bound
\* request repeats it and reloads the page, again and again.  Losses are
\* finitely many (MaxLosses).
RecoveryFairSpec ==
    /\ RecoverySpec
    /\ \A x \in Tasks : WF_vars(PageStep(x))
    /\ \A h \in Threads : WF_vars(ThreadStep(h))
    /\ \A k \in Keys : WF_vars(FinishRun(k))
    /\ \A t \in Tabs :
          /\ SF_vars(\E x \in Tasks : Reload(t, x))
          /\ SF_vars(\E x \in Tasks, h \in Threads : SubmitAgain(t, x, h))

-----------------------------------------------------------------------------
(* Properties.                                                             *)

\* The type of the state.  Every key in it was made by a tab, and the task that
\* a handler thread of the server answers still waits, and for no other thread.
RecoveryTypeOK ==
    /\ row \in [key : used, acked : BOOLEAN] \union {None}
    /\ backend \in [Keys -> {"absent", "running", "done", "stuck"}]
    /\ class \in [Keys -> {"valid", "rejected", "denied"}]
    /\ entry \in [Tabs -> used \union {None}]
    /\ blocked \in [Tabs -> BOOLEAN]
    /\ task \in [Tasks ->
          [at : {"idle", "writing", "settling", "clearing", "loading", "listing", "burying"},
           tab : Tabs \union {None}, key : used \union {None}, retry : BOOLEAN,
           reply : Answer \union {None}]]
    /\ thread \in [Threads ->
          [at : {"idle", "received", "claimed", "waiting", "ack"},
           task : Tasks \union {None}, key : used \union {None}]]
    /\ \A h \in Threads : thread[h].task # None =>
          /\ task[thread[h].task].at \in {"writing", "settling", "clearing", "burying"}
          /\ task[thread[h].task].reply = None
          /\ task[thread[h].task].key = thread[h].key
    /\ \A g, h \in Threads : thread[g].task = thread[h].task => g = h \/ thread[g].task = None
    /\ used \subseteq Keys /\ told \subseteq used
    /\ losses \in 0..MaxLosses

\* While a request is executed, or its outcome will never be known, its row
\* stands unacknowledged, and keeps every other key away from the resource.
OpenAttemptIsFenced ==
    \A k \in Keys :
        backend[k] \in {"running", "stuck"} => row = OpenRow(k)

\* A row is acknowledged only for a key whose end some tab has shown,
\* however late acknowledgements arrive and whoever sent them.
AcknowledgedWasTold == row # None /\ row.acked => row.key \in told

\* What a user was told is over is over: it never starts, or starts again,
\* because of a repetition from another tab or a request still on its way.
ToldStaysOver == [][\A k \in told : backend'[k] = backend[k]]_vars

\* A row whose request was answered for good does not stand for ever, as long
\* as the user keeps trying.
RowIsReleased == (row # None /\ backend[row.key] = "done") ~> (row = None)

\* D-027: neither another tab nor another key executes a write of a resource
\* of which one is open.
OneOpenAttempt ==
    \A j, k \in Keys :
        backend[j] \in {"running", "stuck"} /\ backend[k] \in {"running", "stuck"} => j = k
=============================================================================
