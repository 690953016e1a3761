------------------------------ MODULE WriteApi ------------------------------
(***************************************************************************)
(* The loopback write API: server instances that compete for the exclusive *)
(* lease on one store, their handler threads, and the path of a write      *)
(* request through the idempotency ledger (WriteRequestTable) to the       *)
(* service that asks the platform and back.  A server instance is one run  *)
(* of create_write_api_server: its claim_owner is random, so instances are *)
(* never reused, and a crash of its process ends it.                       *)
(*                                                                         *)
(* The service is external here: a call returns some stored answer, raises *)
(* (which is stored as ExecutionError) or escapes with a BaseException.    *)
(* SafeWrite models what it does.                                          *)
(***************************************************************************)
EXTENDS Naturals, FiniteSets

CONSTANTS
    Keys, Requests, Answers, None,
    Servers,         \* server instances, in any number of processes
    Handlers,        \* handler threads, reused across requests and servers
    Creates,         \* the requests of the two create routes
    ExecutionError,  \* the stored 500 write_execution_error
    SharedLock       \* is an execution_lock passed (the private-Web product)?

ASSUME ConstantsAreSane ==
    /\ Creates \subseteq Requests
    /\ ExecutionError \in Answers
    /\ SharedLock \in BOOLEAN
    /\ None \notin Requests \union Answers \union Servers \union Handlers

VARIABLES
    requests,      \* the ledger
    lease,         \* the instance that holds the flock on the store, or None
    life,          \* life[s]: has instance s been constructed, has it crashed
    loop,          \* loop[s]: serve_forever before, while and after it runs
    socketClosed,  \* _socket_close_succeeded
    retained,      \* _store_lock_release_deferred
    execLock,      \* execLock[s]: the handler that holds execution_lock
    createLock,    \* createLock[s]: the handler that holds create_lock
    pc, server, key, request, result,   \* the handler threads
    calls,         \* calls[k]: how often the service was called for key k
    replies        \* what clients were told about platform attempts

serverVars  == <<lease, life, loop, socketClosed, retained>>
lockVars    == <<execLock, createLock>>
handlerVars == <<pc, server, key, request, result>>
historyVars == <<calls, replies>>
vars == <<requests, serverVars, lockVars, handlerVars, historyVars>>

Table == INSTANCE WriteRequestTable WITH Owners <- Servers

-----------------------------------------------------------------------------
Active(s) == {h \in Handlers : pc[h] # "idle" /\ server[h] = s}

Init ==
    \* A store opened for the first time, or one with rows left behind by a
    \* version that executed requests without recording owner or start.
    /\ \E old \in SUBSET Keys, r \in [Keys -> Requests] :
          /\ requests = [k \in Keys |-> IF k \in old THEN Table!LegacyRow(r[k])
                                                     ELSE Table!NoRow]
          /\ calls = [k \in Keys |-> IF k \in old THEN 1 ELSE 0]
    /\ lease = None
    /\ life = [s \in Servers |-> "new"]
    /\ loop = [s \in Servers |-> "before"]
    /\ socketClosed = [s \in Servers |-> FALSE]
    /\ retained = [s \in Servers |-> FALSE]
    /\ execLock = [s \in Servers |-> None]
    /\ createLock = [s \in Servers |-> None]
    /\ pc = [h \in Handlers |-> "idle"]
    /\ server = [h \in Handlers |-> None]
    /\ key = [h \in Handlers |-> None]
    /\ request = [h \in Handlers |-> None]
    /\ result = [h \in Handlers |-> None]
    /\ replies = {}

-----------------------------------------------------------------------------
(* The life of a server instance.                                          *)

\* create_write_api_server.  The flock is non-blocking: construction fails,
\* without any effect, while another instance holds it.  The private-Web
\* composition retains the lease beyond server_close at once.
Construct(s) ==
    /\ life[s] = "new"
    /\ lease = None
    /\ lease' = s
    /\ life' = [life EXCEPT ![s] = "open"]
    /\ retained' = [retained EXCEPT ![s] = SharedLock]
    /\ UNCHANGED <<requests, loop, socketClosed, lockVars, handlerVars, historyVars>>

\* On a closed socket serve_forever fails at once, which changes nothing.
StartServing(s) ==
    /\ life[s] = "open"
    /\ loop[s] = "before"
    /\ ~socketClosed[s]
    /\ loop' = [loop EXCEPT ![s] = "running"]
    /\ UNCHANGED <<requests, lease, life, socketClosed, retained, lockVars,
                   handlerVars, historyVars>>

\* Variant: handlers that still run are not counted.
ReleaseWithHandlers(s, closed, running, active, keep) ==
    lease' = IF lease = s /\ closed /\ ~running /\ ~keep THEN None ELSE lease

\* _release_store_lock_if_quiesced, which every step that may complete
\* quiescence calls last.  Its arguments are the values after that step.
ReleaseIfQuiesced(s, closed, running, active, keep) ==
    lease' = IF lease = s /\ closed /\ ~running /\ active = {} /\ ~keep
             THEN None ELSE lease

\* shutdown() by another thread: serve_forever returns.
StopServing(s) ==
    /\ life[s] = "open"
    /\ loop[s] = "running"
    /\ loop' = [loop EXCEPT ![s] = "after"]
    /\ ReleaseIfQuiesced(s, socketClosed[s], FALSE, Active(s), retained[s])
    /\ UNCHANGED <<requests, life, socketClosed, retained, lockVars,
                   handlerVars, historyVars>>

\* server_close().  A server whose loop never started may be closed too.
CloseSocket(s) ==
    /\ life[s] = "open"
    /\ ~socketClosed[s]
    \* The private-Web composition closes only after shutdown and its
    \* server_close joins every handler thread.
    /\ SharedLock => loop[s] # "running" /\ Active(s) = {}
    /\ socketClosed' = [socketClosed EXCEPT ![s] = TRUE]
    /\ ReleaseIfQuiesced(s, TRUE, loop[s] = "running", Active(s), retained[s])
    /\ UNCHANGED <<requests, life, loop, retained, lockVars, handlerVars, historyVars>>

\* release_retained_store_lock, by a runtime that cleaned everything up.
ReleaseRetained(s) ==
    /\ life[s] = "open"
    /\ retained[s]
    /\ socketClosed[s]
    /\ retained' = [retained EXCEPT ![s] = FALSE]
    /\ ReleaseIfQuiesced(s, socketClosed[s], loop[s] = "running", Active(s), FALSE)
    /\ UNCHANGED <<requests, life, loop, socketClosed, lockVars, handlerVars, historyVars>>

\* The process dies: the OS drops its flock, its threads are gone, and the
\* ledger keeps what was committed.
Crash(s) ==
    LET gone == Active(s) IN
    /\ life[s] = "open"
    /\ life' = [life EXCEPT ![s] = "crashed"]
    /\ lease' = IF lease = s THEN None ELSE lease
    /\ loop' = [loop EXCEPT ![s] = "after"]
    /\ execLock' = [execLock EXCEPT ![s] = None]
    /\ createLock' = [createLock EXCEPT ![s] = None]
    /\ pc' = [h \in Handlers |-> IF h \in gone THEN "idle" ELSE pc[h]]
    /\ server' = [h \in Handlers |-> IF h \in gone THEN None ELSE server[h]]
    /\ key' = [h \in Handlers |-> IF h \in gone THEN None ELSE key[h]]
    /\ request' = [h \in Handlers |-> IF h \in gone THEN None ELSE request[h]]
    /\ result' = [h \in Handlers |-> IF h \in gone THEN None ELSE result[h]]
    /\ UNCHANGED <<requests, socketClosed, retained, historyVars>>

-----------------------------------------------------------------------------
(* A handler thread, from process_request to the end of its thread.        *)

Goto(h, label) == pc' = [pc EXCEPT ![h] = label]

\* process_request: the serve loop accepts a connection and counts the
\* handler before its thread runs.
Accept(h, s) ==
    /\ pc[h] = "idle"
    /\ life[s] = "open"
    /\ loop[s] = "running"
    /\ ~socketClosed[s]
    /\ Goto(h, "connected")
    /\ server' = [server EXCEPT ![h] = s]
    /\ UNCHANGED <<requests, serverVars, lockVars, key, request, result, historyVars>>

\* The client sends a request; a repeated one carries the key of an earlier
\* one.  No timeout bounds the wait for the request line and the headers.
Receive(h, k, r) ==
    /\ pc[h] = "connected"
    /\ Goto(h, "received")
    /\ key' = [key EXCEPT ![h] = k]
    /\ request' = [request EXCEPT ![h] = r]
    /\ UNCHANGED <<requests, serverVars, lockVars, server, result, historyVars>>

\* Everything that ends before the ledger is touched: a lost connection, an
\* unknown route, 401, 403, a closed write gate, a bad key, a bad or late body.
Refuse(h) ==
    /\ pc[h] \in {"connected", "received"}
    /\ Goto(h, "done")
    /\ UNCHANGED <<requests, serverVars, lockVars, server, key, request, result,
                   historyVars>>

\* The claim is this handler's: it is to execute the request.
Claim(h) ==
    /\ pc[h] = "received"
    /\ Table!ClaimRequest(key[h], request[h], server[h])
    /\ Goto(h, "claimed")
    /\ UNCHANGED <<serverVars, lockVars, server, key, request, result, historyVars>>

\* The claim found a row: 409 idempotency_conflict for another request, 409
\* idempotency_in_progress, or the stored answer of the same request.
FindRow(h) ==
    /\ pc[h] = "received"
    /\ Table!ClaimFindsRow(key[h], request[h], server[h])
    /\ IF /\ requests[key[h]].request = request[h]
          /\ requests[key[h]].state = "completed"
       THEN /\ result' = [result EXCEPT ![h] = requests[key[h]].answer]
            /\ Goto(h, "answering")
       ELSE /\ Goto(h, "done")
            /\ UNCHANGED result
    /\ UNCHANGED <<serverVars, lockVars, server, key, request, historyVars>>

\* Variant: execution goes on without the product's shared lock.
EnterUnlocked(h) ==
    /\ pc[h] = "claimed"
    /\ Goto(h, "entered")
    /\ UNCHANGED <<requests, serverVars, lockVars, server, key, request, result,
                   historyVars>>

\* with execution_lock (or nullcontext) ...
EnterExecution(h) ==
    /\ pc[h] = "claimed"
    /\ SharedLock => execLock[server[h]] = None
    /\ execLock' = IF SharedLock THEN [execLock EXCEPT ![server[h]] = h] ELSE execLock
    /\ Goto(h, "entered")
    /\ UNCHANGED <<requests, serverVars, createLock, server, key, request, result,
                   historyVars>>

\* The with statement releases the lock on every way out.
LeaveExecution(h) ==
    execLock' = IF execLock[server[h]] = h
                THEN [execLock EXCEPT ![server[h]] = None] ELSE execLock

Begin(h) ==
    /\ pc[h] = "entered"
    /\ Table!BeginRequest(key[h], request[h], server[h])
    /\ Goto(h, "begun")
    /\ UNCHANGED <<serverVars, lockVars, server, key, request, result, historyVars>>

\* The service is called: creates under create_lock, the others at once.
Call(h) ==
    /\ pc[h] = "begun"
    /\ IF request[h] \in Creates
       THEN /\ createLock[server[h]] = None
            /\ createLock' = [createLock EXCEPT ![server[h]] = h]
       ELSE UNCHANGED createLock
    /\ calls' = [calls EXCEPT ![key[h]] = @ + 1]
    /\ Goto(h, "calling")
    /\ UNCHANGED <<requests, serverVars, execLock, server, key, request, result,
                   replies>>

\* Variant: the lock is acquired but not as a context manager.
KeepCreate(h) == UNCHANGED createLock

LeaveCreate(h) ==
    createLock' = IF createLock[server[h]] = h
                  THEN [createLock EXCEPT ![server[h]] = None] ELSE createLock

\* The service returns a receipt bound to this request, or it raises or its
\* receipt does not match (ExecutionError).  Both locks are released.
Return(h, a) ==
    /\ pc[h] = "calling"
    /\ result' = [result EXCEPT ![h] = a]
    /\ Goto(h, "settling")
    /\ LeaveCreate(h)
    /\ LeaveExecution(h)
    /\ UNCHANGED <<requests, serverVars, server, key, request, historyVars>>

\* A BaseException that is no Exception passes every handler: the row stays
\* started and without an answer.
Escape(h) ==
    /\ pc[h] = "calling"
    /\ Goto(h, "done")
    /\ LeaveCreate(h)
    /\ LeaveExecution(h)
    /\ UNCHANGED <<requests, serverVars, server, key, request, result, historyVars>>

\* Variant: the answer is sent although it could not be stored.
CompleteOptimistically(h) ==
    /\ pc[h] = "settling"
    /\ \/ Table!CompleteRequest(key[h], request[h], server[h], result[h])
       \/ UNCHANGED requests
    /\ Goto(h, "answering")
    /\ UNCHANGED <<serverVars, lockVars, server, key, request, result, historyVars>>

Complete(h) ==
    /\ pc[h] = "settling"
    /\ Table!CompleteRequest(key[h], request[h], server[h], result[h])
    /\ Goto(h, "answering")
    /\ UNCHANGED <<serverVars, lockVars, server, key, request, result, historyVars>>

\* A store error (or a check of the transaction that fails): 500
\* idempotency_store_error before execution, idempotency_persistence_failed
\* after it.  The transaction is rolled back.
StoreError(h) ==
    /\ pc[h] \in {"received", "entered", "settling"}
    /\ Goto(h, "done")
    /\ LeaveExecution(h)
    /\ UNCHANGED <<requests, serverVars, createLock, server, key, request, result,
                   historyVars>>

\* The stored answer is sent, fresh or as a replay.
Answer(h) ==
    /\ pc[h] = "answering"
    /\ replies' = replies \union {<<key[h], request[h], result[h]>>}
    /\ Goto(h, "done")
    /\ UNCHANGED <<requests, serverVars, lockVars, server, key, request, result, calls>>

\* Variant: the last handler does not look whether it completes quiescence.
FinishWithoutRelease(h) ==
    /\ pc[h] = "done"
    /\ Goto(h, "idle")
    /\ server' = [server EXCEPT ![h] = None]
    /\ key' = [key EXCEPT ![h] = None]
    /\ request' = [request EXCEPT ![h] = None]
    /\ result' = [result EXCEPT ![h] = None]
    /\ UNCHANGED <<requests, serverVars, lockVars, historyVars>>

\* process_request_thread's finally: the handler is no longer counted.
Finish(h) ==
    LET s == server[h] IN
    /\ pc[h] = "done"
    /\ Goto(h, "idle")
    /\ server' = [server EXCEPT ![h] = None]
    /\ key' = [key EXCEPT ![h] = None]
    /\ request' = [request EXCEPT ![h] = None]
    /\ result' = [result EXCEPT ![h] = None]
    /\ ReleaseIfQuiesced(s, socketClosed[s], loop[s] = "running",
                         Active(s) \ {h}, retained[s])
    /\ UNCHANGED <<requests, life, loop, socketClosed, retained, lockVars, historyVars>>

HandlerStep(h) ==
    \/ Refuse(h) \/ Claim(h) \/ FindRow(h) \/ EnterExecution(h) \/ Begin(h)
    \/ Call(h) \/ \E a \in Answers : Return(h, a)
    \/ Escape(h) \/ Complete(h) \/ StoreError(h) \/ Answer(h) \/ Finish(h)

ServerStep(s) ==
    \/ Construct(s) \/ StartServing(s) \/ StopServing(s) \/ CloseSocket(s)
    \/ ReleaseRetained(s) \/ Crash(s)

Next ==
    \/ \E s \in Servers : ServerStep(s)
    \/ \E h \in Handlers : HandlerStep(h)
    \/ \E h \in Handlers, s \in Servers : Accept(h, s)
    \/ \E h \in Handlers, k \in Keys, r \in Requests : Receive(h, k, r)

Spec == Init /\ [][Next]_vars

\* Threads are scheduled, a service call returns (its reads and its browser
\* work are bounded by deadlines), a body is read or times out.  Nothing is
\* assumed of clients that stay silent, of process deaths or of the thread
\* that closes.
Fairness ==
    \A h \in Handlers : WF_vars(pc[h] # "connected" /\ HandlerStep(h))

FairSpec == Spec /\ Fairness
-----------------------------------------------------------------------------
(* Properties.                                                             *)

\* Types of the ledger, the servers, the handlers and the locks.
TypeOK ==
    /\ requests \in [Keys -> Table!Row]
    /\ lease \in Servers \union {None}
    /\ life \in [Servers -> {"new", "open", "crashed"}]
    /\ loop \in [Servers -> {"before", "running", "after"}]
    /\ socketClosed \in [Servers -> BOOLEAN]
    /\ retained \in [Servers -> BOOLEAN]
    /\ execLock \in [Servers -> Handlers \union {None}]
    /\ createLock \in [Servers -> Handlers \union {None}]
    /\ pc \in [Handlers -> {"idle", "connected", "received", "claimed", "entered", "begun",
                            "calling", "settling", "answering", "done"}]
    /\ server \in [Handlers -> Servers \union {None}]
    /\ key \in [Handlers -> Keys \union {None}]
    /\ request \in [Handlers -> Requests \union {None}]
    /\ result \in [Handlers -> Answers \union {None}]
    /\ calls \in [Keys -> Nat]
    /\ replies \subseteq Keys \X Requests \X Answers

\* No crash, restart, retry, takeover or race of handlers makes the service
\* be called twice for one idempotency key (D-024: no blind retry after the
\* execution barrier; rows of older versions count as executed).
AtMostOnce == \A k \in Keys : calls[k] <= 1

\* The lease outlives every accepted handler: while a handler of instance s
\* is still running, s holds the lease, so no second instance can take over
\* the claims that handler is working on.
LeaseCoversHandlers ==
    \A h \in Handlers : pc[h] # "idle" => lease = server[h]

\* A create infers its result from the difference of two inventories, so no
\* two creates are ever inside the service at once, whatever the number of
\* servers; in the product no two writes of any kind are.
ServiceCallsAreSerial ==
    \A h, i \in Handlers :
        /\ h # i
        /\ pc[h] = "calling"
        /\ pc[i] = "calling"
        => ~SharedLock /\ ~(request[h] \in Creates /\ request[i] \in Creates)

\* In the product the barrier is passed only under the shared lock: however
\* many claims wait for a slow write, at most one of them is marked started,
\* and the others stay recoverable by a restart (D-024, README).
QueuedClaimsStayUnstarted ==
    SharedLock =>
        \A h, i \in Handlers :
            pc[h] \in {"begun", "calling"} /\ pc[i] \in {"begun", "calling"}
            => h = i

\* Whatever clients are told about a platform attempt under one key, they
\* are told the same, and only for the same request.
OneAnswerPerKey == \A x, y \in replies : x[1] = y[1] => x = y

\* The execution barrier is never undone: a row that was started keeps its
\* request and its owner for good, and once completed it never changes.
BarrierIsPermanent ==
    [][\A k \in Keys :
          /\ requests[k].started =>
                /\ requests'[k].started
                /\ requests'[k].owner = requests[k].owner
                /\ requests'[k].request = requests[k].request
          /\ requests[k].state = "completed" => requests'[k] = requests[k]]_vars

\* The composition keeps the lease until it has released it explicitly,
\* whatever happened to socket, serve loop and handlers before.
RetainedLeaseIsHeld ==
    \A s \in Servers : life[s] = "open" /\ retained[s] => lease = s

Silent(s) == \E h \in Active(s) : pc[h] = "connected"

\* A server that was closed and stopped, and whose lease is not retained,
\* gives the store back once its accepted requests are answered: only a
\* client that never sends its request can keep it from doing so.
ClosedServerFreesLease ==
    \A s \in Servers :
        (socketClosed[s] /\ loop[s] # "running" /\ ~retained[s])
            ~> (lease # s \/ Silent(s))

\* After shutdown every handler that has a request ends, those included that
\* queue for a lock, so that a join of the handlers returns.
StoppedServerDrains ==
    \A s \in Servers : (loop[s] = "after") ~> (Active(s) = {} \/ Silent(s))

-----------------------------------------------------------------------------
(* The promise of WriteOnce, implemented.                                  *)
Promise == INSTANCE WriteOnce WITH
    bound     <- [k \in Keys |-> requests[k].request],
    attempted <- {k \in Keys : calls[k] > 0},
    answer    <- [k \in Keys |-> requests[k].answer]

\* The API with its ledger, servers and threads implements the promise of WriteOnce.
PromiseKept == Promise!Spec
=============================================================================
