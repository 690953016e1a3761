-------------------------- MODULE WriteApiProofs --------------------------
(***************************************************************************)
(* Proofs about WriteApi, for any number of keys, requests, servers and    *)
(* handlers.  IInv is the inductive invariant: what holds of the ledger,   *)
(* of the lease, of a handler at each place of its path, and of the call   *)
(* counter, so that a step that starts in such a state ends in one.        *)
(***************************************************************************)
EXTENDS WriteApi, TLAPS

\* The places where a handler works under a claim it was granted.
Waiting == {"claimed", "entered"}
Started == {"begun", "calling", "settling"}

\* Every row is one of: absent, claimed, legacy, started or completed.
RowsWellFormed ==
    \A k \in Keys :
        /\ requests[k].state = "absent" => requests[k] = Table!NoRow
        /\ requests[k].state = "in_progress" =>
              requests[k].request # None /\ requests[k].answer = None
        /\ requests[k].state = "completed" =>
              /\ requests[k].request # None
              /\ requests[k].answer # None
              /\ requests[k].started
        /\ requests[k].started => requests[k].owner # None

\* An open instance without the lease is closed, stopped and not retaining.
LeaseInv ==
    /\ \A s \in Servers : lease = s => life[s] = "open"
    /\ \A s \in Servers : life[s] = "open" /\ lease # s =>
          socketClosed[s] /\ loop[s] # "running" /\ ~retained[s]
    /\ \A h \in Handlers :
          /\ pc[h] = "idle" => server[h] = None
          /\ pc[h] # "idle" => server[h] \in Servers /\ lease = server[h]

\* What a handler knows at its place.
HandlerOK(h) ==
    /\ pc[h] \notin {"idle", "connected", "done"} =>
          key[h] \in Keys /\ request[h] \in Requests
    /\ pc[h] \in Waiting \union Started =>
          /\ requests[key[h]].state = "in_progress"
          /\ requests[key[h]].request = request[h]
          /\ requests[key[h]].owner = server[h]
          /\ requests[key[h]].started <=> pc[h] \in Started
    /\ pc[h] \in {"settling", "answering"} => result[h] \in Answers
    /\ pc[h] = "answering" =>
          /\ requests[key[h]].state = "completed"
          /\ requests[key[h]].request = request[h]
          /\ requests[key[h]].answer = result[h]

HandlerInv == \A h \in Handlers : HandlerOK(h)

\* Two handlers never work under the same claim.
ClaimsAreExclusive ==
    \A h, i \in Handlers :
        /\ pc[h] \in Waiting \union Started
        /\ pc[i] \in Waiting \union Started
        /\ key[h] = key[i]
        => h = i

LocksInv ==
    \A h \in Handlers :
        /\ SharedLock /\ pc[h] \in {"entered", "begun", "calling"} =>
              execLock[server[h]] = h
        /\ pc[h] = "calling" /\ request[h] \in Creates =>
              createLock[server[h]] = h

\* The service was called for a key only once, and only for a row that no
\* claim will ever be granted again.
CallsInv ==
    /\ \A k \in Keys :
          /\ calls[k] <= 1
          /\ calls[k] > 0 => requests[k].started \/ (requests[k].state = "in_progress"
                                                     /\ requests[k].owner = None)
    /\ \A h \in Handlers : pc[h] = "begun" => calls[key[h]] = 0
    /\ \A h \in Handlers : pc[h] \in {"calling", "settling"} => calls[key[h]] = 1
    /\ \A k \in Keys : requests[k].state = "completed" => calls[k] = 1

RepliesInv ==
    \A x \in replies :
        /\ requests[x[1]].state = "completed"
        /\ requests[x[1]].request = x[2]
        /\ requests[x[1]].answer = x[3]

IInv ==
    /\ TypeOK
    /\ RowsWellFormed
    /\ LeaseInv
    /\ HandlerInv
    /\ ClaimsAreExclusive
    /\ LocksInv
    /\ CallsInv
    /\ RepliesInv
-----------------------------------------------------------------------------
(* The ledger: what its transactions do to the row of their key.           *)

RowsTyped == requests \in [Keys -> Table!Row]

\* The fields of the two rows a store can start with.
LEMMA InitialRows ==
  ASSUME NEW r \in Requests
  PROVE  /\ Table!NoRow \in Table!Row
         /\ Table!NoRow.state = "absent"
         /\ Table!NoRow.request = None
         /\ Table!NoRow.owner = None
         /\ Table!NoRow.started = FALSE
         /\ Table!NoRow.answer = None
         /\ Table!LegacyRow(r) \in Table!Row
         /\ Table!LegacyRow(r).state = "in_progress"
         /\ Table!LegacyRow(r).request = r
         /\ Table!LegacyRow(r).owner = None
         /\ Table!LegacyRow(r).started = FALSE
         /\ Table!LegacyRow(r).answer = None
BY DEF Table!NoRow, Table!LegacyRow, Table!Row

\* A granted claim: the row is in progress for this request and owner and
\* not started; it was absent or an unstarted claim of another owner.
LEMMA ClaimEffect ==
  ASSUME RowsTyped, NEW k \in Keys, NEW r \in Requests, NEW o \in Servers,
         Table!ClaimRequest(k, r, o)
  PROVE  /\ requests' \in [Keys -> Table!Row]
         /\ requests'[k].state = "in_progress"
         /\ requests'[k].request = r
         /\ requests'[k].owner = o
         /\ ~requests'[k].started
         /\ \/ requests[k].state = "absent" /\ requests'[k].answer = None
            \/ /\ requests[k].state = "in_progress"
               /\ requests[k].request = r
               /\ requests[k].owner \notin {None, o}
               /\ ~requests[k].started
               /\ requests'[k].answer = requests[k].answer
         /\ \A j \in Keys : j # k => requests'[j] = requests[j]
<1>1. requests[k] \in Table!Row
  BY DEF RowsTyped
<1>2. CASE requests[k].state = "absent" /\ requests' = [requests EXCEPT ![k] =
             Table!ClaimedRow(r, o)]
  <2> DEFINE row == Table!ClaimedRow(r, o)
  <2>1. row \in Table!Row /\ row.state = "in_progress" /\ row.request = r
        /\ row.owner = o /\ row.started = FALSE /\ row.answer = None
    BY DEF Table!Row, Table!ClaimedRow
  <2>2. requests' = [requests EXCEPT ![k] = row]
    BY <1>2
  <2> HIDE DEF row
  <2>. QED
    BY <1>2, <2>1, <2>2 DEF RowsTyped
<1>3. CASE Table!MayTakeOver(k, r, o) /\ requests' = [requests EXCEPT ![k].owner = o]
  <2> DEFINE row == [requests[k] EXCEPT !.owner = o]
  <2>1. row \in Table!Row /\ row.state = requests[k].state
        /\ row.request = requests[k].request /\ row.owner = o
        /\ row.started = requests[k].started /\ row.answer = requests[k].answer
    BY <1>1 DEF Table!Row
  <2>2. requests' = [requests EXCEPT ![k] = row]
    BY <1>3
  <2>3. requests[k].started \in BOOLEAN
    BY <1>1 DEF Table!Row
  <2> HIDE DEF row
  <2>. QED
    BY <1>1, <1>3, <2>1, <2>2, <2>3 DEF RowsTyped, Table!MayTakeOver
<1>. QED
  BY <1>2, <1>3 DEF Table!ClaimRequest

\* A begun execution: only the barrier of the row changes.
LEMMA BeginEffect ==
  ASSUME RowsTyped, NEW k \in Keys, NEW r \in Requests, NEW o \in Servers,
         Table!BeginRequest(k, r, o)
  PROVE  /\ requests' \in [Keys -> Table!Row]
         /\ requests'[k].state = "in_progress"
         /\ requests'[k].request = r
         /\ requests'[k].owner = o
         /\ requests'[k].started
         /\ requests'[k].answer = requests[k].answer
         /\ requests[k].state = "in_progress"
         /\ requests[k].request = r
         /\ requests[k].owner = o
         /\ ~requests[k].started
         /\ \A j \in Keys : j # k => requests'[j] = requests[j]
<1> DEFINE row == [requests[k] EXCEPT !.started = TRUE]
<1>1. requests[k] \in Table!Row
  BY DEF RowsTyped
<1>2. /\ row \in Table!Row
      /\ row.state = requests[k].state
      /\ row.request = requests[k].request
      /\ row.owner = requests[k].owner
      /\ row.started = TRUE
      /\ row.answer = requests[k].answer
  BY <1>1 DEF Table!Row
<1>3. requests' = [requests EXCEPT ![k] = row]
  BY DEF Table!BeginRequest
<1> HIDE DEF row
<1>4. requests[k].started = FALSE
  BY <1>1 DEF Table!BeginRequest, Table!Row
<1>. QED
  BY <1>1, <1>2, <1>3, <1>4 DEF Table!BeginRequest, RowsTyped

\* A completed execution: the answer is stored, or it was stored before.
LEMMA CompleteEffect ==
  ASSUME RowsTyped, NEW k \in Keys, NEW r \in Requests, NEW o \in Servers,
         NEW a \in Answers,
         Table!CompleteRequest(k, r, o, a)
  PROVE  /\ requests' \in [Keys -> Table!Row]
         /\ requests'[k].state = "completed"
         /\ requests'[k].request = r
         /\ requests'[k].owner = o
         /\ requests'[k].started = requests[k].started
         /\ requests'[k].answer = a
         /\ requests[k].request = r
         /\ requests[k].owner = o
         /\ \/ requests'[k] = requests[k]
            \/ requests[k].state = "in_progress" /\ requests[k].started
         /\ \A j \in Keys : j # k => requests'[j] = requests[j]
<1>1. requests[k] \in Table!Row
  BY DEF RowsTyped
<1>2. CASE requests[k].state = "completed" /\ requests[k].answer = a /\ UNCHANGED requests
  BY <1>2 DEF RowsTyped, Table!CompleteRequest
<1>3. CASE /\ requests[k].state = "in_progress"
           /\ requests[k].started
           /\ requests' = [requests EXCEPT ![k].state = "completed", ![k].answer = a]
  <2> DEFINE row == [[requests[k] EXCEPT !.state = "completed"] EXCEPT !.answer = a]
  <2>1. /\ row \in Table!Row
        /\ row.state = "completed"
        /\ row.request = requests[k].request
        /\ row.owner = requests[k].owner
        /\ row.started = requests[k].started
        /\ row.answer = a
    BY <1>1 DEF Table!Row
  <2>2. requests' = [requests EXCEPT ![k] = row]
    <3> DEFINE once == [requests EXCEPT ![k].state = "completed"]
    <3>1. once \in [Keys -> {once[j] : j \in Keys}] 
         /\ once[k] = [requests[k] EXCEPT !.state = "completed"]
      BY DEF RowsTyped
    <3>2. requests' = [once EXCEPT ![k].answer = a]
      BY <1>3
    <3>. QED
      BY <3>1, <3>2 DEF RowsTyped
  <2> HIDE DEF row
  <2>. QED
    BY <1>1, <1>3, <2>1, <2>2 DEF Table!CompleteRequest, RowsTyped
<1>. QED
  BY <1>2, <1>3 DEF Table!CompleteRequest

-----------------------------------------------------------------------------
(* Handlers: the ledger transactions seen from the handler that runs them. *)

\* The constants a handler works with once it has a request.
LEMMA HandlerTypes ==
  ASSUME TypeOK, LeaseInv, HandlerInv, NEW h \in Handlers, pc[h] # "idle"
  PROVE  /\ RowsTyped
         /\ server[h] \in Servers
         /\ server[h] # None
         /\ lease = server[h]
         /\ pc[h] \notin {"connected", "done"} =>
               key[h] \in Keys /\ request[h] \in Requests
         /\ pc[h] \in {"settling", "answering"} => result[h] \in Answers
BY ConstantsAreSane DEF TypeOK, LeaseInv, HandlerInv, HandlerOK, RowsTyped

\* A claim granted to a handler.
LEMMA ClaimByHandler ==
  ASSUME TypeOK, LeaseInv, HandlerInv, NEW h \in Handlers, Claim(h)
  PROVE  LET k == key[h] IN
         /\ key[h] \in Keys /\ request[h] \in Requests /\ server[h] \in Servers
         /\ requests' \in [Keys -> Table!Row]
         /\ requests'[k].state = "in_progress"
         /\ requests'[k].request = request[h]
         /\ requests'[k].owner = server[h]
         /\ ~requests'[k].started
         /\ \/ requests[k].state = "absent" /\ requests'[k].answer = None
            \/ /\ requests[k].state = "in_progress"
               /\ requests[k].request = request[h]
               /\ requests[k].owner \notin {None, server[h]}
               /\ ~requests[k].started
               /\ requests'[k].answer = requests[k].answer
         /\ \A j \in Keys : j # k => requests'[j] = requests[j]
<1>1. pc[h] = "received" /\ Table!ClaimRequest(key[h], request[h], server[h])
  BY DEF Claim
<1>2. key[h] \in Keys /\ request[h] \in Requests /\ server[h] \in Servers /\ RowsTyped
  BY <1>1, HandlerTypes
<1>. QED
  BY <1>1, <1>2, ClaimEffect

\* A handler's execution barrier.
LEMMA BeginByHandler ==
  ASSUME TypeOK, LeaseInv, HandlerInv, NEW h \in Handlers, Begin(h)
  PROVE  LET k == key[h] IN
         /\ key[h] \in Keys /\ request[h] \in Requests /\ server[h] \in Servers
         /\ requests' \in [Keys -> Table!Row]
         /\ requests'[k].state = "in_progress"
         /\ requests'[k].request = request[h]
         /\ requests'[k].owner = server[h]
         /\ requests'[k].started
         /\ requests'[k].answer = requests[k].answer
         /\ requests[k].state = "in_progress"
         /\ requests[k].request = request[h]
         /\ requests[k].owner = server[h]
         /\ ~requests[k].started
         /\ \A j \in Keys : j # k => requests'[j] = requests[j]
<1>1. pc[h] = "entered" /\ Table!BeginRequest(key[h], request[h], server[h])
  BY DEF Begin
<1>2. key[h] \in Keys /\ request[h] \in Requests /\ server[h] \in Servers /\ RowsTyped
  BY <1>1, HandlerTypes
<1>. QED
  BY <1>1, <1>2, BeginEffect

\* A handler's answer is stored: its row was started, so never replaced.
LEMMA CompleteByHandler ==
  ASSUME TypeOK, LeaseInv, HandlerInv, NEW h \in Handlers, Complete(h)
  PROVE  LET k == key[h] IN
         /\ key[h] \in Keys /\ request[h] \in Requests /\ server[h] \in Servers
         /\ result[h] \in Answers
         /\ requests' \in [Keys -> Table!Row]
         /\ requests'[k].state = "completed"
         /\ requests'[k].request = request[h]
         /\ requests'[k].owner = server[h]
         /\ requests'[k].started
         /\ requests'[k].answer = result[h]
         /\ requests[k].state = "in_progress"
         /\ requests[k].started
         /\ \A j \in Keys : j # k => requests'[j] = requests[j]
<1>1. pc[h] = "settling" /\ Table!CompleteRequest(key[h], request[h], server[h], result[h])
  BY DEF Complete
<1>2. key[h] \in Keys /\ request[h] \in Requests /\ server[h] \in Servers
      /\ result[h] \in Answers /\ RowsTyped
  BY <1>1, HandlerTypes
<1>3. requests[key[h]].state = "in_progress" /\ requests[key[h]].started
  BY <1>1 DEF HandlerInv, HandlerOK, Started
<1>4. requests[key[h]].started = TRUE
  BY <1>2, <1>3 DEF RowsTyped, Table!Row
<1>. QED
  BY <1>1, <1>2, <1>3, <1>4, CompleteEffect

\* A ledger transaction of one handler leaves the rows alone that other
\* handlers work with: another claim of the same key would be this server's
\* own, so it could not have been granted.
LEMMA OthersKeepTheirRows ==
  ASSUME TypeOK, LeaseInv, HandlerInv, ClaimsAreExclusive,
         NEW h \in Handlers, NEW i \in Handlers, i # h,
         Claim(h) \/ Begin(h) \/ Complete(h),
         pc[i] \in Waiting \union Started \union {"answering"}
  PROVE  /\ key[i] \in Keys
         /\ key[i] # key[h]
         /\ requests'[key[i]] = requests[key[i]]
<1>1. key[i] \in Keys /\ server[i] = lease
  BY HandlerTypes DEF Waiting, Started
<1>2. CASE Claim(h)
  <2>1. server[h] = lease /\ server[h] \in Servers
    BY <1>2, HandlerTypes DEF Claim
  <2>2. key[i] # key[h]
    BY <1>1, <1>2, <2>1, ClaimByHandler DEF HandlerInv, HandlerOK, Waiting, Started
  <2>. QED
    BY <1>1, <1>2, <2>2, ClaimByHandler
<1>3. CASE Begin(h)
  <2>1. pc[h] = "entered" /\ requests[key[h]].state = "in_progress"
    BY <1>3, BeginByHandler DEF Begin
  <2>2. key[i] # key[h]
    BY <1>1, <2>1 DEF HandlerInv, HandlerOK, ClaimsAreExclusive, Waiting, Started
  <2>. QED
    BY <1>1, <1>3, <2>2, BeginByHandler
<1>4. CASE Complete(h)
  <2>1. pc[h] = "settling" /\ requests[key[h]].state = "in_progress"
    BY <1>4, CompleteByHandler DEF Complete
  <2>2. key[i] # key[h]
    BY <1>1, <2>1 DEF HandlerInv, HandlerOK, ClaimsAreExclusive, Waiting, Started
  <2>. QED
    BY <1>1, <1>4, <2>2, CompleteByHandler
<1>. QED
  BY <1>2, <1>3, <1>4

-----------------------------------------------------------------------------
(* The initial states.                                                     *)

\* Fresh and legacy stores satisfy the inductive invariant.
LEMMA InitHolds == Init => IInv
<1> SUFFICES ASSUME Init PROVE IInv
  OBVIOUS
<1>1. PICK old \in SUBSET Keys, r \in [Keys -> Requests] :
         /\ requests = [k \in Keys |-> IF k \in old THEN Table!LegacyRow(r[k])
                                                    ELSE Table!NoRow]
         /\ calls = [k \in Keys |-> IF k \in old THEN 1 ELSE 0]
  BY DEF Init
<1>2. \A k \in Keys :
         /\ requests[k] = IF k \in old THEN Table!LegacyRow(r[k]) ELSE Table!NoRow
         /\ requests[k] \in Table!Row
         /\ k \in old => /\ requests[k].state = "in_progress"
                         /\ requests[k].request \in Requests
         /\ k \notin old => requests[k] = Table!NoRow /\ requests[k].state = "absent"
         /\ requests[k].owner = None
         /\ requests[k].answer = None
         /\ requests[k].started = FALSE
  <2> SUFFICES ASSUME NEW k \in Keys
               PROVE  /\ requests[k] = IF k \in old THEN Table!LegacyRow(r[k]) ELSE Table!NoRow
                      /\ requests[k] \in Table!Row
                      /\ k \in old => /\ requests[k].state = "in_progress"
                                      /\ requests[k].request \in Requests
                      /\ k \notin old => requests[k] = Table!NoRow /\ requests[k].state = "absent"
                      /\ requests[k].owner = None
                      /\ requests[k].answer = None
                      /\ requests[k].started = FALSE
    OBVIOUS
  <2>. r[k] \in Requests
    OBVIOUS
  <2>. QED
    BY <1>1, InitialRows
<1>3. TypeOK
  <2>1. requests \in [Keys -> Table!Row] /\ calls \in [Keys -> Nat]
    BY <1>1, <1>2
  <2>. QED
    BY <2>1, ConstantsAreSane DEF Init, TypeOK
<1>4. RowsWellFormed
  BY <1>2, ConstantsAreSane DEF RowsWellFormed
<1>5. LeaseInv
  BY ConstantsAreSane DEF Init, LeaseInv
<1>6. HandlerInv /\ ClaimsAreExclusive /\ LocksInv
  BY DEF Init, HandlerInv, ClaimsAreExclusive, LocksInv, HandlerOK, Waiting, Started
<1>7. CallsInv
  <2>1. \A k \in Keys : calls[k] = IF k \in old THEN 1 ELSE 0
    BY <1>1
  <2>. QED
    BY <1>2, <2>1 DEF Init, CallsInv
<1>8. RepliesInv
  BY DEF Init, RepliesInv
<1>. QED
  BY <1>3, <1>4, <1>5, <1>6, <1>7, <1>8 DEF IInv

-----------------------------------------------------------------------------
(* Each part of the invariant is preserved by every step.                  *)

\* Every step preserves the types.
LEMMA TypeStep == TypeOK /\ LeaseInv /\ HandlerInv /\ [Next]_vars => TypeOK'
<1> SUFFICES ASSUME TypeOK, LeaseInv, HandlerInv, [Next]_vars PROVE TypeOK'
  OBVIOUS
<1> USE ConstantsAreSane DEF serverVars, lockVars, handlerVars, historyVars
<1>1. ASSUME NEW s \in Servers, Construct(s) PROVE TypeOK'
  BY <1>1, HandlerTypes DEF Construct, TypeOK
<1>2. ASSUME NEW s \in Servers, StartServing(s) PROVE TypeOK'
  BY <1>2, HandlerTypes DEF StartServing, TypeOK
<1>3. ASSUME NEW s \in Servers, StopServing(s) PROVE TypeOK'
  BY <1>3, HandlerTypes DEF StopServing, ReleaseIfQuiesced, Active, TypeOK
<1>4. ASSUME NEW s \in Servers, CloseSocket(s) PROVE TypeOK'
  BY <1>4, HandlerTypes DEF CloseSocket, ReleaseIfQuiesced, Active, TypeOK
<1>5. ASSUME NEW s \in Servers, ReleaseRetained(s) PROVE TypeOK'
  BY <1>5, HandlerTypes DEF ReleaseRetained, ReleaseIfQuiesced, Active, TypeOK
<1>6. ASSUME NEW s \in Servers, Crash(s) PROVE TypeOK'
  BY <1>6, HandlerTypes DEF Crash, Active, TypeOK
<1>7. ASSUME NEW h \in Handlers, Refuse(h) PROVE TypeOK'
  BY <1>7, HandlerTypes DEF Refuse, Goto, TypeOK
<1>8. ASSUME NEW h \in Handlers, Claim(h) PROVE TypeOK'
  BY <1>8, HandlerTypes, ClaimByHandler DEF Claim, Goto, TypeOK
<1>9. ASSUME NEW h \in Handlers, FindRow(h) PROVE TypeOK'
  <2>1. key[h] \in Keys /\ pc[h] = "received"
    BY <1>9, HandlerTypes DEF FindRow
  <2>2. requests[key[h]].answer \in Answers \union {None}
    BY <2>1 DEF TypeOK, Table!Row
  <2>. QED
    BY <1>9, <2>1, <2>2 DEF FindRow, Goto, Table!ClaimFindsRow, TypeOK
<1>10. ASSUME NEW h \in Handlers, EnterExecution(h) PROVE TypeOK'
  BY <1>10, HandlerTypes DEF EnterExecution, Goto, TypeOK
<1>11. ASSUME NEW h \in Handlers, Begin(h) PROVE TypeOK'
  BY <1>11, HandlerTypes, BeginByHandler DEF Begin, Goto, TypeOK
<1>12. ASSUME NEW h \in Handlers, Call(h) PROVE TypeOK'
  BY <1>12, HandlerTypes DEF Call, Goto, TypeOK
<1>13. ASSUME NEW h \in Handlers, Escape(h) PROVE TypeOK'
  BY <1>13, HandlerTypes DEF Escape, Goto, LeaveCreate, LeaveExecution, TypeOK
<1>14. ASSUME NEW h \in Handlers, Complete(h) PROVE TypeOK'
  BY <1>14, HandlerTypes, CompleteByHandler DEF Complete, Goto, TypeOK
<1>15. ASSUME NEW h \in Handlers, StoreError(h) PROVE TypeOK'
  BY <1>15, HandlerTypes DEF StoreError, Goto, LeaveExecution, TypeOK
<1>16. ASSUME NEW h \in Handlers, Answer(h) PROVE TypeOK'
  BY <1>16, HandlerTypes DEF Answer, Goto, TypeOK
<1>17. ASSUME NEW h \in Handlers, Finish(h) PROVE TypeOK'
  BY <1>17, HandlerTypes DEF Finish, Goto, ReleaseIfQuiesced, Active, TypeOK
<1>18. ASSUME NEW h \in Handlers, NEW a \in Answers, Return(h, a) PROVE TypeOK'
  BY <1>18, HandlerTypes DEF Return, Goto, LeaveCreate, LeaveExecution, TypeOK
<1>19. ASSUME NEW h \in Handlers, NEW s \in Servers, Accept(h, s) PROVE TypeOK'
  BY <1>19, HandlerTypes DEF Accept, Goto, TypeOK
<1>20. ASSUME NEW h \in Handlers, NEW k \in Keys, NEW r \in Requests,
              Receive(h, k, r) PROVE TypeOK'
  BY <1>20, HandlerTypes DEF Receive, Goto, TypeOK
<1>21. CASE UNCHANGED vars
  BY <1>21 DEF vars, TypeOK
<1>. QED
  BY <1>1, <1>2, <1>3, <1>4, <1>5, <1>6, <1>7, <1>8, <1>9, <1>10, <1>11, <1>12,
     <1>13, <1>14, <1>15, <1>16, <1>17, <1>18, <1>19, <1>20, <1>21
     DEF Next, HandlerStep, ServerStep

\* Every step preserves the invariant of the lease.
LEMMA LeaseStep == TypeOK /\ LeaseInv /\ HandlerInv /\ [Next]_vars => LeaseInv'
<1> SUFFICES ASSUME TypeOK, LeaseInv, HandlerInv, [Next]_vars PROVE LeaseInv'
  OBVIOUS
<1> USE ConstantsAreSane DEF serverVars, lockVars, handlerVars, historyVars
<1>1. ASSUME NEW s \in Servers, Construct(s) PROVE LeaseInv'
  BY <1>1 DEF Construct, TypeOK, LeaseInv
<1>2. ASSUME NEW s \in Servers, StartServing(s) PROVE LeaseInv'
  BY <1>2 DEF StartServing, TypeOK, LeaseInv
<1>3. ASSUME NEW s \in Servers, StopServing(s) PROVE LeaseInv'
  BY <1>3 DEF StopServing, ReleaseIfQuiesced, Active, TypeOK, LeaseInv
<1>4. ASSUME NEW s \in Servers, CloseSocket(s) PROVE LeaseInv'
  BY <1>4 DEF CloseSocket, ReleaseIfQuiesced, Active, TypeOK, LeaseInv
<1>5. ASSUME NEW s \in Servers, ReleaseRetained(s) PROVE LeaseInv'
  BY <1>5 DEF ReleaseRetained, ReleaseIfQuiesced, Active, TypeOK, LeaseInv
<1>6. ASSUME NEW s \in Servers, Crash(s) PROVE LeaseInv'
  BY <1>6 DEF Crash, Active, TypeOK, LeaseInv
<1>7. ASSUME NEW h \in Handlers, Refuse(h) PROVE LeaseInv'
  BY <1>7 DEF Refuse, Goto, TypeOK, LeaseInv
<1>8. ASSUME NEW h \in Handlers, Claim(h) PROVE LeaseInv'
  BY <1>8, ClaimByHandler DEF Claim, Goto, TypeOK, LeaseInv
<1>9. ASSUME NEW h \in Handlers, FindRow(h) PROVE LeaseInv'
  BY <1>9 DEF FindRow, Goto, Table!ClaimFindsRow, TypeOK, LeaseInv
<1>10. ASSUME NEW h \in Handlers, EnterExecution(h) PROVE LeaseInv'
  BY <1>10 DEF EnterExecution, Goto, TypeOK, LeaseInv
<1>11. ASSUME NEW h \in Handlers, Begin(h) PROVE LeaseInv'
  BY <1>11, BeginByHandler DEF Begin, Goto, TypeOK, LeaseInv
<1>12. ASSUME NEW h \in Handlers, Call(h) PROVE LeaseInv'
  BY <1>12 DEF Call, Goto, TypeOK, LeaseInv
<1>13. ASSUME NEW h \in Handlers, Escape(h) PROVE LeaseInv'
  BY <1>13 DEF Escape, Goto, LeaveCreate, LeaveExecution, TypeOK, LeaseInv
<1>14. ASSUME NEW h \in Handlers, Complete(h) PROVE LeaseInv'
  BY <1>14, CompleteByHandler DEF Complete, Goto, TypeOK, LeaseInv
<1>15. ASSUME NEW h \in Handlers, StoreError(h) PROVE LeaseInv'
  BY <1>15 DEF StoreError, Goto, LeaveExecution, TypeOK, LeaseInv
<1>16. ASSUME NEW h \in Handlers, Answer(h) PROVE LeaseInv'
  BY <1>16 DEF Answer, Goto, TypeOK, LeaseInv
<1>17. ASSUME NEW h \in Handlers, Finish(h) PROVE LeaseInv'
  BY <1>17 DEF Finish, Goto, ReleaseIfQuiesced, Active, TypeOK, LeaseInv
<1>18. ASSUME NEW h \in Handlers, NEW a \in Answers, Return(h, a) PROVE LeaseInv'
  BY <1>18 DEF Return, Goto, LeaveCreate, LeaveExecution, TypeOK, LeaseInv
<1>19. ASSUME NEW h \in Handlers, NEW s \in Servers, Accept(h, s) PROVE LeaseInv'
  BY <1>19 DEF Accept, Goto, TypeOK, LeaseInv
<1>20. ASSUME NEW h \in Handlers, NEW k \in Keys, NEW r \in Requests,
              Receive(h, k, r) PROVE LeaseInv'
  BY <1>20 DEF Receive, Goto, TypeOK, LeaseInv
<1>21. CASE UNCHANGED vars
  BY <1>21 DEF vars, TypeOK, LeaseInv
<1>. QED
  BY <1>1, <1>2, <1>3, <1>4, <1>5, <1>6, <1>7, <1>8, <1>9, <1>10, <1>11, <1>12,
     <1>13, <1>14, <1>15, <1>16, <1>17, <1>18, <1>19, <1>20, <1>21
     DEF Next, HandlerStep, ServerStep

\* Only a handler's ledger transactions write the ledger.
LEMMA LedgerWriters ==
  ASSUME [Next]_vars
  PROVE  UNCHANGED requests \/ \E h \in Handlers : Claim(h) \/ Begin(h) \/ Complete(h)
BY DEF Next, ServerStep, HandlerStep, Construct, StartServing, StopServing, CloseSocket,
       ReleaseRetained, Crash, Refuse, FindRow, Table!ClaimFindsRow, EnterExecution, Call,
       Return, Escape, StoreError, Answer, Finish, Accept, Receive, vars

\* Every step leaves well-formed rows.
LEMMA RowsStep == TypeOK /\ RowsWellFormed /\ LeaseInv /\ HandlerInv /\ [Next]_vars
                  => RowsWellFormed'
<1> SUFFICES ASSUME TypeOK, RowsWellFormed, LeaseInv, HandlerInv, [Next]_vars
             PROVE  RowsWellFormed'
  OBVIOUS
<1> USE ConstantsAreSane
<1>1. CASE UNCHANGED requests
  BY <1>1 DEF RowsWellFormed
<1>2. ASSUME NEW h \in Handlers, Claim(h) PROVE RowsWellFormed'
  BY <1>2, ClaimByHandler DEF RowsWellFormed
<1>3. ASSUME NEW h \in Handlers, Begin(h) PROVE RowsWellFormed'
  BY <1>3, BeginByHandler DEF RowsWellFormed
<1>4. ASSUME NEW h \in Handlers, Complete(h) PROVE RowsWellFormed'
  BY <1>4, CompleteByHandler DEF RowsWellFormed
<1>. QED
  BY <1>1, <1>2, <1>3, <1>4, LedgerWriters

\* Every step preserves what the handlers know.
LEMMA HandlersStep == TypeOK /\ RowsWellFormed /\ LeaseInv /\ HandlerInv
                      /\ ClaimsAreExclusive /\ [Next]_vars => HandlerInv'
<1> SUFFICES ASSUME TypeOK, RowsWellFormed, LeaseInv, HandlerInv, ClaimsAreExclusive, [Next]_vars
             PROVE  HandlerInv'
  OBVIOUS
<1> USE ConstantsAreSane DEF serverVars, lockVars, handlerVars, historyVars
<1>1. ASSUME NEW s \in Servers, Construct(s) PROVE HandlerInv'
  BY <1>1, HandlerTypes DEF Construct, TypeOK, HandlerInv, HandlerOK, Waiting, Started
<1>2. ASSUME NEW s \in Servers, StartServing(s) PROVE HandlerInv'
  BY <1>2, HandlerTypes DEF StartServing, TypeOK, HandlerInv, HandlerOK, Waiting,
     Started
<1>3. ASSUME NEW s \in Servers, StopServing(s) PROVE HandlerInv'
  BY <1>3, HandlerTypes DEF StopServing, ReleaseIfQuiesced, Active, TypeOK,
     HandlerInv, HandlerOK, Waiting, Started
<1>4. ASSUME NEW s \in Servers, CloseSocket(s) PROVE HandlerInv'
  BY <1>4, HandlerTypes DEF CloseSocket, ReleaseIfQuiesced, Active, TypeOK,
     HandlerInv, HandlerOK, Waiting, Started
<1>5. ASSUME NEW s \in Servers, ReleaseRetained(s) PROVE HandlerInv'
  BY <1>5, HandlerTypes DEF ReleaseRetained, ReleaseIfQuiesced, Active, TypeOK,
     HandlerInv, HandlerOK, Waiting, Started
<1>6. ASSUME NEW s \in Servers, Crash(s) PROVE HandlerInv'
  BY <1>6, HandlerTypes DEF Crash, Active, TypeOK, HandlerInv, HandlerOK, Waiting,
     Started
<1>7. ASSUME NEW h \in Handlers, Refuse(h) PROVE HandlerInv'
  BY <1>7, HandlerTypes DEF Refuse, Goto, TypeOK, HandlerInv, HandlerOK, Waiting,
     Started
<1>8. ASSUME NEW h \in Handlers, Claim(h) PROVE HandlerInv'
  <2> SUFFICES ASSUME NEW i \in Handlers PROVE HandlerOK(i)'
    BY DEF HandlerInv
  <2>1. CASE i = h
    <3>1. /\ pc' = [pc EXCEPT ![h] = "claimed"]
          /\ key' = key /\ request' = request /\ result' = result /\ server' = server
      BY <1>8 DEF Claim, Goto
    <3>2. pc'[i] = "claimed"
      BY <2>1, <3>1 DEF TypeOK
    <3>. QED
      BY <1>8, <2>1, <3>1, <3>2, ClaimByHandler DEF HandlerOK, Waiting, Started
  <2>2. CASE i # h /\ pc[i] \in Waiting \union Started \union {"answering"}
    <3>1. requests'[key[i]] = requests[key[i]]
      BY <1>8, <2>2, OthersKeepTheirRows
    <3>. QED
      BY <1>8, <2>2, <3>1 DEF Claim, Goto, TypeOK, HandlerInv, HandlerOK, Waiting,
         Started
  <2>3. CASE i # h /\ pc[i] \notin Waiting \union Started \union {"answering"}
    BY <1>8, <2>3 DEF Claim, Goto, TypeOK, HandlerInv, HandlerOK, Waiting, Started
  <2>. QED
    BY <2>1, <2>2, <2>3
<1>9. ASSUME NEW h \in Handlers, FindRow(h) PROVE HandlerInv'
  <2>1. key[h] \in Keys /\ pc[h] = "received"
    BY <1>9, HandlerTypes DEF FindRow
  <2>2. requests[key[h]].state = "completed" => requests[key[h]].answer \in Answers
    BY <2>1 DEF TypeOK, RowsWellFormed, Table!Row
  <2>. QED
    BY <1>9, <2>1, <2>2 DEF FindRow, Goto, Table!ClaimFindsRow, TypeOK, HandlerInv,
       HandlerOK,
       Waiting, Started
<1>10. ASSUME NEW h \in Handlers, EnterExecution(h) PROVE HandlerInv'
  BY <1>10, HandlerTypes DEF EnterExecution, Goto, TypeOK, HandlerInv, HandlerOK,
     Waiting, Started
<1>11. ASSUME NEW h \in Handlers, Begin(h) PROVE HandlerInv'
  <2> SUFFICES ASSUME NEW i \in Handlers PROVE HandlerOK(i)'
    BY DEF HandlerInv
  <2>1. CASE i = h
    <3>1. /\ pc' = [pc EXCEPT ![h] = "begun"]
          /\ key' = key /\ request' = request /\ result' = result /\ server' = server
      BY <1>11 DEF Begin, Goto
    <3>2. pc'[i] = "begun"
      BY <2>1, <3>1 DEF TypeOK
    <3>. QED
      BY <1>11, <2>1, <3>1, <3>2, BeginByHandler DEF HandlerOK, Waiting, Started
  <2>2. CASE i # h /\ pc[i] \in Waiting \union Started \union {"answering"}
    <3>1. requests'[key[i]] = requests[key[i]]
      BY <1>11, <2>2, OthersKeepTheirRows
    <3>. QED
      BY <1>11, <2>2, <3>1 DEF Begin, Goto, TypeOK, HandlerInv, HandlerOK, Waiting,
         Started
  <2>3. CASE i # h /\ pc[i] \notin Waiting \union Started \union {"answering"}
    BY <1>11, <2>3 DEF Begin, Goto, TypeOK, HandlerInv, HandlerOK, Waiting, Started
  <2>. QED
    BY <2>1, <2>2, <2>3
<1>12. ASSUME NEW h \in Handlers, Call(h) PROVE HandlerInv'
  BY <1>12, HandlerTypes DEF Call, Goto, TypeOK, HandlerInv, HandlerOK, Waiting, Started
<1>13. ASSUME NEW h \in Handlers, Escape(h) PROVE HandlerInv'
  BY <1>13, HandlerTypes DEF Escape, Goto, LeaveCreate, LeaveExecution, TypeOK,
     HandlerInv, HandlerOK, Waiting, Started
<1>14. ASSUME NEW h \in Handlers, Complete(h) PROVE HandlerInv'
  <2> SUFFICES ASSUME NEW i \in Handlers PROVE HandlerOK(i)'
    BY DEF HandlerInv
  <2>1. CASE i = h
    <3>1. /\ pc' = [pc EXCEPT ![h] = "answering"]
          /\ key' = key /\ request' = request /\ result' = result /\ server' = server
      BY <1>14 DEF Complete, Goto
    <3>2. pc'[i] = "answering"
      BY <2>1, <3>1 DEF TypeOK
    <3>. QED
      BY <1>14, <2>1, <3>1, <3>2, CompleteByHandler DEF HandlerOK, Waiting, Started
  <2>2. CASE i # h /\ pc[i] \in Waiting \union Started \union {"answering"}
    <3>1. requests'[key[i]] = requests[key[i]]
      BY <1>14, <2>2, OthersKeepTheirRows
    <3>. QED
      BY <1>14, <2>2, <3>1 DEF Complete, Goto, TypeOK, HandlerInv, HandlerOK,
         Waiting, Started
  <2>3. CASE i # h /\ pc[i] \notin Waiting \union Started \union {"answering"}
    BY <1>14, <2>3 DEF Complete, Goto, TypeOK, HandlerInv, HandlerOK, Waiting, Started
  <2>. QED
    BY <2>1, <2>2, <2>3
<1>15. ASSUME NEW h \in Handlers, StoreError(h) PROVE HandlerInv'
  BY <1>15, HandlerTypes DEF StoreError, Goto, LeaveExecution, TypeOK, HandlerInv,
     HandlerOK, Waiting, Started
<1>16. ASSUME NEW h \in Handlers, Answer(h) PROVE HandlerInv'
  BY <1>16, HandlerTypes DEF Answer, Goto, TypeOK, HandlerInv, HandlerOK, Waiting,
     Started
<1>17. ASSUME NEW h \in Handlers, Finish(h) PROVE HandlerInv'
  BY <1>17, HandlerTypes DEF Finish, Goto, ReleaseIfQuiesced, Active, TypeOK,
     HandlerInv, HandlerOK, Waiting, Started
<1>18. ASSUME NEW h \in Handlers, NEW a \in Answers, Return(h, a) PROVE HandlerInv'
  BY <1>18, HandlerTypes DEF Return, Goto, LeaveCreate, LeaveExecution, TypeOK,
     HandlerInv, HandlerOK, Waiting, Started
<1>19. ASSUME NEW h \in Handlers, NEW s \in Servers, Accept(h, s) PROVE HandlerInv'
  BY <1>19, HandlerTypes DEF Accept, Goto, TypeOK, HandlerInv, HandlerOK, Waiting,
     Started
<1>20. ASSUME NEW h \in Handlers, NEW k \in Keys, NEW r \in Requests,
              Receive(h, k, r) PROVE HandlerInv'
  BY <1>20, HandlerTypes DEF Receive, Goto, TypeOK, HandlerInv, HandlerOK, Waiting,
     Started
<1>21. CASE UNCHANGED vars
  BY <1>21 DEF vars, TypeOK, HandlerInv, HandlerOK, Waiting, Started
<1>. QED
  BY <1>1, <1>2, <1>3, <1>4, <1>5, <1>6, <1>7, <1>8, <1>9, <1>10, <1>11, <1>12,
     <1>13, <1>14, <1>15, <1>16, <1>17, <1>18, <1>19, <1>20, <1>21
     DEF Next, HandlerStep, ServerStep

\* No step puts two handlers under one claim.
LEMMA ExclusiveStep == TypeOK /\ LeaseInv /\ HandlerInv /\ ClaimsAreExclusive
                       /\ [Next]_vars => ClaimsAreExclusive'
<1> SUFFICES ASSUME TypeOK, LeaseInv, HandlerInv, ClaimsAreExclusive, [Next]_vars
             PROVE  ClaimsAreExclusive'
  OBVIOUS
<1> USE ConstantsAreSane DEF serverVars, lockVars, handlerVars, historyVars
<1>1. ASSUME NEW s \in Servers, Construct(s) PROVE ClaimsAreExclusive'
  BY <1>1 DEF Construct, TypeOK, ClaimsAreExclusive, Waiting, Started
<1>2. ASSUME NEW s \in Servers, StartServing(s) PROVE ClaimsAreExclusive'
  BY <1>2 DEF StartServing, TypeOK, ClaimsAreExclusive, Waiting, Started
<1>3. ASSUME NEW s \in Servers, StopServing(s) PROVE ClaimsAreExclusive'
  BY <1>3 DEF StopServing, ReleaseIfQuiesced, Active, TypeOK, ClaimsAreExclusive,
     Waiting, Started
<1>4. ASSUME NEW s \in Servers, CloseSocket(s) PROVE ClaimsAreExclusive'
  BY <1>4 DEF CloseSocket, ReleaseIfQuiesced, Active, TypeOK, ClaimsAreExclusive,
     Waiting, Started
<1>5. ASSUME NEW s \in Servers, ReleaseRetained(s) PROVE ClaimsAreExclusive'
  BY <1>5 DEF ReleaseRetained, ReleaseIfQuiesced, Active, TypeOK,
     ClaimsAreExclusive, Waiting, Started
<1>6. ASSUME NEW s \in Servers, Crash(s) PROVE ClaimsAreExclusive'
  BY <1>6 DEF Crash, Active, TypeOK, ClaimsAreExclusive, Waiting, Started
<1>7. ASSUME NEW h \in Handlers, Refuse(h) PROVE ClaimsAreExclusive'
  BY <1>7 DEF Refuse, Goto, TypeOK, ClaimsAreExclusive, Waiting, Started
<1>8. ASSUME NEW h \in Handlers, Claim(h) PROVE ClaimsAreExclusive'
  <2>1. \A i \in Handlers : i # h /\ pc[i] \in Waiting \union Started => key[i] # key[h]
    BY <1>8, OthersKeepTheirRows
  <2>. QED
    BY <1>8, <2>1 DEF Claim, Goto, TypeOK, ClaimsAreExclusive, Waiting, Started
<1>9. ASSUME NEW h \in Handlers, FindRow(h) PROVE ClaimsAreExclusive'
  BY <1>9 DEF FindRow, Goto, Table!ClaimFindsRow, TypeOK, ClaimsAreExclusive,
     Waiting, Started
<1>10. ASSUME NEW h \in Handlers, EnterExecution(h) PROVE ClaimsAreExclusive'
  BY <1>10 DEF EnterExecution, Goto, TypeOK, ClaimsAreExclusive, Waiting, Started
<1>11. ASSUME NEW h \in Handlers, Begin(h) PROVE ClaimsAreExclusive'
  BY <1>11, BeginByHandler DEF Begin, Goto, TypeOK, ClaimsAreExclusive, Waiting, Started
<1>12. ASSUME NEW h \in Handlers, Call(h) PROVE ClaimsAreExclusive'
  BY <1>12 DEF Call, Goto, TypeOK, ClaimsAreExclusive, Waiting, Started
<1>13. ASSUME NEW h \in Handlers, Escape(h) PROVE ClaimsAreExclusive'
  BY <1>13 DEF Escape, Goto, LeaveCreate, LeaveExecution, TypeOK,
     ClaimsAreExclusive, Waiting, Started
<1>14. ASSUME NEW h \in Handlers, Complete(h) PROVE ClaimsAreExclusive'
  BY <1>14, CompleteByHandler DEF Complete, Goto, TypeOK, ClaimsAreExclusive,
     Waiting, Started
<1>15. ASSUME NEW h \in Handlers, StoreError(h) PROVE ClaimsAreExclusive'
  BY <1>15 DEF StoreError, Goto, LeaveExecution, TypeOK, ClaimsAreExclusive,
     Waiting, Started
<1>16. ASSUME NEW h \in Handlers, Answer(h) PROVE ClaimsAreExclusive'
  BY <1>16 DEF Answer, Goto, TypeOK, ClaimsAreExclusive, Waiting, Started
<1>17. ASSUME NEW h \in Handlers, Finish(h) PROVE ClaimsAreExclusive'
  BY <1>17 DEF Finish, Goto, ReleaseIfQuiesced, Active, TypeOK, ClaimsAreExclusive,
     Waiting, Started
<1>18. ASSUME NEW h \in Handlers, NEW a \in Answers, Return(h, a) PROVE ClaimsAreExclusive'
  BY <1>18 DEF Return, Goto, LeaveCreate, LeaveExecution, TypeOK,
     ClaimsAreExclusive, Waiting, Started
<1>19. ASSUME NEW h \in Handlers, NEW s \in Servers, Accept(h, s) PROVE ClaimsAreExclusive'
  BY <1>19 DEF Accept, Goto, TypeOK, ClaimsAreExclusive, Waiting, Started
<1>20. ASSUME NEW h \in Handlers, NEW k \in Keys, NEW r \in Requests,
              Receive(h, k, r) PROVE ClaimsAreExclusive'
  BY <1>20 DEF Receive, Goto, TypeOK, ClaimsAreExclusive, Waiting, Started
<1>21. CASE UNCHANGED vars
  BY <1>21 DEF vars, TypeOK, ClaimsAreExclusive, Waiting, Started
<1>. QED
  BY <1>1, <1>2, <1>3, <1>4, <1>5, <1>6, <1>7, <1>8, <1>9, <1>10, <1>11, <1>12,
     <1>13, <1>14, <1>15, <1>16, <1>17, <1>18, <1>19, <1>20, <1>21
     DEF Next, HandlerStep, ServerStep

\* Every step preserves who holds the two locks.
LEMMA LocksStep == TypeOK /\ LeaseInv /\ HandlerInv /\ LocksInv /\ [Next]_vars => LocksInv'
<1> SUFFICES ASSUME TypeOK, LeaseInv, HandlerInv, LocksInv, [Next]_vars PROVE LocksInv'
  OBVIOUS
<1> USE ConstantsAreSane DEF serverVars, lockVars, handlerVars, historyVars
<1>1. ASSUME NEW s \in Servers, Construct(s) PROVE LocksInv'
  BY <1>1 DEF Construct, TypeOK, LeaseInv, LocksInv
<1>2. ASSUME NEW s \in Servers, StartServing(s) PROVE LocksInv'
  BY <1>2 DEF StartServing, TypeOK, LeaseInv, LocksInv
<1>3. ASSUME NEW s \in Servers, StopServing(s) PROVE LocksInv'
  BY <1>3 DEF StopServing, ReleaseIfQuiesced, Active, TypeOK, LeaseInv, LocksInv
<1>4. ASSUME NEW s \in Servers, CloseSocket(s) PROVE LocksInv'
  BY <1>4 DEF CloseSocket, ReleaseIfQuiesced, Active, TypeOK, LeaseInv, LocksInv
<1>5. ASSUME NEW s \in Servers, ReleaseRetained(s) PROVE LocksInv'
  BY <1>5 DEF ReleaseRetained, ReleaseIfQuiesced, Active, TypeOK, LeaseInv, LocksInv
<1>6. ASSUME NEW s \in Servers, Crash(s) PROVE LocksInv'
  BY <1>6 DEF Crash, Active, TypeOK, LeaseInv, LocksInv
<1>7. ASSUME NEW h \in Handlers, Refuse(h) PROVE LocksInv'
  BY <1>7 DEF Refuse, Goto, TypeOK, LeaseInv, LocksInv
<1>8. ASSUME NEW h \in Handlers, Claim(h) PROVE LocksInv'
  BY <1>8, ClaimByHandler DEF Claim, Goto, TypeOK, LeaseInv, LocksInv
<1>9. ASSUME NEW h \in Handlers, FindRow(h) PROVE LocksInv'
  BY <1>9 DEF FindRow, Goto, Table!ClaimFindsRow, TypeOK, LeaseInv, LocksInv
<1>10. ASSUME NEW h \in Handlers, EnterExecution(h) PROVE LocksInv'
  BY <1>10 DEF EnterExecution, Goto, TypeOK, LeaseInv, LocksInv
<1>11. ASSUME NEW h \in Handlers, Begin(h) PROVE LocksInv'
  BY <1>11, BeginByHandler DEF Begin, Goto, TypeOK, LeaseInv, LocksInv
<1>12. ASSUME NEW h \in Handlers, Call(h) PROVE LocksInv'
  BY <1>12 DEF Call, Goto, TypeOK, LeaseInv, LocksInv
<1>13. ASSUME NEW h \in Handlers, Escape(h) PROVE LocksInv'
  BY <1>13 DEF Escape, Goto, LeaveCreate, LeaveExecution, TypeOK, LeaseInv, LocksInv
<1>14. ASSUME NEW h \in Handlers, Complete(h) PROVE LocksInv'
  BY <1>14, CompleteByHandler DEF Complete, Goto, TypeOK, LeaseInv, LocksInv
<1>15. ASSUME NEW h \in Handlers, StoreError(h) PROVE LocksInv'
  BY <1>15 DEF StoreError, Goto, LeaveExecution, TypeOK, LeaseInv, LocksInv
<1>16. ASSUME NEW h \in Handlers, Answer(h) PROVE LocksInv'
  BY <1>16 DEF Answer, Goto, TypeOK, LeaseInv, LocksInv
<1>17. ASSUME NEW h \in Handlers, Finish(h) PROVE LocksInv'
  BY <1>17 DEF Finish, Goto, ReleaseIfQuiesced, Active, TypeOK, LeaseInv, LocksInv
<1>18. ASSUME NEW h \in Handlers, NEW a \in Answers, Return(h, a) PROVE LocksInv'
  BY <1>18 DEF Return, Goto, LeaveCreate, LeaveExecution, TypeOK, LeaseInv, LocksInv
<1>19. ASSUME NEW h \in Handlers, NEW s \in Servers, Accept(h, s) PROVE LocksInv'
  BY <1>19 DEF Accept, Goto, TypeOK, LeaseInv, LocksInv
<1>20. ASSUME NEW h \in Handlers, NEW k \in Keys, NEW r \in Requests,
              Receive(h, k, r) PROVE LocksInv'
  BY <1>20 DEF Receive, Goto, TypeOK, LeaseInv, LocksInv
<1>21. CASE UNCHANGED vars
  BY <1>21 DEF vars, TypeOK, LeaseInv, LocksInv
<1>. QED
  BY <1>1, <1>2, <1>3, <1>4, <1>5, <1>6, <1>7, <1>8, <1>9, <1>10, <1>11, <1>12,
     <1>13, <1>14, <1>15, <1>16, <1>17, <1>18, <1>19, <1>20, <1>21
     DEF Next, HandlerStep, ServerStep

\* Every step preserves the count of service calls.
LEMMA CallsStep == TypeOK /\ RowsWellFormed /\ LeaseInv /\ HandlerInv
                   /\ ClaimsAreExclusive /\ CallsInv /\ [Next]_vars => CallsInv'
<1> SUFFICES ASSUME TypeOK, RowsWellFormed, LeaseInv, HandlerInv, ClaimsAreExclusive,
                    CallsInv, [Next]_vars
             PROVE  CallsInv'
  OBVIOUS
<1> USE ConstantsAreSane DEF serverVars, lockVars, handlerVars, historyVars
<1>1. ASSUME NEW s \in Servers, Construct(s) PROVE CallsInv'
  BY <1>1 DEF Construct, TypeOK, CallsInv
<1>2. ASSUME NEW s \in Servers, StartServing(s) PROVE CallsInv'
  BY <1>2 DEF StartServing, TypeOK, CallsInv
<1>3. ASSUME NEW s \in Servers, StopServing(s) PROVE CallsInv'
  BY <1>3 DEF StopServing, ReleaseIfQuiesced, Active, TypeOK, CallsInv
<1>4. ASSUME NEW s \in Servers, CloseSocket(s) PROVE CallsInv'
  BY <1>4 DEF CloseSocket, ReleaseIfQuiesced, Active, TypeOK, CallsInv
<1>5. ASSUME NEW s \in Servers, ReleaseRetained(s) PROVE CallsInv'
  BY <1>5 DEF ReleaseRetained, ReleaseIfQuiesced, Active, TypeOK, CallsInv
<1>6. ASSUME NEW s \in Servers, Crash(s) PROVE CallsInv'
  BY <1>6 DEF Crash, Active, TypeOK, CallsInv
<1>7. ASSUME NEW h \in Handlers, Refuse(h) PROVE CallsInv'
  BY <1>7 DEF Refuse, Goto, TypeOK, CallsInv
<1>8. ASSUME NEW h \in Handlers, Claim(h) PROVE CallsInv'
  <2>1. key[h] \in Keys /\ calls[key[h]] = 0
    <3>1. /\ key[h] \in Keys
          /\ requests[key[h]].state # "completed"
          /\ ~requests[key[h]].started
          /\ requests[key[h]].state = "in_progress" => requests[key[h]].owner # None
      BY <1>8, ClaimByHandler, InitialRows DEF RowsWellFormed
    <3>2. calls[key[h]] \in Nat /\ ~(calls[key[h]] > 0)
      BY <3>1 DEF CallsInv, TypeOK
    <3>. QED
      BY <3>1, <3>2
  <2>2. \A k \in Keys :
           /\ k # key[h] => requests'[k] = requests[k]
           /\ calls'[k] = calls[k]
    BY <1>8, ClaimByHandler DEF Claim, historyVars
  <2>3. requests'[key[h]].state = "in_progress"
    BY <1>8, ClaimByHandler
  <2>4. \A i \in Handlers : /\ i # h => pc'[i] = pc[i]
                            /\ pc'[h] \notin {"calling", "settling"}
    BY <1>8 DEF Claim, Goto, TypeOK
  <2>. QED
    BY <1>8, <2>1, <2>2, <2>3, <2>4 DEF CallsInv, Claim, TypeOK
<1>9. ASSUME NEW h \in Handlers, FindRow(h) PROVE CallsInv'
  BY <1>9 DEF FindRow, Goto, Table!ClaimFindsRow, TypeOK, CallsInv
<1>10. ASSUME NEW h \in Handlers, EnterExecution(h) PROVE CallsInv'
  BY <1>10 DEF EnterExecution, Goto, TypeOK, CallsInv
<1>11. ASSUME NEW h \in Handlers, Begin(h) PROVE CallsInv'
  <2>1. key[h] \in Keys /\ calls[key[h]] = 0
    <3>1. /\ key[h] \in Keys
          /\ requests[key[h]].state # "completed"
          /\ ~requests[key[h]].started
          /\ requests[key[h]].state = "in_progress" => requests[key[h]].owner # None
      BY <1>11, BeginByHandler, InitialRows DEF RowsWellFormed
    <3>2. calls[key[h]] \in Nat /\ ~(calls[key[h]] > 0)
      BY <3>1 DEF CallsInv, TypeOK
    <3>. QED
      BY <3>1, <3>2
  <2>2. \A k \in Keys :
           /\ k # key[h] => requests'[k] = requests[k]
           /\ calls'[k] = calls[k]
    BY <1>11, BeginByHandler DEF Begin, historyVars
  <2>3. requests'[key[h]].state = "in_progress"
    BY <1>11, BeginByHandler
  <2>4. \A i \in Handlers : /\ i # h => pc'[i] = pc[i]
                            /\ pc'[h] \notin {"calling", "settling"}
    BY <1>11 DEF Begin, Goto, TypeOK
  <2>. QED
    BY <1>11, <2>1, <2>2, <2>3, <2>4 DEF CallsInv, Begin, TypeOK
<1>12. ASSUME NEW h \in Handlers, Call(h) PROVE CallsInv'
  BY <1>12 DEF Call, Goto, TypeOK, CallsInv, HandlerInv, HandlerOK,
     ClaimsAreExclusive, Waiting, Started
<1>13. ASSUME NEW h \in Handlers, Escape(h) PROVE CallsInv'
  BY <1>13 DEF Escape, Goto, LeaveCreate, LeaveExecution, TypeOK, CallsInv
<1>14. ASSUME NEW h \in Handlers, Complete(h) PROVE CallsInv'
  <2>1. key[h] \in Keys /\ calls[key[h]] = 1
    BY <1>14, CompleteByHandler DEF Complete, CallsInv
  <2>2. \A k \in Keys :
           /\ k # key[h] => requests'[k] = requests[k]
           /\ calls'[k] = calls[k]
    BY <1>14, CompleteByHandler DEF Complete, historyVars
  <2>3. requests'[key[h]].started
    BY <1>14, CompleteByHandler
  <2>4. \A i \in Handlers : pc'[i] \in {"begun", "calling", "settling"} => pc[i] = pc'[i]
    BY <1>14 DEF Complete, Goto, TypeOK
  <2>. QED
    BY <1>14, <2>1, <2>2, <2>3, <2>4 DEF CallsInv, Complete
<1>15. ASSUME NEW h \in Handlers, StoreError(h) PROVE CallsInv'
  BY <1>15 DEF StoreError, Goto, LeaveExecution, TypeOK, CallsInv
<1>16. ASSUME NEW h \in Handlers, Answer(h) PROVE CallsInv'
  BY <1>16 DEF Answer, Goto, TypeOK, CallsInv
<1>17. ASSUME NEW h \in Handlers, Finish(h) PROVE CallsInv'
  BY <1>17 DEF Finish, Goto, ReleaseIfQuiesced, Active, TypeOK, CallsInv
<1>18. ASSUME NEW h \in Handlers, NEW a \in Answers, Return(h, a) PROVE CallsInv'
  BY <1>18 DEF Return, Goto, LeaveCreate, LeaveExecution, TypeOK, CallsInv
<1>19. ASSUME NEW h \in Handlers, NEW s \in Servers, Accept(h, s) PROVE CallsInv'
  BY <1>19 DEF Accept, Goto, TypeOK, CallsInv
<1>20. ASSUME NEW h \in Handlers, NEW k \in Keys, NEW r \in Requests,
              Receive(h, k, r) PROVE CallsInv'
  BY <1>20 DEF Receive, Goto, TypeOK, CallsInv
<1>21. CASE UNCHANGED vars
  BY <1>21 DEF vars, TypeOK, CallsInv
<1>. QED
  BY <1>1, <1>2, <1>3, <1>4, <1>5, <1>6, <1>7, <1>8, <1>9, <1>10, <1>11, <1>12,
     <1>13, <1>14, <1>15, <1>16, <1>17, <1>18, <1>19, <1>20, <1>21
     DEF Next, HandlerStep, ServerStep

\* Replies stay equal to the stored answers.
LEMMA RepliesStep == TypeOK /\ LeaseInv /\ HandlerInv /\ RepliesInv /\ [Next]_vars => RepliesInv'
<1> SUFFICES ASSUME TypeOK, LeaseInv, HandlerInv, RepliesInv, [Next]_vars,
                    NEW x \in replies'
             PROVE  /\ requests'[x[1]].state = "completed"
                    /\ requests'[x[1]].request = x[2]
                    /\ requests'[x[1]].answer = x[3]
  BY DEF RepliesInv
<1>1. CASE \E h \in Handlers : Answer(h)
  <2> PICK h \in Handlers : Answer(h)
    BY <1>1
  <2>1. CASE x = <<key[h], request[h], result[h]>>
    BY <2>1 DEF Answer, HandlerInv, HandlerOK
  <2>2. CASE x \in replies
    BY <2>2 DEF Answer, RepliesInv
  <2>. QED
    BY <2>1, <2>2 DEF Answer
<1>2. CASE ~ \E h \in Handlers : Answer(h)
  <2>1. x \in replies
    BY <1>2 DEF Next, ServerStep, HandlerStep, Construct, StartServing, StopServing,
       CloseSocket, ReleaseRetained, Crash, Refuse, Claim, FindRow, EnterExecution, Begin,
       Call, Return, Escape, Complete, StoreError, Finish, Accept, Receive, vars, historyVars
  <2>2. x[1] \in Keys /\ requests[x[1]].state = "completed"
    BY <2>1 DEF TypeOK, RepliesInv
  <2>3. requests'[x[1]] = requests[x[1]]
    <3>1. ASSUME NEW h \in Handlers, Claim(h) PROVE requests'[x[1]] = requests[x[1]]
      BY <2>2, <3>1, ClaimByHandler
    <3>2. ASSUME NEW h \in Handlers, Begin(h) PROVE requests'[x[1]] = requests[x[1]]
      BY <2>2, <3>2, BeginByHandler
    <3>3. ASSUME NEW h \in Handlers, Complete(h) PROVE requests'[x[1]] = requests[x[1]]
      BY <2>2, <3>3, CompleteByHandler
    <3>. QED
      BY <3>1, <3>2, <3>3, LedgerWriters
  <2>. QED
    BY <2>1, <2>3 DEF RepliesInv
<1>. QED
  BY <1>1, <1>2

-----------------------------------------------------------------------------
(* The theorems.                                                           *)

\* The inductive invariant holds of every behaviour of the write API.
THEOREM Invariance == Spec => []IInv
<1>1. Init => IInv
  BY InitHolds
<1>2. IInv /\ [Next]_vars => IInv'
  BY TypeStep, RowsStep, LeaseStep, HandlersStep, ExclusiveStep, LocksStep, CallsStep,
     RepliesStep DEF IInv
<1>. QED
  BY <1>1, <1>2, PTL DEF Spec

\* Type correctness of the ledger, the servers and the handlers.
THEOREM TypeCorrect == Spec => []TypeOK
<1>1. IInv => TypeOK
  BY DEF IInv
<1>. QED
  BY <1>1, Invariance, PTL

\* For any number of keys, servers and handlers, through any sequence of
\* crashes, restarts, takeovers and retries, the service that asks the
\* platform is called at most once for an idempotency key.
THEOREM CalledAtMostOnce == Spec => []AtMostOnce
<1>1. IInv => AtMostOnce
  BY DEF IInv, CallsInv, AtMostOnce
<1>. QED
  BY <1>1, Invariance, PTL

\* A running handler's server always holds the lease on the store, so no
\* second server can take over what the handler is working on.
THEOREM LeaseIsExclusive == Spec => [](LeaseCoversHandlers /\ RetainedLeaseIsHeld)
<1>1. IInv => LeaseCoversHandlers /\ RetainedLeaseIsHeld
  BY DEF IInv, LeaseInv, LeaseCoversHandlers, RetainedLeaseIsHeld
<1>. QED
  BY <1>1, Invariance, PTL

\* Creates never overlap inside the service, whatever the number of servers,
\* and with the shared lock no writes do and no waiting claim is started.
THEOREM CallsAreSerial == Spec => [](ServiceCallsAreSerial /\ QueuedClaimsStayUnstarted)
<1>1. IInv => ServiceCallsAreSerial
  <2> SUFFICES ASSUME IInv, NEW h \in Handlers, NEW i \in Handlers, h # i,
                      pc[h] = "calling", pc[i] = "calling"
               PROVE  ~SharedLock /\ ~(request[h] \in Creates /\ request[i] \in Creates)
    BY DEF ServiceCallsAreSerial
  <2>1. server[h] = server[i]
    BY DEF IInv, LeaseInv
  <2>. QED
    BY <2>1 DEF IInv, LocksInv
<1>2. IInv => QueuedClaimsStayUnstarted
  <2> SUFFICES ASSUME IInv, SharedLock, NEW h \in Handlers, NEW i \in Handlers,
                      pc[h] \in {"begun", "calling"}, pc[i] \in {"begun", "calling"}
               PROVE  h = i
    BY DEF QueuedClaimsStayUnstarted
  <2>1. server[h] = server[i]
    BY DEF IInv, LeaseInv
  <2>. QED
    BY <2>1 DEF IInv, LocksInv
<1>. QED
  BY <1>1, <1>2, Invariance, PTL

\* All clients are told the same about the platform attempt of a key.
THEOREM AnswersAgree == Spec => []OneAnswerPerKey
<1>1. IInv => OneAnswerPerKey
  <2> SUFFICES ASSUME IInv, NEW x \in replies, NEW y \in replies, x[1] = y[1]
               PROVE  x = y
    BY DEF OneAnswerPerKey
  <2>1. x \in Keys \X Requests \X Answers /\ y \in Keys \X Requests \X Answers
    BY DEF IInv, TypeOK
  <2>2. x[2] = y[2] /\ x[3] = y[3]
    BY DEF IInv, RepliesInv
  <2>. QED
    BY <2>1, <2>2
<1>. QED
  BY <1>1, Invariance, PTL

\* What the ledger's rows may do in one step: the execution barrier and a
\* stored answer are never undone.
LEMMA BarrierStep ==
  ASSUME TypeOK, RowsWellFormed, LeaseInv, HandlerInv, [Next]_vars, NEW k \in Keys
  PROVE  /\ requests[k].started =>
               /\ requests'[k].started
               /\ requests'[k].owner = requests[k].owner
               /\ requests'[k].request = requests[k].request
         /\ requests[k].state = "completed" => requests'[k] = requests[k]
<1> DEFINE Kept == /\ requests[k].started =>
                         /\ requests'[k].started
                         /\ requests'[k].owner = requests[k].owner
                         /\ requests'[k].request = requests[k].request
                   /\ requests[k].state = "completed" => requests'[k] = requests[k]
<1>1. ASSUME NEW h \in Handlers, Claim(h) PROVE Kept
  <2>1. requests[key[h]].state = "absent" => ~requests[key[h]].started
    BY <1>1, ClaimByHandler, InitialRows DEF RowsWellFormed
  <2>. QED
    BY <1>1, <2>1, ClaimByHandler
<1>2. ASSUME NEW h \in Handlers, Begin(h) PROVE Kept
  BY <1>2, BeginByHandler
<1>3. ASSUME NEW h \in Handlers, Complete(h) PROVE Kept
  BY <1>3, CompleteByHandler, HandlerTypes DEF Complete, HandlerInv, HandlerOK, Started
<1>. QED
  BY <1>1, <1>2, <1>3, LedgerWriters


\* The execution barrier survives every claim, crash and retry.
THEOREM BarrierHolds == Spec => BarrierIsPermanent
<1> DEFINE Kept == \A k \in Keys :
          /\ requests[k].started =>
                /\ requests'[k].started
                /\ requests'[k].owner = requests[k].owner
                /\ requests'[k].request = requests[k].request
          /\ requests[k].state = "completed" => requests'[k] = requests[k]
<1>1. IInv /\ [Next]_vars => [Kept]_vars
  BY BarrierStep DEF IInv
<1>. QED
  BY <1>1, Invariance, PTL DEF Spec, BarrierIsPermanent

-----------------------------------------------------------------------------
(* The refinement of WriteOnce.                                            *)

\* Initial states map to initial states of WriteOnce.
LEMMA PromiseInit == Init => Promise!Init
<1> SUFFICES ASSUME Init PROVE Promise!Init
  OBVIOUS
<1>1. PICK old \in SUBSET Keys, r \in [Keys -> Requests] :
         /\ requests = [k \in Keys |-> IF k \in old THEN Table!LegacyRow(r[k])
                                                    ELSE Table!NoRow]
         /\ calls = [k \in Keys |-> IF k \in old THEN 1 ELSE 0]
  BY DEF Init
<1>2. ASSUME NEW k \in Keys
      PROVE  /\ requests[k].request = IF k \in old THEN r[k] ELSE None
             /\ requests[k].answer = None
             /\ r[k] \in Requests
  <2>1. r[k] \in Requests
    OBVIOUS
  <2>2. requests[k] = IF k \in old THEN Table!LegacyRow(r[k]) ELSE Table!NoRow
    BY <1>1
  <2>. QED
    BY <2>1, <2>2, InitialRows
<1>3. {k \in Keys : calls[k] > 0} = {k \in Keys : k \in old}
  BY <1>1
<1>4. \A k \in Keys : requests[k].request # None <=> k \in old
  BY <1>2, ConstantsAreSane
<1>5. \A k \in Keys : requests[k].request \in Requests \union {None}
  BY <1>2
<1>6. \A k \in Keys : requests[k].answer = None
  BY <1>2
<1>. QED
  BY <1>3, <1>4, <1>5, <1>6 DEF Init, Promise!Init

\* A granted claim binds its key, unless it takes over an abandoned claim.
LEMMA ClaimBinds ==
  ASSUME IInv, NEW h \in Handlers, Claim(h)
  PROVE  [Promise!Next]_(Promise!promiseVars)
<1> DEFINE k == key[h]
<1>1. UNCHANGED <<calls, replies>>
  BY DEF Claim, historyVars
<1>2. /\ k \in Keys /\ request[h] \in Requests
      /\ requests'[k].request = request[h]
      /\ requests'[k].answer = requests[k].answer
      /\ requests[k].request \in {None, request[h]}
      /\ requests \in [Keys -> Table!Row] /\ requests' \in [Keys -> Table!Row]
      /\ \A j \in Keys : j # k => requests'[j] = requests[j]
  BY ClaimByHandler, InitialRows DEF IInv, TypeOK, RowsWellFormed
<1> HIDE DEF k
<1>3. CASE requests[k].request = None
  <2>1. Promise!Bind(k, request[h])
    BY <1>1, <1>2, <1>3 DEF Promise!Bind
  <2>2. k \in Keys /\ request[h] \in Requests
    BY <1>2
  <2>3. \E r \in Requests : Promise!Bind(k, r)
    BY <2>1, <2>2, Zenon DEF Promise!Bind
  <2>4. Promise!Next
    BY <2>2, <2>3, Zenon DEF Promise!Next, Promise!Bind
  <2>. QED
    BY <2>4
<1>4. CASE requests[k].request = request[h]
  BY <1>1, <1>2, <1>4 DEF Promise!promiseVars
<1>. QED
  BY <1>2, <1>3, <1>4

\* A service call is the one attempt of its key.
LEMMA CallAttempts ==
  ASSUME IInv, NEW h \in Handlers, Call(h)
  PROVE  [Promise!Next]_(Promise!promiseVars)
<1>1. pc[h] = "begun" /\ UNCHANGED <<requests, replies>>
      /\ calls' = [calls EXCEPT ![key[h]] = @ + 1]
  BY DEF Call
<1>2. /\ key[h] \in Keys
      /\ requests[key[h]].request \in Requests
      /\ calls[key[h]] = 0
      /\ calls \in [Keys -> Nat]
  BY <1>1 DEF IInv, TypeOK, CallsInv, HandlerInv, HandlerOK, Started
<1>3. Promise!Attempt(key[h])
  BY <1>1, <1>2, ConstantsAreSane DEF Promise!Attempt
<1>4. key[h] \in Keys
  BY <1>2
<1>5. Promise!Next
  BY <1>3, <1>4, SMT DEF Promise!Next, Promise!Attempt
<1>. QED
  BY <1>5

\* Storing the answer settles its key.
LEMMA CompleteSettles ==
  ASSUME IInv, NEW h \in Handlers, Complete(h)
  PROVE  [Promise!Next]_(Promise!promiseVars)
<1> DEFINE k == key[h]
<1>1. pc[h] = "settling" /\ UNCHANGED <<calls, replies>>
  BY DEF Complete, historyVars
<1>2. /\ k \in Keys /\ result[h] \in Answers
      /\ requests'[k].request = requests[k].request
      /\ requests'[k].answer = result[h]
      /\ requests[k].answer = None
      /\ requests \in [Keys -> Table!Row] /\ requests' \in [Keys -> Table!Row]
      /\ \A j \in Keys : j # k => requests'[j] = requests[j]
  BY <1>1, CompleteByHandler DEF IInv, TypeOK, RowsWellFormed, HandlerInv,
     HandlerOK, Started
<1>3. calls[k] > 0
  BY <1>1 DEF IInv, CallsInv
<1> HIDE DEF k
<1>4. Promise!Settle(k, result[h])
  BY <1>1, <1>2, <1>3 DEF Promise!Settle
<1>5. k \in Keys /\ result[h] \in Answers
  BY <1>2
<1>6. Promise!Next
  BY <1>4, <1>5 DEF Promise!Next, Promise!Settle
<1>. QED
  BY <1>6

\* An answer that is sent is the settled one.
LEMMA AnswerReplies ==
  ASSUME IInv, NEW h \in Handlers, Answer(h)
  PROVE  [Promise!Next]_(Promise!promiseVars)
<1>1. /\ pc[h] = "answering" /\ UNCHANGED <<requests, calls>>
      /\ replies' = replies \union {<<key[h], request[h], result[h]>>}
  BY DEF Answer
<1>2. /\ key[h] \in Keys
      /\ requests[key[h]].request = request[h]
      /\ requests[key[h]].answer = result[h]
      /\ result[h] # None
  BY <1>1, ConstantsAreSane DEF IInv, HandlerInv, HandlerOK
<1>3. Promise!Reply(key[h])
  BY <1>1, <1>2 DEF Promise!Reply
<1>. QED
  BY <1>2, <1>3 DEF Promise!Next

\* The execution barrier is invisible to clients.
LEMMA BeginStutters ==
  ASSUME IInv, NEW h \in Handlers, Begin(h)
  PROVE  UNCHANGED Promise!promiseVars
<1>1. UNCHANGED <<calls, replies>>
  BY DEF Begin, historyVars
<1>2. \A j \in Keys : /\ requests'[j].request = requests[j].request
                      /\ requests'[j].answer = requests[j].answer
  BY BeginByHandler DEF IInv
<1>. QED
  BY <1>1, <1>2 DEF Promise!promiseVars

\* Every step of the write API is a step of WriteOnce or changes nothing
\* that WriteOnce sees.
LEMMA PromiseStep == IInv /\ [Next]_vars => [Promise!Next]_(Promise!promiseVars)
<1> SUFFICES ASSUME IInv, [Next]_vars PROVE [Promise!Next]_(Promise!promiseVars)
  OBVIOUS
<1>1. CASE \E h \in Handlers : Claim(h) \/ Begin(h) \/ Call(h) \/ Complete(h) \/ Answer(h)
  BY <1>1, ClaimBinds, BeginStutters, CallAttempts, CompleteSettles, AnswerReplies
<1>2. CASE ~ \E h \in Handlers : Claim(h) \/ Begin(h) \/ Call(h) \/ Complete(h) \/ Answer(h)
  <2>1. UNCHANGED <<requests, calls, replies>>
    BY <1>2 DEF Next, ServerStep, HandlerStep, Construct, StartServing, StopServing,
       CloseSocket, ReleaseRetained, Crash, Refuse, FindRow, Table!ClaimFindsRow,
       EnterExecution, Return, Escape, StoreError, Finish, Accept, Receive, vars, historyVars
  <2>. QED
    BY <2>1 DEF Promise!promiseVars
<1>. QED
  BY <1>1, <1>2

\* The write API keeps the promise of WriteOnce: keys stay bound, the
\* platform is asked at most once per key, answers are final, and only they
\* are told, to the bound request.
THEOREM Refinement == Spec => PromiseKept
<1>. QED
  BY PromiseInit, PromiseStep, Invariance, PTL DEF Spec, PromiseKept, Promise!Spec
=============================================================================
