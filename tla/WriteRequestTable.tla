------------------------- MODULE WriteRequestTable -------------------------
(***************************************************************************)
(* The idempotency ledger: the SQLite table write_api_requests of          *)
(* SnapshotStore and the three BEGIN IMMEDIATE transactions that write it. *)
(* SQLite serialises the transactions, so each is one action on the row of *)
(* its key.  A transaction whose checks fail raises and changes nothing:   *)
(* its action is then simply not enabled, and the caller's error path is   *)
(* an action of the caller (WriteApi).                                     *)
(***************************************************************************)
CONSTANTS
    Keys,       \* idempotency keys
    Requests,   \* request fingerprints (principal, method, path, payload)
    Owners,     \* claim owners: one random name per server instance
    Answers,    \* what is stored as (response_status, response_json)
    None        \* NULL

VARIABLE requests   \* requests[k]: the row of key k

Row == [state   : {"absent", "in_progress", "completed"},
        request : Requests \union {None},
        owner   : Owners \union {None},
        started : BOOLEAN,
        answer  : Answers \union {None}]

NoRow == [state |-> "absent", request |-> None, owner |-> None,
          started |-> FALSE, answer |-> None]

\* A row written before the columns claim_owner and execution_started_at
\* existed: both are NULL after the migration, whatever had been executed.
LegacyRow(r) == [NoRow EXCEPT !.state = "in_progress", !.request = r]

\* A new claim of owner o.
ClaimedRow(r, o) == [state |-> "in_progress", request |-> r, owner |-> o,
                     started |-> FALSE, answer |-> None]

-----------------------------------------------------------------------------
\* Variant: a takeover that accepts a row without a provable owner.
MayTakeOverLegacy(k, r, o) ==
    /\ requests[k].state = "in_progress"
    /\ requests[k].request = r
    /\ requests[k].owner # o
    /\ ~requests[k].started

\* can_take_over: an identical claim of another server instance, provably
\* owned and provably not executing.
MayTakeOver(k, r, o) ==
    /\ requests[k].state = "in_progress"
    /\ requests[k].request = r
    /\ requests[k].owner \notin {None, o}
    /\ ~requests[k].started

\* claim_write_api_request when it returns created=True.
ClaimRequest(k, r, o) ==
    \/ /\ requests[k].state = "absent"
       /\ requests' = [requests EXCEPT ![k] = ClaimedRow(r, o)]
    \/ /\ MayTakeOver(k, r, o)
       /\ requests' = [requests EXCEPT ![k].owner = o]

\* claim_write_api_request when it returns created=False and the row as it is.
ClaimFindsRow(k, r, o) ==
    /\ requests[k].state # "absent"
    /\ ~MayTakeOver(k, r, o)
    /\ UNCHANGED requests

\* begin_write_api_request: the barrier execution_started_at.
BeginRequest(k, r, o) ==
    /\ requests[k].state = "in_progress"
    /\ requests[k].request = r
    /\ requests[k].owner = o
    /\ ~requests[k].started
    /\ requests' = [requests EXCEPT ![k].started = TRUE]

\* complete_write_api_request; storing the same answer again is a no-op.
CompleteRequest(k, r, o, a) ==
    /\ requests[k].request = r
    /\ requests[k].owner = o
    /\ \/ /\ requests[k].state = "completed"
          /\ requests[k].answer = a
          /\ UNCHANGED requests
       \/ /\ requests[k].state = "in_progress"
          /\ requests[k].started
          /\ requests' = [requests EXCEPT ![k].state = "completed",
                                          ![k].answer = a]
=============================================================================
