----------------------------- MODULE WriteOnce -----------------------------
(***************************************************************************)
(* What the Mark write API promises its clients, stated per idempotency    *)
(* key and without threads, locks, processes or crashes: a key is bound to *)
(* the first request that claims it, the platform is asked at most once on *)
(* behalf of a key, the answer that is stored for a key is final, and      *)
(* whatever a client is told about a platform attempt is that answer and   *)
(* is told only to a request equal to the bound one.  WriteApi implements  *)
(* this module (see Promise there).                                        *)
(***************************************************************************)
CONSTANTS Keys, Requests, Answers, None

VARIABLES
    bound,      \* bound[k]: the request that owns key k, or None
    attempted,  \* the keys on whose behalf the platform was asked
    answer,     \* answer[k]: the final answer stored for k, or None
    replies     \* every <<key, request, answer>> that was sent to a client

promiseVars == <<bound, attempted, answer, replies>>

\* A store may come with history: keys that an earlier version of the
\* program claimed, and for which it may have asked the platform.
Init ==
    /\ bound \in [Keys -> Requests \union {None}]
    /\ attempted = {k \in Keys : bound[k] # None}
    /\ answer = [k \in Keys |-> None]
    /\ replies = {}

Bind(k, r) ==
    /\ bound[k] = None
    /\ bound' = [bound EXCEPT ![k] = r]
    /\ UNCHANGED <<attempted, answer, replies>>

Attempt(k) ==
    /\ bound[k] # None
    /\ k \notin attempted
    /\ attempted' = attempted \union {k}
    /\ UNCHANGED <<bound, answer, replies>>

Settle(k, a) ==
    /\ k \in attempted
    /\ answer[k] = None
    /\ answer' = [answer EXCEPT ![k] = a]
    /\ UNCHANGED <<bound, attempted, replies>>

Reply(k) ==
    /\ answer[k] # None
    /\ replies' = replies \union {<<k, bound[k], answer[k]>>}
    /\ UNCHANGED <<bound, attempted, answer>>

Next ==
    \E k \in Keys :
        \/ \E r \in Requests : Bind(k, r)
        \/ Attempt(k)
        \/ \E a \in Answers : Settle(k, a)
        \/ Reply(k)

Spec == Init /\ [][Next]_promiseVars
=============================================================================
