--------------------------- MODULE SnapshotStore ---------------------------
(***************************************************************************)
(* The tables of SnapshotStore that describe the owner's ads: observations *)
(* (ad_snapshots), the journal of inventory reads (sync_attempts), receipts*)
(* and checkpoints of writes, and imported message events.  A database is  *)
(* a record of them.  Each method is one SQLite transaction, here a        *)
(* function from the database to the database; whether a transaction is    *)
(* possible (else the method raises and nothing changes) is a predicate.   *)
(*                                                                         *)
(* Observations are append-only and are not ordered here: nothing below    *)
(* asks which of them a reader shows first.                                *)
(***************************************************************************)
EXTENDS Naturals, Sequences, FiniteSets

CONSTANTS
    Ads,        \* ads of the owner, existing and to be created
    Messages    \* provider message ids

\* What an inventory or a readback says of an ad.
Observed == {"present", "absent"}

\* attempt: the inventory read that stored the row, 0 for a confirmed write;
\* truth: history, what the platform had when the reader looked.
Observation(a, state, attempt, truth) ==
    [ad |-> a, state |-> state, attempt |-> attempt, truth |-> truth]

EmptyDatabase ==
    [rows |-> {}, attempts |-> <<>>, receipts |-> {}, checkpoints |-> {},
     events |-> [m \in Messages |-> "none"]]

\* tracked_ad_ids: every ad ever observed, the absent ones included.
TrackedAds(db) == {r.ad : r \in db.rows}

-----------------------------------------------------------------------------
(* The journal.                                                            *)

\* due: history, the ads that the attempt has to look for.
BeginSyncAttempt(db, due) ==
    [db EXCEPT !.attempts = Append(@, [outcome |-> "in_progress", count |-> 0, due |-> due])]

\* Variant: any attempt can be given a verdict, again.
IsOpenOrNot(db, i) == i \in DOMAIN db.attempts

\* The check of _finish_sync_attempt: only an open attempt gets a verdict.
IsOpenAttempt(db, i) ==
    i \in DOMAIN db.attempts /\ db.attempts[i].outcome = "in_progress"

FinishSyncAttempt(db, i, outcome, count) ==
    [db EXCEPT !.attempts[i] = [outcome |-> outcome, count |-> count, due |-> @.due]]

FailSyncAttempt(db, i) == FinishSyncAttempt(db, i, "failed", 0)

-----------------------------------------------------------------------------
(* Inventory.                                                              *)

Present(seen) == {a \in DOMAIN seen : seen[a].state # "absent"}

InventoryRows(i, seen, tracked) ==
    {Observation(a, seen[a].state, i, seen[a].truth) : a \in Present(seen) \union tracked}

SuccessOf(seen) == IF Present(seen) = {} THEN "success_empty" ELSE "success_nonempty"

\* Variant: the verdict has a transaction of its own, and goes first.
AppendVerdictFirst(db, i, seen, tracked) ==
    FinishSyncAttempt(db, i, SuccessOf(seen), Cardinality(Present(seen)))

\* append_inventory_result of a successful read: what was seen, ABSENT for
\* the tracked rest, and the verdict, in one transaction.
AppendInventory(db, i, seen, tracked) ==
    [FinishSyncAttempt(db, i, SuccessOf(seen), Cardinality(Present(seen)))
        EXCEPT !.rows = @ \union InventoryRows(i, seen, tracked)]

-----------------------------------------------------------------------------
(* Confirmed writes.                                                       *)

\* append_operation_receipt and append_create_operation_receipt: the receipt
\* and, when the write was confirmed, the observation that confirmed it.
AppendReceipt(db, a, state, truth) ==
    [db EXCEPT !.receipts = @ \union {a},
               !.rows = @ \union {Observation(a, state, 0, truth)}]

AppendCheckpoint(db, a) == [db EXCEPT !.checkpoints = @ \union {a}]

-----------------------------------------------------------------------------
(* Message events.  A batch is a set of [id, body] records.                *)

\* Equal duplicates are idempotent, different ones refuse the whole batch.
BatchAgrees(db, batch) ==
    /\ \A e, f \in batch : e.id = f.id => e = f
    /\ \A e \in batch : db.events[e.id] \in {"none", e.body}

AppendEvents(db, batch) ==
    [db EXCEPT !.events =
        [m \in Messages |->
            IF @[m] = "none" /\ \E e \in batch : e.id = m
            THEN (CHOOSE e \in batch : e.id = m).body ELSE @[m]]]
=============================================================================
