----------------------------- MODULE SafeWrite -----------------------------
(***************************************************************************)
(* One platform write after another, as SafeWriteOrchestrator performs it: *)
(* fresh owner readbacks, one attempt through a browser page, fresh        *)
(* readbacks, and a receipt that calls the outcome confirmed, ambiguous or *)
(* precondition_failed.  In parallel the platform changes on its own: the  *)
(* owner uses another device, a submitted form takes effect late or never. *)
(*                                                                         *)
(* A read is one step.  It may fail, and it may miss an ad that is there:  *)
(* the inventory is read page by page, and an ad that moves to a page      *)
(* already read is not seen.  MaxMisses bounds how many reads of one       *)
(* operation do.  Operations do not overlap (WriteApi shows why).          *)
(***************************************************************************)
EXTENDS Naturals, FiniteSets

CONSTANTS
    Ids,         \* the ids the platform can give to ads; never reused
    Titles, Texts,
    None,
    MaxOps,      \* bound: operations in a behaviour
    MaxForeign,  \* bound: changes made by others
    MaxMisses    \* reads of one operation that miss an ad

ASSUME SafeWriteConstants ==
    /\ MaxOps \in Nat /\ MaxForeign \in Nat /\ MaxMisses \in Nat
    /\ None \notin Ids \union Titles \union Texts

VARIABLES
    \* the platform
    ads,        \* ads[i]: the ad with id i, or None
    used,       \* the ids given so far
    inflight,   \* submitted forms that have not taken effect yet
    foreign,    \* changes made by others so far
    \* the running operation
    step, op,
    form,       \* what the page would submit
    pre, confirmPre,   \* create: the ids seen by the two reads before
    post,       \* what the first of two reads after the attempt saw, or None
    candidate,  \* create: the id that both reads after the attempt agree on
    misses,     \* reads of this operation that missed an ad
    old,        \* history: the ids in use when the operation began
    held,       \* history: has its goal held since it began?
    \* history
    count,      \* operations begun
    submitted,  \* the operations whose form was submitted
    receipts

platform == <<ads, used, inflight, foreign>>
reads    == <<pre, confirmPre, post, candidate, misses>>
history  == <<count, submitted, receipts>>
vars == <<platform, step, op, form, reads, old, held, history>>

States == {"pending", "active", "paused"}   \* LifecycleState of a listed ad
Ad     == [state : States, title : Titles, text : Texts]

Operations ==
    [kind : {"create"}, id : {None}, title : Titles, text : Texts]
    \union [kind : {"pause", "activate", "delete"}, id : Ids, title : {None}, text : {None}]
    \union {o \in [kind : {"update"}, id : Ids, title : Titles \union {None},
                   text : Texts \union {None}] : o.title # None \/ o.text # None}

\* The states an operation accepts before it writes (allowed_pre_states).
AllowedPreStates(kind) ==
    CASE kind = "pause"    -> {"active"}
      [] kind = "activate" -> {"paused"}
      [] kind = "update"   -> {"active", "paused"}
      [] kind = "delete"   -> States

TargetState(kind) == IF kind = "pause" THEN "paused" ELSE "active"

\* The fields an operation asks for; None means "leave alone".
Matches(o, ad) == /\ o.title \in {None, ad.title}
                  /\ o.text \in {None, ad.text}

Present(view) == {i \in Ids : view[i] # None}

\* What a read of the owner inventory can return.
Views == {ads} \union
         (IF misses < MaxMisses THEN {[ads EXCEPT ![i] = None] : i \in Present(ads)} ELSE {})

\* The read returned this view.
Saw(view) == misses' = IF view = ads THEN misses ELSE misses + 1

\* What the operation wants to see on the platform.
Goal(o, seen, ids) ==
    \/ o.kind = "create" /\ \E i \in Present(seen) \ ids : Matches(o, seen[i])
    \/ o.kind = "delete" /\ seen[o.id] = None
    \/ o.kind = "update" /\ seen[o.id] # None /\ Matches(o, seen[o.id])
    \/ /\ o.kind \in {"pause", "activate"}
       /\ seen[o.id] # None
       /\ seen[o.id].state = TargetState(o.kind)

Init ==
    /\ used \in SUBSET Ids
    /\ ads \in [Ids -> Ad \union {None}]
    /\ \A i \in Ids : ads[i] # None => i \in used
    /\ inflight = {} /\ foreign = 0
    /\ step = "idle" /\ op = None /\ form = None
    /\ pre = {} /\ confirmPre = {} /\ post = None /\ candidate = None
    /\ misses = 0 /\ old = {} /\ held = FALSE
    /\ count = 0 /\ submitted = {} /\ receipts = {}

-----------------------------------------------------------------------------
(* The operation.                                                          *)

Begin(o) ==
    /\ step = "idle"
    /\ count < MaxOps
    /\ o.id # None => o.id \in used
    /\ op' = o
    /\ step' = "gate"
    /\ old' = used
    /\ held' = Goal(o, ads, used)
    /\ count' = count + 1
    /\ UNCHANGED <<platform, form, reads, submitted, receipts>>

\* The call is over and its locals are gone.
Return ==
    /\ step' = "idle" /\ op' = None /\ form' = None
    /\ pre' = {} /\ confirmPre' = {} /\ post' = None /\ candidate' = None
    /\ misses' = 0 /\ old' = {} /\ held' = FALSE

\* The receipt is persisted and the operation is over.
Report(outcome, id) ==
    /\ receipts' = receipts \union
          {[op |-> count, kind |-> op.kind, id |-> id, outcome |-> outcome,
            old |-> old, held |-> held]}
    /\ Return
    /\ UNCHANGED <<platform, count, submitted>>

\* No evidence against the attempt but none for it either.
Ambiguous == Report("ambiguous", None)
NotAttempted == Report("precondition_failed", None)

\* The operation goes on at another step.
GoOn(next) ==
    /\ step' = next
    /\ UNCHANGED <<platform, op, old, held, history>>

\* Writes disabled, no writer, no content reader, an approval for another
\* ad, or a read before the attempt that fails or returns an id twice.
Reject ==
    /\ step \in {"gate", "confirm_pre"}
    /\ NotAttempted

\* The read before the attempt.
ReadBefore ==
    /\ step = "gate"
    /\ \E view \in Views :
          \/ /\ op.kind = "create"
             /\ pre' = Present(view)
             /\ Saw(view)
             /\ GoOn("confirm_pre")
             /\ UNCHANGED <<form, confirmPre, post, candidate>>
          \/ /\ op.kind # "create"
             /\ IF /\ view[op.id] # None
                   /\ view[op.id].state \in AllowedPreStates(op.kind)
                THEN /\ Saw(view)
                     /\ GoOn("open")
                     /\ UNCHANGED <<form, pre, confirmPre, post, candidate>>
                ELSE NotAttempted

\* A create reads the inventory twice before it writes.
ConfirmBefore ==
    /\ step = "confirm_pre"
    /\ \E view \in Views : Saw(view) /\ confirmPre' = Present(view)
    /\ GoOn("open")
    /\ UNCHANGED <<form, pre, post, candidate>>

\* What the page shows asks for no submit: the writer returns at once.
NothingToSubmit ==
    \/ op.kind = "update" /\ Matches(op, ads[op.id])
    \/ op.kind \in {"pause", "activate"} /\ ads[op.id].state = TargetState(op.kind)

\* The page opens, is read, filled and read again.
Open ==
    /\ step = "open"
    /\ op.kind # "create" => ads[op.id] # None
    /\ IF NothingToSubmit
       THEN GoOn("post") /\ UNCHANGED form
       ELSE /\ op.kind \in {"pause", "activate"} =>
                  ads[op.id].state \in AllowedPreStates(op.kind)
            /\ form' = [title |-> IF op.title = None THEN ads[op.id].title ELSE op.title,
                        text  |-> IF op.text = None THEN ads[op.id].text ELSE op.text]
            /\ GoOn("submit")
    /\ UNCHANGED reads

\* No ready page, a login or a challenge, drifted values, an error before
\* the click: the writer says that it attempted nothing.
PageNotReady ==
    /\ step \in {"open", "submit"}
    /\ NotAttempted

\* A page error that the content writer does not tell from a submit that
\* failed, and the first click of a delete, whose effect is not known.
PageErrorIsAmbiguous ==
    /\ \/ step = "open" /\ op.kind \in {"update", "delete"}
       \/ step = "submit" /\ op.kind = "update"
    /\ GoOn("post")
    /\ UNCHANGED <<form, reads>>

Effect == [op |-> count, kind |-> op.kind, id |-> op.id, form |-> form]

\* Variant: an error during the submit is taken for "nothing attempted".
SubmitErrorAsNotAttempted ==
    /\ step = "submit"
    /\ inflight' = inflight \union {Effect}
    /\ submitted' = submitted \union {count}
    /\ \/ /\ step' = "post"
          /\ UNCHANGED <<op, old, held, receipts>>
          /\ UNCHANGED <<form, reads>>
       \/ /\ receipts' = receipts \union
                {[op |-> count, kind |-> op.kind, id |-> None, old |-> old,
                  outcome |-> "precondition_failed", held |-> held]}
          /\ Return
    /\ UNCHANGED <<ads, used, foreign, count>>

\* The one click that can change the platform.  Whether the page then
\* settles, reports an error or stays unknown, the outcome is left to the
\* reads that follow.
Submit ==
    /\ step = "submit"
    /\ inflight' = inflight \union {Effect}
    /\ submitted' = submitted \union {count}
    /\ step' = "post"
    /\ UNCHANGED <<ads, used, foreign, op, form, reads, old, held, count, receipts>>

\* Variant: what the page was filled with is taken for the new content.
ConfirmFromPage ==
    /\ step = "post"
    /\ op.kind \notin {"create", "delete"}
    /\ Report("confirmed", op.id)

\* The read after the attempt, which decides an update or a state change.
ReadAfter ==
    /\ step = "post"
    /\ op.kind \notin {"create", "delete"}
    /\ \E view \in Views :
          IF Goal(op, view, old) THEN Report("confirmed", op.id) ELSE Ambiguous

\* Of a create or a delete it is the first of two; the second follows even
\* if it fails.
ReadFirstAfter ==
    /\ step = "post"
    /\ op.kind \in {"create", "delete"}
    /\ \/ \E view \in Views : Saw(view) /\ post' = view
       \/ UNCHANGED <<post, misses>>
    /\ GoOn("confirm_post")
    /\ UNCHANGED <<form, pre, confirmPre, candidate>>

\* Variant: one read after the attempt is evidence enough of absence.
ConfirmDeleteByFirstRead ==
    /\ step = "confirm_post"
    /\ op.kind = "delete"
    /\ IF post # None /\ post[op.id] = None THEN Report("confirmed", op.id) ELSE Ambiguous

\* A delete is confirmed by two reads in which the ad is absent.
ConfirmDelete ==
    /\ step = "confirm_post"
    /\ op.kind = "delete"
    /\ \E view \in Views :
          IF post # None /\ post[op.id] = None /\ view[op.id] = None
          THEN Report("confirmed", op.id)
          ELSE Ambiguous

NewIn(view, before) == Present(view) \ before

\* Variant: the new ad is inferred from the first inventories alone.
MatchFirstInventory ==
    /\ step = "confirm_post"
    /\ op.kind = "create"
    /\ IF post # None /\ \E i \in Ids : NewIn(post, pre) = {i} /\ post[i].title = op.title
       THEN /\ candidate' \in NewIn(post, pre)
            /\ GoOn("content")
            /\ UNCHANGED <<form, pre, confirmPre, post, misses>>
       ELSE Ambiguous

\* A create takes the one ad that is new in both comparisons, and only if
\* both show the requested title.
MatchInventories ==
    /\ step = "confirm_post"
    /\ op.kind = "create"
    /\ \E view \in Views :
          IF /\ post # None
             /\ \E i \in Ids : /\ NewIn(post, pre) = {i}
                               /\ NewIn(view, confirmPre) = {i}
                               /\ post[i].title = op.title
                               /\ view[i].title = op.title
          THEN /\ candidate' \in NewIn(post, pre)
               /\ Saw(view)
               /\ GoOn("content")
               /\ UNCHANGED <<form, pre, confirmPre, post>>
          ELSE Ambiguous

\* Finally its content is read in the editor of exactly that ad.
ReadContent ==
    /\ step = "content"
    /\ \E view \in Views :
          IF view[candidate] # None /\ Matches(op, view[candidate])
          THEN Report("confirmed", candidate)
          ELSE Ambiguous

\* A read after the attempt fails: no evidence, no confirmation.
ReadAfterFails ==
    /\ \/ step = "post" /\ op.kind \notin {"create", "delete"}
       \/ step \in {"confirm_post", "content"}
    /\ Ambiguous

\* The process dies, a BaseException passes, or the receipt cannot be built
\* or stored: the operation ends without a receipt.
Abandon ==
    /\ step # "idle"
    /\ Return
    /\ UNCHANGED <<platform, history>>

-----------------------------------------------------------------------------
(* The platform.                                                           *)

HoldsNow == held' = (held \/ (step # "idle" /\ Goal(op, ads', old)))

NewAd(e, s) == [state |-> s, title |-> e.form.title, text |-> e.form.text]

\* What becomes of an ad when a submitted form takes effect on it.
Changed(e, ad) ==
    CASE e.kind = "delete" -> None
      [] e.kind = "update" -> NewAd(e, ad.state)
      [] OTHER -> [state |-> TargetState(e.kind), title |-> ad.title, text |-> ad.text]

\* A submitted form takes effect; one for an ad that is gone has none.
Land ==
    /\ \E e \in inflight :
          /\ inflight' = inflight \ {e}
          /\ \/ /\ e.kind = "create"
                /\ \E i \in Ids \ used, s \in {"pending", "active"} :
                      /\ ads' = [ads EXCEPT ![i] = NewAd(e, s)]
                      /\ used' = used \union {i}
             \/ /\ e.kind # "create"
                /\ ads[e.id] # None
                /\ ads' = [ads EXCEPT ![e.id] = Changed(e, ads[e.id])]
                /\ UNCHANGED used
    /\ HoldsNow
    /\ UNCHANGED <<foreign, step, op, form, reads, old, history>>

\* A submitted form never takes effect.
Lose ==
    /\ \E e \in inflight : inflight' = inflight \ {e}
    /\ UNCHANGED <<ads, used, foreign, step, op, form, reads, old, held, history>>

\* The owner, on another device, or the platform itself.
ForeignChange ==
    /\ foreign < MaxForeign
    /\ foreign' = foreign + 1
    /\ \/ \E i \in Present(ads), ad \in Ad \union {None} :
             ads' = [ads EXCEPT ![i] = ad] /\ UNCHANGED used
       \/ \E i \in Ids \ used, ad \in Ad :
             ads' = [ads EXCEPT ![i] = ad] /\ used' = used \union {i}
    /\ HoldsNow
    /\ UNCHANGED <<inflight, step, op, form, reads, old, history>>

-----------------------------------------------------------------------------
Next ==
    \/ \E o \in Operations : Begin(o)
    \/ Reject \/ ReadBefore \/ ConfirmBefore
    \/ Open \/ PageNotReady \/ PageErrorIsAmbiguous \/ Submit
    \/ ReadAfter \/ ReadFirstAfter \/ ConfirmDelete \/ MatchInventories
    \/ ReadContent \/ ReadAfterFails \/ Abandon
    \/ Land \/ Lose \/ ForeignChange

SafeWriteSpec == Init /\ [][Next]_vars
-----------------------------------------------------------------------------
(* Properties.                                                             *)

Submits == [op : 1..MaxOps, kind : {"create", "update", "pause", "activate", "delete"},
           id : Ids \union {None},
           form : [title : Titles, text : Texts]]

\* Types of the platform, of the operation that runs and of the receipts.
SafeWriteTypeOK ==
    /\ ads \in [Ids -> Ad \union {None}]
    /\ used \subseteq Ids
    /\ inflight \subseteq Submits
    /\ foreign \in 0..MaxForeign
    /\ step \in {"idle", "gate", "confirm_pre", "open", "submit", "post", "confirm_post",
                 "content"}
    /\ op \in Operations \union {None}
    /\ pre \subseteq Ids /\ confirmPre \subseteq Ids /\ old \subseteq Ids
    /\ post \in [Ids -> Ad \union {None}] \union {None}
    /\ candidate \in Ids \union {None}
    /\ misses \in 0..MaxMisses
    /\ count \in 0..MaxOps
    /\ held \in BOOLEAN
    /\ submitted \subseteq 1..MaxOps

Confirmed == {r \in receipts : r.outcome = "confirmed"}

\* A receipt that says the precondition failed is a promise that the
\* platform was not touched: the operation submitted nothing, so nothing of
\* it can still take effect later.
NotAttemptedMeansUntouched ==
    \A r \in receipts : r.outcome = "precondition_failed" => r.op \notin submitted

\* What a receipt confirms really held on the platform at some moment of the
\* operation, although forms take effect late, others interfere and one read
\* misses an ad.
ConfirmedWasTrue == \A r \in Confirmed : r.held

\* An ad whose deletion was confirmed is gone for good.
ConfirmedDeleteIsFinal ==
    \A r \in Confirmed : r.kind = "delete" => ads[r.id] = None

\* A confirmed create names an ad that did not exist when it began.
ConfirmedCreateNamesNewAd ==
    \A r \in Confirmed : r.kind = "create" => r.id \in used \ r.old
=============================================================================
