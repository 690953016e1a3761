----------------------- MODULE ProductLauncherProofs -----------------------
(***************************************************************************)
(* Proofs about ProductLauncher, for any number of processes in any roles, *)
(* of ads, messages, writes and faults: what the shared store holds is     *)
(* true, and a launcher serves and exits only as it should.                *)
(*                                                                         *)
(* The argument has three parts: what one transaction does to a database   *)
(* (lemmas about the operators of SnapshotStore), which transactions a     *)
(* step can make, and what a process knows at each place of its run, which *)
(* only its own steps and the growth of the store and the world change.    *)
(***************************************************************************)
EXTENDS ProductLauncher, FiniteSetTheorems, TLAPS

Truths   == {"unborn", "listed", "gone", "missed"}
Sights   == {Unseen} \union [state : Observed, truth : Truths]
Verdicts == {"in_progress", "failed", "success_empty", "success_nonempty"}
Success  == {"success_empty", "success_nonempty"}
Bodies   == {"none"} \union {e.body : e \in UNION {Emails[p] : p \in Procs}}
Parts    == {"inventory", "write", "server"}
Troubles == {"again", "failed", "unknown", "stuck"}

Rows      == [ad : Ads, state : Observed, attempt : Nat, truth : Truths]
Journal   == [outcome : Verdicts, count : Nat, due : SUBSET Ads]
Databases == [rows : SUBSET Rows, attempts : Seq(Journal), receipts : SUBSET Ads,
              checkpoints : SUBSET Ads, events : [Messages -> Bodies]]

-----------------------------------------------------------------------------
(* One transaction.                                                        *)

\* A database only grows: rows, receipts and checkpoints stay, a verdict and
\* an imported message are final, an attempt keeps what it has to look for.
Grows(d, new) ==
    /\ d.rows \subseteq new.rows
    /\ d.receipts \subseteq new.receipts
    /\ d.checkpoints \subseteq new.checkpoints
    /\ \A i \in DOMAIN d.attempts :
          /\ i \in DOMAIN new.attempts
          /\ new.attempts[i].due = d.attempts[i].due
          /\ d.attempts[i].outcome # "in_progress" => new.attempts[i] = d.attempts[i]
    /\ \A m \in Messages : d.events[m] # "none" => new.events[m] = d.events[m]

\* The rows of the i-th attempt.
RowsOf(d, i) == {r \in d.rows : r.attempt = i}

LEMMA BeginResult ==
  ASSUME NEW d \in Databases, NEW due \in SUBSET Ads
  PROVE  LET new == BeginSyncAttempt(d, due) IN
         /\ new \in Databases /\ Grows(d, new)
         /\ new.rows = d.rows /\ new.receipts = d.receipts
         /\ new.checkpoints = d.checkpoints /\ new.events = d.events
         /\ Len(new.attempts) = Len(d.attempts) + 1
         /\ \A i \in DOMAIN d.attempts : new.attempts[i] = d.attempts[i]
         /\ new.attempts[Len(d.attempts) + 1] =
               [outcome |-> "in_progress", count |-> 0, due |-> due]
<1>. DEFINE entry == [outcome |-> "in_progress", count |-> 0, due |-> due]
            new == BeginSyncAttempt(d, due)
<1>1. entry \in Journal
  BY DEF Journal, Verdicts
<1>2. d.attempts \in Seq(Journal)
  BY DEF Databases
<1>3. new = [d EXCEPT !.attempts = Append(d.attempts, entry)]
  BY DEF BeginSyncAttempt, Databases
<1>4. Append(d.attempts, entry) \in Seq(Journal)
  BY <1>1, <1>2
<1>5. new.attempts = Append(d.attempts, entry)
  BY <1>3 DEF Databases
<1>6. /\ new \in Databases /\ new.rows = d.rows /\ new.receipts = d.receipts
      /\ new.checkpoints = d.checkpoints /\ new.events = d.events
  BY <1>3, <1>4 DEF Databases
<1>7. /\ Len(new.attempts) = Len(d.attempts) + 1
      /\ \A i \in DOMAIN d.attempts : i \in DOMAIN new.attempts /\ new.attempts[i] = d.attempts[i]
      /\ new.attempts[Len(d.attempts) + 1] = entry
  BY <1>2, <1>5
<1>8. Grows(d, new)
  BY <1>6, <1>7 DEF Grows
<1>. QED
  BY <1>6, <1>7, <1>8

LEMMA FinishResult ==
  ASSUME NEW d \in Databases, NEW i, IsOpenAttempt(d, i), NEW outcome \in Verdicts,
         NEW count \in Nat
  PROVE  LET new == FinishSyncAttempt(d, i, outcome, count) IN
         /\ new \in Databases /\ Grows(d, new)
         /\ new.rows = d.rows /\ new.receipts = d.receipts
         /\ new.checkpoints = d.checkpoints /\ new.events = d.events
         /\ DOMAIN new.attempts = DOMAIN d.attempts /\ Len(new.attempts) = Len(d.attempts)
         /\ \A k \in DOMAIN d.attempts \ {i} : new.attempts[k] = d.attempts[k]
         /\ new.attempts[i] = [outcome |-> outcome, count |-> count, due |-> d.attempts[i].due]
<1>. DEFINE entry == [outcome |-> outcome, count |-> count, due |-> d.attempts[i].due]
            new == FinishSyncAttempt(d, i, outcome, count)
<1>1. d.attempts \in Seq(Journal) /\ i \in DOMAIN d.attempts /\ d.attempts[i].outcome = "in_progress"
  BY DEF Databases, IsOpenAttempt
<1>2. d.attempts[i] \in Journal
  BY <1>1
<1>3. entry \in Journal
  BY <1>2 DEF Journal
<1>5. new.attempts = [d.attempts EXCEPT ![i] = entry]
  BY DEF FinishSyncAttempt, Databases
<1>6. [d.attempts EXCEPT ![i] = entry] \in Seq(Journal)
  BY <1>1, <1>3
<1>7. /\ new.rows = d.rows /\ new.receipts = d.receipts
      /\ new.checkpoints = d.checkpoints /\ new.events = d.events
  BY DEF FinishSyncAttempt, Databases
<1>8. new = [d EXCEPT !.attempts = [d.attempts EXCEPT ![i] = entry]]
  BY DEF FinishSyncAttempt, Databases
<1>9. new \in Databases
  BY <1>5, <1>6, <1>8 DEF Databases
<1>10. /\ DOMAIN new.attempts = DOMAIN d.attempts /\ Len(new.attempts) = Len(d.attempts)
       /\ \A k \in DOMAIN d.attempts \ {i} : new.attempts[k] = d.attempts[k]
       /\ new.attempts[i] = entry
  BY <1>1, <1>5, <1>6
<1>11. Grows(d, new)
  BY <1>1, <1>7, <1>10 DEF Grows
<1>. QED
  BY <1>7, <1>9, <1>10, <1>11

\* What an inventory has seen is countable, and typed row by row.
LEMMA InventoryTypes ==
  ASSUME NEW s \in [Ads -> Sights], \A a \in Ads : s[a] # Unseen, NEW due \in SUBSET Ads,
         NEW i \in Nat
  PROVE  /\ Present(s) = {a \in Ads : s[a].state = "present"}
         /\ IsFiniteSet(Present(s)) /\ Cardinality(Present(s)) \in Nat
         /\ SuccessOf(s) \in Success
         /\ InventoryRows(i, s, due) \subseteq Rows
         /\ \A r \in InventoryRows(i, s, due) : r.attempt = i
<1>1. \A a \in Ads : s[a] \in [state : Observed, truth : Truths]
  BY DEF Sights
<1>2. Present(s) = {a \in Ads : s[a].state = "present"}
  BY <1>1 DEF Present, Observed
<1>3. IsFiniteSet(Ads)
  BY LauncherConstants
<1>4. IsFiniteSet(Present(s))
  BY <1>2, <1>3, FS_Subset
<1>5. Cardinality(Present(s)) \in Nat
  BY <1>4, FS_CardinalityType
<1>6. SuccessOf(s) \in Success
  BY DEF SuccessOf, Success
<1>7. Present(s) \union due \subseteq Ads
  BY <1>2
<1>8. \A a \in Ads : Observation(a, s[a].state, i, s[a].truth) \in Rows
  BY <1>1 DEF Observation, Rows
<1>9. InventoryRows(i, s, due) \subseteq Rows
  BY <1>7, <1>8 DEF InventoryRows
<1>10. \A r \in InventoryRows(i, s, due) : r.attempt = i
  BY DEF InventoryRows, Observation
<1>. QED
  BY <1>2, <1>4, <1>5, <1>6, <1>9, <1>10

LEMMA InventoryResult ==
  ASSUME NEW d \in Databases, NEW i, IsOpenAttempt(d, i),
         NEW s \in [Ads -> Sights], \A a \in Ads : s[a] # Unseen, NEW due \in SUBSET Ads
  PROVE  LET new == AppendInventory(d, i, s, due) IN
         /\ new \in Databases /\ Grows(d, new)
         /\ new.rows = d.rows \union InventoryRows(i, s, due) /\ new.receipts = d.receipts
         /\ new.checkpoints = d.checkpoints /\ new.events = d.events
         /\ DOMAIN new.attempts = DOMAIN d.attempts /\ Len(new.attempts) = Len(d.attempts)
         /\ \A k \in DOMAIN d.attempts \ {i} : new.attempts[k] = d.attempts[k]
         /\ new.attempts[i] = [outcome |-> SuccessOf(s), count |-> Cardinality(Present(s)),
                               due |-> d.attempts[i].due]
<1>. DEFINE done == FinishSyncAttempt(d, i, SuccessOf(s), Cardinality(Present(s)))
            new == AppendInventory(d, i, s, due)
<1>1. i \in Nat
  BY DEF IsOpenAttempt, Databases
<1>2. SuccessOf(s) \in Verdicts /\ Cardinality(Present(s)) \in Nat
      /\ InventoryRows(i, s, due) \subseteq Rows
  BY <1>1, InventoryTypes DEF Success, Verdicts
<1>3. /\ done \in Databases /\ Grows(d, done)
      /\ done.rows = d.rows /\ done.receipts = d.receipts
      /\ done.checkpoints = d.checkpoints /\ done.events = d.events
      /\ DOMAIN done.attempts = DOMAIN d.attempts /\ Len(done.attempts) = Len(d.attempts)
      /\ \A k \in DOMAIN d.attempts \ {i} : done.attempts[k] = d.attempts[k]
      /\ done.attempts[i] = [outcome |-> SuccessOf(s), count |-> Cardinality(Present(s)),
                             due |-> d.attempts[i].due]
  BY <1>2, FinishResult
<1>4. new = [done EXCEPT !.rows = @ \union InventoryRows(i, s, due)]
  BY DEF AppendInventory
<1>. HIDE DEF done, new
<1>5. new \in Databases /\ new.rows = done.rows \union InventoryRows(i, s, due)
  BY <1>2, <1>3, <1>4 DEF Databases
<1>6. /\ new.attempts = done.attempts /\ new.receipts = done.receipts
      /\ new.checkpoints = done.checkpoints /\ new.events = done.events
  BY <1>3, <1>4 DEF Databases
<1>7. Grows(d, new)
  BY <1>3, <1>5, <1>6 DEF Grows
<1>8. /\ new.rows = d.rows \union InventoryRows(i, s, due) /\ new.receipts = d.receipts
      /\ new.checkpoints = d.checkpoints /\ new.events = d.events
  BY <1>3, <1>5, <1>6
<1>9. /\ DOMAIN new.attempts = DOMAIN d.attempts /\ Len(new.attempts) = Len(d.attempts)
      /\ \A k \in DOMAIN d.attempts \ {i} : new.attempts[k] = d.attempts[k]
      /\ new.attempts[i] = [outcome |-> SuccessOf(s), count |-> Cardinality(Present(s)),
                            due |-> d.attempts[i].due]
  BY <1>3, <1>6
<1>. QED
  BY <1>5, <1>7, <1>8, <1>9 DEF new

LEMMA ReceiptResult ==
  ASSUME NEW d \in Databases, NEW a \in Ads, NEW state \in Observed, NEW truth \in Truths
  PROVE  LET new == AppendReceipt(d, a, state, truth) IN
         /\ new \in Databases /\ Grows(d, new)
         /\ new.rows = d.rows \union {Observation(a, state, 0, truth)}
         /\ new.receipts = d.receipts \union {a} /\ new.attempts = d.attempts
         /\ new.checkpoints = d.checkpoints /\ new.events = d.events
<1>. DEFINE new == AppendReceipt(d, a, state, truth)
<1>1. Observation(a, state, 0, truth) \in Rows
  BY DEF Observation, Rows
<1>2. new \in Databases
  BY <1>1 DEF AppendReceipt, Databases
<1>3. /\ new.rows = d.rows \union {Observation(a, state, 0, truth)}
      /\ new.receipts = d.receipts \union {a} /\ new.attempts = d.attempts
      /\ new.checkpoints = d.checkpoints /\ new.events = d.events
  BY DEF AppendReceipt, Databases
<1>. HIDE DEF new
<1>4. Grows(d, new)
  BY <1>3 DEF Grows
<1>. QED
  BY <1>2, <1>3, <1>4 DEF new

LEMMA CheckpointResult ==
  ASSUME NEW d \in Databases, NEW a \in Ads
  PROVE  LET new == AppendCheckpoint(d, a) IN
         /\ new \in Databases /\ Grows(d, new)
         /\ new.rows = d.rows /\ new.receipts = d.receipts /\ new.attempts = d.attempts
         /\ new.checkpoints = d.checkpoints \union {a} /\ new.events = d.events
<1>. DEFINE new == AppendCheckpoint(d, a)
<1>1. new \in Databases
  BY DEF AppendCheckpoint, Databases
<1>2. /\ new.rows = d.rows /\ new.receipts = d.receipts /\ new.attempts = d.attempts
      /\ new.checkpoints = d.checkpoints \union {a} /\ new.events = d.events
  BY DEF AppendCheckpoint, Databases
<1>. HIDE DEF new
<1>3. Grows(d, new)
  BY <1>2 DEF Grows
<1>. QED
  BY <1>1, <1>2, <1>3 DEF new

\* A batch that the store accepts is in the store afterwards.
LEMMA EventsResult ==
  ASSUME NEW d \in Databases, NEW p \in Procs, BatchAgrees(d, Emails[p])
  PROVE  LET new == AppendEvents(d, Emails[p]) IN
         /\ new \in Databases /\ Grows(d, new)
         /\ new.rows = d.rows /\ new.receipts = d.receipts /\ new.attempts = d.attempts
         /\ new.checkpoints = d.checkpoints
         /\ \A e \in Emails[p] : new.events[e.id] = e.body
         /\ \A m \in Messages : \/ new.events[m] = d.events[m]
                               \/ \E e \in Emails[p] : e.id = m
<1>. DEFINE batch == Emails[p]
            events == [m \in Messages |->
                         IF d.events[m] = "none" /\ \E e \in batch : e.id = m
                         THEN (CHOOSE e \in batch : e.id = m).body ELSE d.events[m]]
            new == AppendEvents(d, batch)
<1>1. new = [d EXCEPT !.events = events]
  BY DEF AppendEvents, Databases
<1>2. d.events \in [Messages -> Bodies]
  BY DEF Databases
<1>3. ASSUME NEW m \in Messages, \E e \in batch : e.id = m
      PROVE  (CHOOSE e \in batch : e.id = m) \in batch /\ (CHOOSE e \in batch : e.id = m).id = m
  BY <1>3
<1>4. \A e \in batch : e.body \in Bodies /\ e.id \in Messages
  BY LauncherConstants DEF Bodies
<1>5. events \in [Messages -> Bodies]
  BY <1>2, <1>3, <1>4
<1>6. \A e \in batch : events[e.id] = e.body
  <2>1. SUFFICES ASSUME NEW e \in batch PROVE events[e.id] = e.body
    OBVIOUS
  <2>2. e.id \in Messages
    BY <1>4
  <2>3. CASE d.events[e.id] = "none"
    <3>1. events[e.id] = (CHOOSE f \in batch : f.id = e.id).body
      BY <2>2, <2>3
    <3>2. (CHOOSE f \in batch : f.id = e.id) = e
      BY <1>3, <2>2 DEF BatchAgrees
    <3>. QED
      BY <3>1, <3>2
  <2>4. CASE d.events[e.id] # "none"
    BY <2>2, <2>4 DEF BatchAgrees
  <2>. QED
    BY <2>3, <2>4
<1>7. \A m \in Messages : d.events[m] # "none" => events[m] = d.events[m]
  OBVIOUS
<1>10. \A m \in Messages : events[m] = d.events[m] \/ \E e \in batch : e.id = m
  OBVIOUS
<1>. HIDE DEF events, new, batch
<1>8. /\ new \in Databases /\ new.events = events
      /\ new.rows = d.rows /\ new.receipts = d.receipts /\ new.attempts = d.attempts
      /\ new.checkpoints = d.checkpoints
  BY <1>1, <1>5 DEF Databases
<1>9. Grows(d, new)
  BY <1>7, <1>8 DEF Grows
<1>. QED
  BY <1>6, <1>8, <1>9, <1>10 DEF new, batch

-----------------------------------------------------------------------------
(* One step.                                                               *)

WriteTypes == {Idle} \union [at : {"submitted", "confirmed", "verified"},
                             kind : {"create", "change", "delete"}, ad : Ads, media : BOOLEAN]

\* Everything but the store.
ProcessTypes ==
    /\ world \in [Ads -> {"unborn", "listed", "gone"}]
    /\ lease \in Procs \union {None}
    /\ role \in [Procs -> {"launch", "refresh", "offline"}]
    /\ at \in [Procs -> Places]
    /\ tracked \in [Procs -> SUBSET Ads]
    /\ attempt \in [Procs -> Nat]
    /\ seen \in [Procs -> [Ads -> Sights]]
    /\ open \in [Procs -> SUBSET Parts]
    /\ pending \in [Procs -> BOOLEAN]
    /\ write \in [Procs -> WriteTypes]
    /\ trouble \in [Procs -> SUBSET Troubles]
    /\ code \in [Procs -> {"none", "ok", "error", "killed"}]

TypeInv == db \in Databases /\ ProcessTypes

\* What a process does by itself, outside of its writes and its end.
Starts(p) ==
    \/ OpenStore(p) \/ BeginAttempt(p) \/ StartInventory(p) \/ (\E a \in Ads : Look(p, a))
    \/ ReadFails(p) \/ ReadIsFailure(p) \/ AppendResult(p) \/ FailAttempt(p)
    \/ ReturnRefresh(p) \/ ImportEmails(p) \/ BuildWrites(p) \/ BuildDashboard(p)

WritesSomething(p) ==
    \/ \E kind \in {"create", "change", "delete"}, a \in Ads, media \in BOOLEAN :
          Submit(p, kind, a, media)
    \/ ReadBack(p) \/ Checkpoint(p) \/ Record(p)

Closes(p) ==
    \/ StopServing(p) \/ CloseServer(p) \/ CloseWriteFails(p) \/ CloseWrite(p)
    \/ CloseInventory(p) \/ Reconcile(p)

Ends(p) == Abort(p) \/ Exit(p) \/ Crash(p)

\* All but the clients that have not sent a request, of which no process
\* takes notice.
Noticed == <<world, db, lease, role, at, reader, open, pending, write, trouble, code,
             faults, writes, broken, vouched>>

LEMMA NextIs ==
  ASSUME [Next]_vars
  PROVE  \/ \E p \in Procs : Starts(p) \/ WritesSomething(p) \/ Closes(p) \/ Ends(p)
         \/ \E a \in Ads : ElsewhereChange(a)
         \/ UNCHANGED Noticed
<1>1. ASSUME NEW p \in Procs, Connects(p) \/ HangsUp(p) PROVE UNCHANGED Noticed
  BY <1>1 DEF Connects, HangsUp, Noticed
<1>2. CASE UNCHANGED vars
  BY <1>2 DEF vars, runtime, Noticed
<1>3. CASE Next
  BY <1>1, <1>3 DEF Next, Start, Serve, Stop, Starts, WritesSomething, Closes, Ends
<1>. QED
  BY <1>2, <1>3

\* The transactions that a step can make.
StoreStep ==
    \/ db' = db
    \/ \E p \in Procs :
          \/ at[p] = "opened" /\ db' = BeginSyncAttempt(db, tracked[p])
          \/ IsOpenAttempt(db, attempt[p]) /\ db' = FailSyncAttempt(db, attempt[p])
          \/ /\ at[p] = "reading" /\ \A a \in Ads : seen[p][a] # Unseen
             /\ IsOpenAttempt(db, attempt[p]) /\ db' = Inventory(p)
          \/ BatchAgrees(db, Emails[p]) /\ db' = AppendEvents(db, Emails[p])
          \/ write[p].at = "confirmed" /\ db' = AppendCheckpoint(db, write[p].ad)
          \/ /\ write[p].at = "verified"
             /\ db' = AppendReceipt(db, write[p].ad, Expected(write[p].kind),
                                    IF write[p].kind = "delete" THEN "gone" ELSE "listed")

LEMMA NextStores ==
  ASSUME [Next]_vars
  PROVE  StoreStep
<1>1. ASSUME NEW p \in Procs, Starts(p) PROVE StoreStep
  BY <1>1 DEF Starts, OpenStore, BeginAttempt, StartInventory, Look, ReadFails, ReadIsFailure, AppendResult,
     FailAttempt, ReturnRefresh, ImportEmails, BuildWrites, BuildDashboard, Commits, Raises, StoreStep
<1>2. ASSUME NEW p \in Procs, WritesSomething(p) PROVE StoreStep
  BY <1>2 DEF WritesSomething, Submit, ReadBack, Checkpoint, Record, Commits, Raises, StoreStep
<1>3. ASSUME NEW p \in Procs, Closes(p) PROVE StoreStep
  BY <1>3 DEF Closes, StopServing, CloseServer, CloseWriteFails, CloseWrite,
       CloseInventory, Reconcile, StoreStep
<1>4. ASSUME NEW p \in Procs, Ends(p) PROVE StoreStep
  BY <1>4 DEF Ends, Abort, Exit, Crash, StoreStep
<1>5. ASSUME NEW a \in Ads, ElsewhereChange(a) PROVE StoreStep
  BY <1>5 DEF ElsewhereChange, StoreStep
<1>6. CASE UNCHANGED Noticed
  BY <1>6 DEF Noticed, StoreStep
<1>. QED
  BY <1>1, <1>2, <1>3, <1>4, <1>5, <1>6, NextIs

\* Whatever a step stores, the database stays one and only grows.
LEMMA StoreGrows ==
  ASSUME TypeInv, StoreStep
  PROVE  db' \in Databases /\ Grows(db, db')
<1>0. db \in Databases
  BY DEF TypeInv, ProcessTypes
<1>1. CASE db' = db
  BY <1>0, <1>1 DEF Grows
<1>2. ASSUME NEW p \in Procs, db' = BeginSyncAttempt(db, tracked[p])
      PROVE  db' \in Databases /\ Grows(db, db')
  <2>1. tracked[p] \in SUBSET Ads
    BY DEF TypeInv, ProcessTypes
  <2>. QED
    BY <1>0, <1>2, <2>1, BeginResult
<1>3. ASSUME NEW p \in Procs, IsOpenAttempt(db, attempt[p]), db' = FailSyncAttempt(db, attempt[p])
      PROVE  db' \in Databases /\ Grows(db, db')
  BY <1>0, <1>3, FinishResult DEF FailSyncAttempt, Verdicts
<1>4. ASSUME NEW p \in Procs, \A a \in Ads : seen[p][a] # Unseen,
             IsOpenAttempt(db, attempt[p]), db' = Inventory(p)
      PROVE  db' \in Databases /\ Grows(db, db')
  <2>1. tracked[p] \in SUBSET Ads /\ seen[p] \in [Ads -> Sights]
    BY DEF TypeInv, ProcessTypes
  <2>. QED
    BY <1>0, <1>4, <2>1, InventoryResult DEF Inventory
<1>5. ASSUME NEW p \in Procs, BatchAgrees(db, Emails[p]), db' = AppendEvents(db, Emails[p])
      PROVE  db' \in Databases /\ Grows(db, db')
  BY <1>0, <1>5, EventsResult
<1>6. ASSUME NEW p \in Procs, write[p].at = "confirmed", db' = AppendCheckpoint(db, write[p].ad)
      PROVE  db' \in Databases /\ Grows(db, db')
  <2>1. write[p].ad \in Ads
    BY <1>6 DEF TypeInv, ProcessTypes, WriteTypes, Idle
  <2>. QED
    BY <1>0, <1>6, <2>1, CheckpointResult
<1>7. ASSUME NEW p \in Procs, write[p].at = "verified",
             db' = AppendReceipt(db, write[p].ad, Expected(write[p].kind),
                                 IF write[p].kind = "delete" THEN "gone" ELSE "listed")
      PROVE  db' \in Databases /\ Grows(db, db')
  <2>1. write[p].ad \in Ads
    BY <1>7 DEF TypeInv, ProcessTypes, WriteTypes, Idle
  <2>2. Expected(write[p].kind) \in Observed
        /\ (IF write[p].kind = "delete" THEN "gone" ELSE "listed") \in Truths
    BY DEF Expected, Observed, Truths
  <2>. QED
    BY <1>0, <1>7, <2>1, <2>2, ReceiptResult
<1>. QED
  BY <1>1, <1>2, <1>3, <1>4, <1>5, <1>6, <1>7 DEF StoreStep

LEMMA TrackedAreAds ==
  ASSUME db \in Databases
  PROVE  TrackedAds(db) \subseteq Ads /\ Begun \in Nat
BY DEF Databases, Rows, TrackedAds, Begun

LEMMA GoTypes ==
  ASSUME TypeInv, NEW p \in Procs, NEW place \in Places, Go(p, place)
  PROVE  at' \in [Procs -> Places]
BY DEF Go, TypeInv, ProcessTypes

LEMMA OpenTypes ==
  ASSUME TypeInv, NEW p \in Procs,
         \/ UNCHANGED open
         \/ \E parts \in SUBSET Parts : \/ open' = [open EXCEPT ![p] = parts]
                                        \/ open' = [open EXCEPT ![p] = @ \union parts]
                                        \/ open' = [open EXCEPT ![p] = @ \ parts]
  PROVE  open' \in [Procs -> SUBSET Parts]
<1>1. open \in [Procs -> SUBSET Parts]
  BY DEF TypeInv, ProcessTypes
<1>2. open[p] \subseteq Parts
  BY <1>1
<1>3. \A parts \in SUBSET Parts : open[p] \union parts \in SUBSET Parts
                                /\ open[p] \ parts \in SUBSET Parts
  BY <1>2
<1>4. UNCHANGED open \/ \E parts \in SUBSET Parts : open' = [open EXCEPT ![p] = parts]
  BY <1>3
<1>. QED
  BY <1>1, <1>4

LEMMA TroubleTypes ==
  ASSUME TypeInv, NEW p \in Procs,
         \/ UNCHANGED trouble
         \/ \E more \in SUBSET Troubles : trouble' = [trouble EXCEPT ![p] = @ \union more]
  PROVE  trouble' \in [Procs -> SUBSET Troubles]
<1>1. trouble \in [Procs -> SUBSET Troubles]
  BY DEF TypeInv, ProcessTypes
<1>2. \A more \in SUBSET Troubles : trouble[p] \union more \in SUBSET Troubles
  BY <1>1
<1>3. UNCHANGED trouble \/ \E more \in SUBSET Troubles : trouble' = [trouble EXCEPT ![p] = more]
  BY <1>2
<1>. QED
  BY <1>1, <1>3

LEMMA StartsKeepTypes ==
  ASSUME TypeInv, NEW p \in Procs, Starts(p)
  PROVE  ProcessTypes'
<1>0. Unseen \in Sights /\ TrackedAds(db) \subseteq Ads /\ Begun \in Nat
  BY TrackedAreAds DEF Sights, TypeInv, ProcessTypes
<1>1. CASE OpenStore(p)
  <2>1. at' \in [Procs -> Places]
    BY <1>1, GoTypes DEF OpenStore, Places
  <2>2. tracked' \in [Procs -> SUBSET Ads]
    BY <1>0, <1>1 DEF OpenStore, TypeInv, ProcessTypes
  <2>3. code' \in [Procs -> {"none", "ok", "error", "killed"}]
    BY <1>1 DEF OpenStore, TypeInv, ProcessTypes
  <2>. QED
    BY <1>1, <2>1, <2>2, <2>3 DEF OpenStore, runtime, TypeInv, ProcessTypes
<1>2. CASE BeginAttempt(p)
  <2>1. at' \in [Procs -> Places]
    BY <1>2, GoTypes DEF BeginAttempt, Places
  <2>2. attempt' \in [Procs -> Nat]
    BY <1>0, <1>2 DEF BeginAttempt, TypeInv, ProcessTypes
  <2>3. code' \in [Procs -> {"none", "ok", "error", "killed"}]
    BY <1>2 DEF BeginAttempt, TypeInv, ProcessTypes
  <2>. QED
    BY <1>2, <2>1, <2>2, <2>3 DEF BeginAttempt, runtime, TypeInv, ProcessTypes
<1>3. CASE StartInventory(p)
  <2>1. at' \in [Procs -> Places]
    BY <1>3, GoTypes DEF StartInventory, Places
  <2>2. open' \in [Procs -> SUBSET Parts]
    <3>1. {"inventory"} \in SUBSET Parts
      BY DEF Parts
    <3>. QED
      BY <1>3, <3>1, OpenTypes DEF StartInventory
  <2>. QED
    BY <1>3, <2>1, <2>2 DEF StartInventory, reader, TypeInv, ProcessTypes
<1>4. ASSUME NEW a \in Ads, Look(p, a) PROVE ProcessTypes'
  <2>1. \E sight \in Sights : seen' = [seen EXCEPT ![p][a] = sight]
    <3>1. [state |-> StateOf(a), truth |-> world[a]] \in Sights
      BY DEF TypeInv, ProcessTypes, StateOf, Sights, Observed, Truths
    <3>2. [state |-> "absent", truth |-> "missed"] \in Sights
      BY DEF Sights, Observed, Truths
    <3>. QED
      BY <1>4, <3>1, <3>2 DEF Look
  <2>2. seen' \in [Procs -> [Ads -> Sights]]
    BY <2>1 DEF TypeInv, ProcessTypes
  <2>. QED
    BY <1>4, <2>2 DEF Look, runtime, TypeInv, ProcessTypes
<1>5. ForgetRead(p) => /\ tracked' \in [Procs -> SUBSET Ads] /\ attempt' \in [Procs -> Nat]
                       /\ seen' \in [Procs -> [Ads -> Sights]]
  BY <1>0 DEF ForgetRead, TypeInv, ProcessTypes
<1>6. CASE ReadFails(p)
  BY <1>5, <1>6 DEF ReadFails, Go, runtime, TypeInv, ProcessTypes, Places
<1>13. CASE ReadIsFailure(p)
  BY <1>5, <1>13 DEF ReadIsFailure, Go, runtime, TypeInv, ProcessTypes, Places
<1>7. CASE AppendResult(p)
  BY <1>5, <1>7 DEF AppendResult, Go, runtime, TypeInv, ProcessTypes, Places
<1>8. CASE FailAttempt(p)
  BY <1>8 DEF FailAttempt, Go, reader, runtime, TypeInv, ProcessTypes, Places
<1>9. CASE ReturnRefresh(p)
  BY <1>9 DEF ReturnRefresh, Go, reader, runtime, TypeInv, ProcessTypes, Places
<1>10. CASE ImportEmails(p)
  BY <1>10 DEF ImportEmails, Go, reader, runtime, TypeInv, ProcessTypes, Places
<1>11. CASE BuildWrites(p)
  <2>1. at' \in [Procs -> Places]
    BY <1>11, GoTypes DEF BuildWrites, Places
  <2>2. open' \in [Procs -> SUBSET Parts]
    <3>1. {"write"} \in SUBSET Parts
      BY DEF Parts
    <3>. QED
      BY <1>11, <3>1, OpenTypes DEF BuildWrites
  <2>3. lease' \in Procs \union {None}
    BY <1>11 DEF BuildWrites, TypeInv, ProcessTypes
  <2>. QED
    BY <1>11, <2>1, <2>2, <2>3 DEF BuildWrites, reader, TypeInv, ProcessTypes
<1>12. CASE BuildDashboard(p)
  <2>1. at' \in [Procs -> Places]
    BY <1>12, GoTypes DEF BuildDashboard, Places
  <2>2. open' \in [Procs -> SUBSET Parts]
    <3>1. {"server"} \in SUBSET Parts
      BY DEF Parts
    <3>. QED
      BY <1>12, <3>1, OpenTypes DEF BuildDashboard
  <2>. QED
    BY <1>12, <2>1, <2>2 DEF BuildDashboard, reader, TypeInv, ProcessTypes
<1>. QED
  BY <1>1, <1>2, <1>3, <1>4, <1>6, <1>7, <1>8, <1>9, <1>10, <1>11, <1>12, <1>13 DEF Starts

LEMMA WritesKeepTypes ==
  ASSUME TypeInv, NEW p \in Procs, WritesSomething(p)
  PROVE  ProcessTypes'
<1>0. Idle \in WriteTypes
  BY DEF WriteTypes
<1>1. ASSUME NEW kind \in {"create", "change", "delete"}, NEW a \in Ads, NEW media \in BOOLEAN,
             Submit(p, kind, a, media)
      PROVE  ProcessTypes'
  <2>1. world' \in [Ads -> {"unborn", "listed", "gone"}]
    <3>1. world \in [Ads -> {"unborn", "listed", "gone"}]
      BY DEF TypeInv, ProcessTypes
    <3>2. \/ UNCHANGED world
          \/ \E state \in {"listed", "gone"} : world' = [world EXCEPT ![a] = state]
      BY <1>1 DEF Submit
    <3>. QED
      BY <3>1, <3>2
  <2>2. pending' \in [Procs -> BOOLEAN]
    BY <1>1 DEF Submit, TypeInv, ProcessTypes
  <2>3. [at |-> "submitted", kind |-> kind, ad |-> a, media |-> media] \in WriteTypes
    BY DEF WriteTypes
  <2>4. write' \in [Procs -> WriteTypes]
    BY <1>1, <2>3 DEF Submit, TypeInv, ProcessTypes
  <2>. QED
    BY <1>1, <2>1, <2>2, <2>4 DEF Submit, reader, TypeInv, ProcessTypes
<1>2. ASSUME UNCHANGED <<world, lease, role, at, reader, open, pending, trouble, code>>,
             write' \in [Procs -> WriteTypes]
      PROVE  ProcessTypes'
  BY <1>2 DEF reader, TypeInv, ProcessTypes
<1>3. EndWrite(p) => write' \in [Procs -> WriteTypes]
  BY <1>0 DEF EndWrite, TypeInv, ProcessTypes
<1>4. ASSUME write[p].at \in {"submitted", "confirmed"},
             NEW place \in {"confirmed", "verified"}, write' = [write EXCEPT ![p].at = place]
      PROVE  write' \in [Procs -> WriteTypes]
  <2>1. write[p] \in [at : {"submitted", "confirmed", "verified"},
                      kind : {"create", "change", "delete"}, ad : Ads, media : BOOLEAN]
    BY <1>4 DEF TypeInv, ProcessTypes, WriteTypes, Idle
  <2>2. [write[p] EXCEPT !.at = place] \in WriteTypes
    BY <2>1 DEF WriteTypes
  <2>. QED
    BY <1>4, <2>2 DEF TypeInv, ProcessTypes
<1>5. CASE ReadBack(p)
  <2>1. EndWrite(p) \/ \E place \in {"confirmed", "verified"} : write' = [write EXCEPT ![p].at = place]
    BY <1>5 DEF ReadBack
  <2>2. write' \in [Procs -> WriteTypes]
    BY <1>3, <1>4, <1>5, <2>1 DEF ReadBack
  <2>. QED
    BY <1>2, <1>5, <2>2 DEF ReadBack
<1>6. CASE Checkpoint(p)
  <2>1. EndWrite(p) \/ write' = [write EXCEPT ![p].at = "verified"]
    BY <1>6 DEF Checkpoint
  <2>2. write' \in [Procs -> WriteTypes]
    BY <1>3, <1>4, <1>6, <2>1 DEF Checkpoint
  <2>. QED
    BY <1>2, <1>6, <2>2 DEF Checkpoint
<1>7. CASE Record(p)
  BY <1>2, <1>3, <1>7 DEF Record
<1>. QED
  BY <1>1, <1>5, <1>6, <1>7 DEF WritesSomething

LEMMA ClosesKeepTypes ==
  ASSUME TypeInv, NEW p \in Procs, Closes(p)
  PROVE  ProcessTypes'
<1>1. CASE StopServing(p)
  BY <1>1 DEF StopServing, Go, reader, runtime, TypeInv, ProcessTypes, Places
<1>2. CASE CloseServer(p)
  <2>1. at' \in [Procs -> Places]
    BY <1>2, GoTypes DEF CloseServer, Places
  <2>2. {"server"} \in SUBSET Parts /\ {"failed"} \in SUBSET Troubles
    BY DEF Parts, Troubles
  <2>3. open' \in [Procs -> SUBSET Parts]
    BY <1>2, <2>2, OpenTypes DEF CloseServer
  <2>4. trouble' \in [Procs -> SUBSET Troubles]
    BY <1>2, <2>2, TroubleTypes DEF CloseServer
  <2>. QED
    BY <1>2, <2>1, <2>3, <2>4 DEF CloseServer, reader, TypeInv, ProcessTypes
<1>3. CASE CloseWrite(p)
  <2>1. lease' \in Procs \union {None}
    BY <1>3 DEF CloseWrite, Release, TypeInv, ProcessTypes
  <2>2. at' \in [Procs -> Places]
    BY <1>3, GoTypes DEF CloseWrite, Places
  <2>3. /\ {"write"} \in SUBSET Parts
        /\ {"unknown"} \in SUBSET Troubles /\ {"failed"} \in SUBSET Troubles
    BY DEF Parts, Troubles
  <2>4. open' \in [Procs -> SUBSET Parts]
    BY <1>3, <2>3, OpenTypes DEF CloseWrite
  <2>5. trouble' \in [Procs -> SUBSET Troubles]
    BY <1>3, <2>3, TroubleTypes DEF CloseWrite
  <2>. QED
    BY <1>3, <2>1, <2>2, <2>4, <2>5 DEF CloseWrite, reader, TypeInv, ProcessTypes
<1>4. CASE CloseInventory(p)
  <2>1. at' \in [Procs -> Places]
    BY <1>4, GoTypes DEF CloseInventory, Places
  <2>2. {"inventory"} \in SUBSET Parts /\ {"stuck", "failed"} \in SUBSET Troubles
    BY DEF Parts, Troubles
  <2>3. open' \in [Procs -> SUBSET Parts]
    BY <1>4, <2>2, OpenTypes DEF CloseInventory
  <2>4. trouble' \in [Procs -> SUBSET Troubles]
    BY <1>4, <2>2, TroubleTypes DEF CloseInventory
  <2>. QED
    BY <1>4, <2>1, <2>3, <2>4 DEF CloseInventory, reader, TypeInv, ProcessTypes
<1>5. CASE Reconcile(p)
  BY <1>5 DEF Reconcile, Go, reader, TypeInv, ProcessTypes, Places, Troubles
<1>6. CASE CloseWriteFails(p)
  <2>1. at' \in [Procs -> Places]
    BY <1>6, GoTypes DEF CloseWriteFails, Places
  <2>2. trouble' \in [Procs -> SUBSET Troubles]
    <3>1. {"failed"} \in SUBSET Troubles
      BY DEF Troubles
    <3>. QED
      BY <1>6, <3>1, TroubleTypes DEF CloseWriteFails
  <2>. QED
    BY <1>6, <2>1, <2>2 DEF CloseWriteFails, reader, TypeInv, ProcessTypes
<1>. QED
  BY <1>1, <1>2, <1>3, <1>4, <1>5, <1>6 DEF Closes

LEMMA EndsKeepTypes ==
  ASSUME TypeInv, NEW p \in Procs, Ends(p)
  PROVE  ProcessTypes'
<1>1. ASSUME NEW how \in {"none", "ok", "error", "killed"}, End(p, how), UNCHANGED <<world, role>>,
             tracked' \in [Procs -> SUBSET Ads], attempt' \in [Procs -> Nat],
             seen' \in [Procs -> [Ads -> Sights]]
      PROVE  ProcessTypes'
  <2>1. at' \in [Procs -> Places] /\ code' \in [Procs -> {"none", "ok", "error", "killed"}]
    BY <1>1 DEF End, Go, TypeInv, ProcessTypes, Places
  <2>2. lease' \in Procs \union {None}
    BY <1>1 DEF End, Release, TypeInv, ProcessTypes
  <2>3. open' \in [Procs -> SUBSET Parts]
    BY <1>1, OpenTypes DEF End
  <2>6. trouble' \in [Procs -> SUBSET Troubles]
    BY <1>1 DEF End, TypeInv, ProcessTypes
  <2>4. pending' \in [Procs -> BOOLEAN]
    BY <1>1 DEF End, TypeInv, ProcessTypes
  <2>5. write' \in [Procs -> WriteTypes]
    BY <1>1 DEF End, TypeInv, ProcessTypes, WriteTypes
  <2>. QED
    BY <1>1, <2>1, <2>2, <2>3, <2>4, <2>5, <2>6 DEF TypeInv, ProcessTypes
<1>2. Unseen \in Sights
  BY DEF Sights
<1>3. CASE Abort(p)
  BY <1>1, <1>3 DEF Abort, reader, TypeInv, ProcessTypes
<1>4. CASE Exit(p)
  <2>1. ExitCode(p) \in {"none", "ok", "error", "killed"}
    BY DEF ExitCode, TypeInv, ProcessTypes
  <2>. QED
    BY <1>1, <1>4, <2>1 DEF Exit, reader, TypeInv, ProcessTypes
<1>5. CASE Crash(p)
  BY <1>1, <1>2, <1>5 DEF Crash, ForgetRead, TypeInv, ProcessTypes
<1>. QED
  BY <1>3, <1>4, <1>5 DEF Ends

LEMMA TypeStep ==
  ASSUME TypeInv, [Next]_vars
  PROVE  TypeInv'
<1>1. db' \in Databases
  BY NextStores, StoreGrows
<1>2. ASSUME NEW a \in Ads, ElsewhereChange(a) PROVE ProcessTypes'
  <2>1. world' \in [Ads -> {"unborn", "listed", "gone"}]
    BY <1>2 DEF ElsewhereChange, TypeInv, ProcessTypes
  <2>. QED
    BY <1>2, <2>1 DEF ElsewhereChange, reader, runtime, TypeInv, ProcessTypes
<1>3. ASSUME UNCHANGED Noticed PROVE ProcessTypes'
  BY <1>3 DEF Noticed, reader, TypeInv, ProcessTypes
<1>4. ASSUME NEW p \in Procs, Starts(p) \/ WritesSomething(p) \/ Closes(p) \/ Ends(p)
      PROVE  ProcessTypes'
  BY <1>4, StartsKeepTypes, WritesKeepTypes, ClosesKeepTypes, EndsKeepTypes
<1>5. ProcessTypes'
  BY <1>2, <1>3, <1>4, NextIs
<1>. QED
  BY <1>1, <1>5 DEF TypeInv, ProcessTypes

\* What is on the platform, or was, is never unborn again.
WorldGrows == \A a \in Ads : world[a] # "unborn" => world'[a] # "unborn"

\* A step of one process changes nothing of another one.
Untouched(q) ==
    /\ role'[q] = role[q] /\ at'[q] = at[q]
    /\ tracked'[q] = tracked[q] /\ attempt'[q] = attempt[q] /\ seen'[q] = seen[q]
    /\ open'[q] = open[q] /\ pending'[q] = pending[q] /\ write'[q] = write[q]
    /\ trouble'[q] = trouble[q] /\ code'[q] = code[q]
    /\ lease' = q <=> lease = q

\* A step of p, and what all steps of p have in common.
StepOf(p) == Starts(p) \/ WritesSomething(p) \/ Closes(p) \/ Ends(p)

LEMMA OnlyOneProcess ==
  ASSUME TypeInv, NEW p \in Procs, StepOf(p)
  PROVE  /\ \A q \in Procs \ {p} : Untouched(q)
         /\ UNCHANGED role /\ broken \subseteq broken'
<1>. USE DEF TypeInv, ProcessTypes, Untouched
<1>0. None \notin Procs
  BY LauncherConstants
<1>1. CASE OpenStore(p)
  BY <1>1 DEF OpenStore, Go, runtime
<1>2. CASE BeginAttempt(p)
  BY <1>2 DEF BeginAttempt, Go, runtime, Commits, Raises
<1>3. CASE StartInventory(p)
  BY <1>3 DEF StartInventory, Go, reader
<1>4. CASE \E a \in Ads : Look(p, a)
  BY <1>4 DEF Look, runtime
<1>5. CASE ReadFails(p)
  BY <1>5 DEF ReadFails, ForgetRead, Go, runtime
<1>6. CASE AppendResult(p)
  BY <1>6 DEF AppendResult, ForgetRead, Go, runtime, Commits, Raises
<1>7. CASE FailAttempt(p)
  BY <1>7 DEF FailAttempt, Go, reader, runtime, Commits, Raises
<1>8. CASE ReturnRefresh(p)
  BY <1>8 DEF ReturnRefresh, Go, reader, runtime
<1>9. CASE ImportEmails(p)
  BY <1>9 DEF ImportEmails, Go, reader, runtime, Commits, Raises
<1>10. CASE BuildWrites(p)
  BY <1>0, <1>10 DEF BuildWrites, Go, reader
<1>11. CASE BuildDashboard(p)
  BY <1>11 DEF BuildDashboard, Go, reader
<1>12. ASSUME NEW kind, NEW a, NEW media, Submit(p, kind, a, media)
       PROVE  /\ \A q \in Procs \ {p} : Untouched(q)
              /\ UNCHANGED role /\ broken \subseteq broken'
  BY <1>12 DEF Submit, reader
<1>13. CASE ReadBack(p)
  BY <1>13 DEF ReadBack, EndWrite, reader
<1>14. CASE Checkpoint(p)
  BY <1>14 DEF Checkpoint, EndWrite, reader, Commits, Raises
<1>15. CASE Record(p)
  BY <1>15 DEF Record, EndWrite, reader, Commits, Raises
<1>16. CASE StopServing(p)
  BY <1>16 DEF StopServing, Go, reader, runtime
<1>17. CASE CloseServer(p)
  BY <1>17 DEF CloseServer, Go, reader
<1>18. CASE CloseWrite(p)
  BY <1>0, <1>18 DEF CloseWrite, Release, Go, reader
<1>19. CASE CloseInventory(p)
  BY <1>19 DEF CloseInventory, Go, reader
<1>20. CASE Reconcile(p)
  BY <1>20 DEF Reconcile, Go, reader
<1>21. CASE Abort(p) \/ Exit(p)
  BY <1>0, <1>21 DEF Abort, Exit, End, Release, Go, reader
<1>22. CASE Crash(p)
  BY <1>0, <1>22 DEF Crash, End, Release, ForgetRead, Go
<1>23. CASE ReadIsFailure(p)
  BY <1>23 DEF ReadIsFailure, ForgetRead, Go, runtime
<1>24. CASE CloseWriteFails(p)
  BY <1>24 DEF CloseWriteFails, Go, reader
<1>. QED
  BY <1>1, <1>2, <1>3, <1>4, <1>5, <1>6, <1>7, <1>8, <1>9, <1>10, <1>11, <1>12, <1>13, <1>14,
     <1>15, <1>16, <1>17, <1>18, <1>19, <1>20, <1>21, <1>22, <1>23, <1>24
     DEF StepOf, Starts, WritesSomething, Closes, Ends

LEMMA WorldMovesOn ==
  ASSUME TypeInv, [Next]_vars
  PROVE  WorldGrows
<1>1. ASSUME NEW a \in Ads, ElsewhereChange(a) PROVE WorldGrows
  BY <1>1 DEF ElsewhereChange, WorldGrows, TypeInv, ProcessTypes
<1>2. ASSUME NEW p \in Procs, NEW kind \in {"create", "change", "delete"}, NEW a \in Ads,
             NEW media, Submit(p, kind, a, media)
      PROVE  WorldGrows
  BY <1>2 DEF Submit, OnPlatform, WorldGrows, TypeInv, ProcessTypes
<1>3. ASSUME UNCHANGED world PROVE WorldGrows
  BY <1>3 DEF WorldGrows
<1>4. ASSUME NEW p \in Procs, Starts(p) \/ ReadBack(p) \/ Checkpoint(p) \/ Record(p) \/ Closes(p) \/ Ends(p)
      PROVE  UNCHANGED world
  <2>1. CASE Starts(p)
    BY <2>1 DEF Starts, OpenStore, BeginAttempt, StartInventory, Look, ReadFails, ReadIsFailure, AppendResult,
       FailAttempt, ReturnRefresh, ImportEmails, BuildWrites, BuildDashboard
  <2>2. CASE ReadBack(p) \/ Checkpoint(p) \/ Record(p)
    BY <2>2 DEF ReadBack, Checkpoint, Record
  <2>3. CASE Closes(p) \/ Ends(p)
    BY <2>3 DEF Closes, Ends, StopServing, CloseServer, CloseWriteFails, CloseWrite,
       CloseInventory, Reconcile,
       Abort, Exit, Crash
  <2>. QED
    BY <1>4, <2>1, <2>2, <2>3
<1>5. CASE UNCHANGED Noticed
  BY <1>3, <1>5 DEF Noticed
<1>. QED
  BY <1>1, <1>2, <1>3, <1>4, <1>5, NextIs DEF WritesSomething

-----------------------------------------------------------------------------
(* What a process knows at each place of its run.                          *)

\* The attempt of a read: it is there when it is needed, and asks for what
\* the process has tracked.
AttemptInv(p) ==
    /\ at[p] \in {"off", "opened"} => attempt[p] = 0
    /\ attempt[p] # 0 => attempt[p] \in DOMAIN db.attempts
    /\ at[p] \in {"begun", "reading", "failing"} => attempt[p] # 0
    /\ at[p] \in {"begun", "reading"} => db.attempts[attempt[p]].due = tracked[p]

\* What has been tracked was on the platform, so when the list does not show
\* it, it is gone or was missed.
SightInv(p) ==
    /\ at[p] # "reading" => \A a \in Ads : seen[p][a] = Unseen
    /\ \A a \in tracked[p] : world[a] # "unborn"
    /\ \A a \in Ads :
          /\ seen[p][a].state = "present" => world[a] # "unborn"
          /\ seen[p][a].state = "absent" /\ a \in tracked[p] =>
                seen[p][a].truth \in {"gone", "missed"}

\* The verdict, before the process goes on.
VerdictInv(p) ==
    /\ code[p] = "killed" => at[p] = "ended"
    /\ (/\ attempt[p] # 0 /\ p \notin broken /\ code[p] # "killed"
        /\ at[p] \notin {"begun", "reading", "failing"})
       => db.attempts[attempt[p]].outcome # "in_progress"

\* What a launcher has opened, synced and imported so far.
OpenInv(p) ==
    /\ at[p] \in {"off", "opened", "begun"} => open[p] = {}
    /\ role[p] = "launch" =>
          /\ at[p] \in {"reading", "synced", "imported"} => open[p] = {"inventory"}
          /\ at[p] = "writable" => open[p] = {"inventory", "write"}
          /\ at[p] = "serving" => open[p] = {"inventory", "write", "server"}

SyncedInv(p) ==
    role[p] = "launch" =>
        /\ at[p] \in {"synced", "imported", "writable", "serving"} =>
              /\ attempt[p] # 0
              /\ db.attempts[attempt[p]].outcome \in Success
        /\ at[p] \in {"imported", "writable", "serving"} =>
              \A e \in Emails[p] : db.events[e.id] = e.body

\* The lease, and the write executed under it.
LeaseInv(p) ==
    /\ lease = p <=> "write" \in open[p]
    /\ write[p] # Idle => "write" \in open[p] /\ world[write[p].ad] # "unborn"

\* What close() has left open so far, it has remembered.
CloseInv(p) ==
    LET failed == trouble[p] \intersect {"unknown", "failed"} # {} IN
    /\ at[p] = "stopping write" => ("server" \in open[p] => failed)
    /\ at[p] = "stopping inventory" => ("server" \in open[p] \/ "write" \in open[p] \/ pending[p] => failed)
    /\ at[p] = "stopped" /\ role[p] = "launch" => (open[p] # {} \/ pending[p] => failed)

ProcessInv ==
    \A p \in Procs : /\ AttemptInv(p) /\ SightInv(p) /\ VerdictInv(p) /\ OpenInv(p)
                     /\ SyncedInv(p) /\ LeaseInv(p) /\ CloseInv(p)

\* The rows of the store are about ads that were on the platform.
RowInv == \A r \in db.rows : world[r.ad] # "unborn" /\ r.attempt <= Len(db.attempts)

\* The journal and the rows of an attempt.
EntryInv(d, i) ==
    LET present == {r \in RowsOf(d, i) : r.state # "absent"} IN
    IF d.attempts[i].outcome \in Success
    THEN /\ d.attempts[i].count = Cardinality(present)
         /\ d.attempts[i].outcome = "success_empty" <=> present = {}
         /\ d.attempts[i].due \subseteq {r.ad : r \in RowsOf(d, i)}
    ELSE RowsOf(d, i) = {}

JournalInv == \A i \in DOMAIN db.attempts : EntryInv(db, i)

StoreInv ==
    /\ RowInv /\ NoFalseAbsence /\ JournalInv
    /\ ConfirmedWriteIsRecorded /\ ImportsAreWhole

LauncherInv == TypeInv /\ ProcessInv /\ StoreInv /\ clients \subseteq Procs

\* A process that does not move keeps what it knows: the store only grows,
\* the world moves on.
LEMMA OthersKeep ==
  ASSUME TypeInv, Grows(db, db'), WorldGrows, broken \subseteq broken',
         NEW q \in Procs, Untouched(q),
         AttemptInv(q), SightInv(q), VerdictInv(q), OpenInv(q), SyncedInv(q), LeaseInv(q), CloseInv(q)
  PROVE  /\ AttemptInv(q)' /\ SightInv(q)' /\ VerdictInv(q)' /\ OpenInv(q)'
         /\ SyncedInv(q)' /\ LeaseInv(q)' /\ CloseInv(q)'
<1>1. AttemptInv(q)'
  BY DEF AttemptInv, Grows, Untouched
<1>2. SightInv(q)'
  <2>1. tracked[q] \subseteq Ads
    BY DEF TypeInv, ProcessTypes
  <2>. QED
    BY <2>1 DEF SightInv, WorldGrows, Untouched
<1>3. VerdictInv(q)'
  BY DEF VerdictInv, AttemptInv, Grows, Untouched
<1>4. OpenInv(q)'
  BY DEF OpenInv, Untouched
<1>5. SyncedInv(q)'
  <2>1. \A e \in Emails[q] : e.id \in Messages /\ e.body # "none"
    BY LauncherConstants
  <2>2. \A e \in Emails[q] : db.events[e.id] = e.body => db'.events[e.id] = e.body
    BY <2>1 DEF Grows
  <2>3. (/\ attempt[q] # 0 /\ db.attempts[attempt[q]].outcome \in Success)
        => db'.attempts[attempt[q]].outcome \in Success
    BY DEF AttemptInv, Grows, Success
  <2>. QED
    BY <2>2, <2>3 DEF SyncedInv, Untouched
<1>6. LeaseInv(q)'
  <2>1. write[q] # Idle => write[q].ad \in Ads
    BY DEF TypeInv, ProcessTypes, WriteTypes
  <2>. QED
    BY <2>1 DEF LeaseInv, WorldGrows, Untouched
<1>7. CloseInv(q)'
  BY DEF CloseInv, Untouched
<1>. QED
  BY <1>1, <1>2, <1>3, <1>4, <1>5, <1>6, <1>7

-----------------------------------------------------------------------------
(* The steps of a process, one part of its knowledge after the other.      *)

\* What the transactions of a read do to the database.
LEMMA StepBegins ==
  ASSUME TypeInv, NEW p \in Procs, db' = BeginSyncAttempt(db, tracked[p])
  PROVE  /\ db'.rows = db.rows /\ db'.receipts = db.receipts
         /\ Len(db'.attempts) = Len(db.attempts) + 1
         /\ \A i \in DOMAIN db.attempts : db'.attempts[i] = db.attempts[i]
         /\ db'.attempts[Len(db.attempts) + 1] =
               [outcome |-> "in_progress", count |-> 0, due |-> tracked[p]]
         /\ db'.attempts[Len(db.attempts) + 1].due = tracked[p]
         /\ db'.attempts[Len(db.attempts) + 1].outcome = "in_progress"
<1>1. db \in Databases /\ tracked[p] \in SUBSET Ads
  BY DEF TypeInv, ProcessTypes
<1>2. /\ db'.rows = db.rows /\ db'.receipts = db.receipts
      /\ Len(db'.attempts) = Len(db.attempts) + 1
      /\ \A i \in DOMAIN db.attempts : db'.attempts[i] = db.attempts[i]
      /\ db'.attempts[Len(db.attempts) + 1] =
            [outcome |-> "in_progress", count |-> 0, due |-> tracked[p]]
  BY <1>1, BeginResult
<1>. QED
  BY <1>2

LEMMA StepFails ==
  ASSUME TypeInv, NEW p \in Procs, IsOpenAttempt(db, attempt[p]),
         db' = FailSyncAttempt(db, attempt[p])
  PROVE  /\ db'.rows = db.rows /\ db'.receipts = db.receipts /\ db'.events = db.events
         /\ DOMAIN db'.attempts = DOMAIN db.attempts
         /\ \A k \in DOMAIN db.attempts \ {attempt[p]} : db'.attempts[k] = db.attempts[k]
         /\ db'.attempts[attempt[p]].outcome = "failed"
<1>1. db \in Databases /\ "failed" \in Verdicts /\ 0 \in Nat
  BY DEF TypeInv, ProcessTypes, Verdicts
<1>2. /\ db'.rows = db.rows /\ db'.receipts = db.receipts /\ db'.events = db.events
      /\ DOMAIN db'.attempts = DOMAIN db.attempts
      /\ \A k \in DOMAIN db.attempts \ {attempt[p]} : db'.attempts[k] = db.attempts[k]
      /\ db'.attempts[attempt[p]] =
            [outcome |-> "failed", count |-> 0, due |-> db.attempts[attempt[p]].due]
  BY <1>1, FinishResult DEF FailSyncAttempt
<1>. QED
  BY <1>2

LEMMA StepSyncs ==
  ASSUME TypeInv, NEW p \in Procs, \A a \in Ads : seen[p][a] # Unseen,
         IsOpenAttempt(db, attempt[p]), db' = Inventory(p)
  PROVE  /\ db'.rows = db.rows \union InventoryRows(attempt[p], seen[p], tracked[p])
         /\ db'.receipts = db.receipts /\ db'.events = db.events
         /\ DOMAIN db'.attempts = DOMAIN db.attempts
         /\ \A k \in DOMAIN db.attempts \ {attempt[p]} : db'.attempts[k] = db.attempts[k]
         /\ db'.attempts[attempt[p]].outcome = SuccessOf(seen[p])
         /\ db'.attempts[attempt[p]].count = Cardinality(Present(seen[p]))
         /\ db'.attempts[attempt[p]].due = db.attempts[attempt[p]].due
<1>1. db \in Databases /\ tracked[p] \in SUBSET Ads /\ seen[p] \in [Ads -> Sights]
  BY DEF TypeInv, ProcessTypes
<1>2. /\ db'.rows = db.rows \union InventoryRows(attempt[p], seen[p], tracked[p])
      /\ db'.receipts = db.receipts /\ db'.events = db.events
      /\ DOMAIN db'.attempts = DOMAIN db.attempts
      /\ \A k \in DOMAIN db.attempts \ {attempt[p]} : db'.attempts[k] = db.attempts[k]
      /\ db'.attempts[attempt[p]] =
            [outcome |-> SuccessOf(seen[p]), count |-> Cardinality(Present(seen[p])),
             due |-> db.attempts[attempt[p]].due]
  BY <1>1, InventoryResult DEF Inventory
<1>. QED
  BY <1>2

\* The steps that leave the attempt alone and do not lead to a read.
Beyond == Places \ {"off", "opened", "begun", "reading", "failing"}

LEMMA OwnAttempt ==
  ASSUME TypeInv, Grows(db, db'), NEW p \in Procs, StepOf(p), AttemptInv(p)
  PROVE  AttemptInv(p)'
<1>. USE DEF TypeInv, ProcessTypes
<1>1. ASSUME UNCHANGED attempt, at'[p] \in Beyond
      PROVE  AttemptInv(p)'
  BY <1>1 DEF AttemptInv, Grows, Beyond
<1>2. ASSUME UNCHANGED <<attempt, at, tracked>>
      PROVE  AttemptInv(p)'
  BY <1>2 DEF AttemptInv, Grows
<1>3. CASE OpenStore(p)
  BY <1>3 DEF OpenStore, Go, AttemptInv
<1>4. CASE BeginAttempt(p)
  <2>1. CASE Commits(p, BeginSyncAttempt(db, tracked[p])) /\ attempt' = [attempt EXCEPT ![p] = Begun]
             /\ Go(p, IF role[p] = "launch" THEN "begun" ELSE "reading")
    <3>1. attempt'[p] = Len(db.attempts) + 1 /\ tracked'[p] = tracked[p] /\ at'[p] \in {"begun", "reading"}
      BY <1>4, <2>1 DEF BeginAttempt, Begun, Go
    <3>2. /\ Len(db'.attempts) = Len(db.attempts) + 1
          /\ db'.attempts[Len(db.attempts) + 1].due = tracked[p]
      BY <2>1, StepBegins DEF Commits
    <3>3. db.attempts \in Seq(Journal) /\ db' \in Databases
      BY <2>1, BeginResult DEF Commits, Databases
    <3>4. attempt'[p] \in DOMAIN db'.attempts /\ attempt'[p] # 0
      BY <3>1, <3>2, <3>3 DEF Databases
    <3>. QED
      BY <3>1, <3>2, <3>4 DEF AttemptInv
  <2>2. CASE Go(p, "ended") /\ UNCHANGED attempt
    BY <1>1, <2>2 DEF Go, Beyond, Places
  <2>. QED
    BY <1>4, <2>1, <2>2 DEF BeginAttempt
<1>5. CASE StartInventory(p)
  BY <1>5 DEF StartInventory, Go, reader, AttemptInv
<1>6. CASE \E a \in Ads : Look(p, a)
  BY <1>2, <1>6 DEF Look
<1>7. CASE ReadFails(p)
  BY <1>7 DEF ReadFails, ForgetRead, Go, AttemptInv
<1>8. CASE AppendResult(p)
  BY <1>8 DEF AppendResult, ForgetRead, Go, AttemptInv, Grows
<1>9. CASE FailAttempt(p)
  BY <1>1, <1>9 DEF FailAttempt, Go, reader, Beyond, Places
<1>10. CASE ReturnRefresh(p)
  BY <1>1, <1>10 DEF ReturnRefresh, Go, reader, Beyond, Places
<1>11. CASE ImportEmails(p)
  BY <1>1, <1>11 DEF ImportEmails, Go, reader, Beyond, Places
<1>12. CASE BuildWrites(p)
  BY <1>1, <1>12 DEF BuildWrites, Go, reader, Beyond, Places
<1>13. CASE BuildDashboard(p)
  BY <1>1, <1>13 DEF BuildDashboard, Go, reader, Beyond, Places
<1>14. CASE WritesSomething(p)
  BY <1>2, <1>14 DEF WritesSomething, Submit, ReadBack, Checkpoint, Record, reader
<1>15. CASE Closes(p)
  <2>1. UNCHANGED attempt
    BY <1>15 DEF Closes, StopServing, CloseServer, CloseWriteFails, CloseWrite,
       CloseInventory, Reconcile, reader
  <2>2. at'[p] \in Beyond
    BY <1>15 DEF Closes, StopServing, CloseServer, CloseWriteFails, CloseWrite,
       CloseInventory, Reconcile, Go,
       Beyond, Places
  <2>. QED
    BY <1>1, <2>1, <2>2
<1>16. CASE Ends(p)
  BY <1>1, <1>16 DEF Ends, Abort, Exit, Crash, End, Go, reader, ForgetRead, Beyond, Places
<1>17. CASE ReadIsFailure(p)
  BY <1>1, <1>17 DEF ReadIsFailure, ForgetRead, Go, Beyond, Places
<1>. QED
  BY <1>3, <1>4, <1>5, <1>6, <1>7, <1>8, <1>9, <1>10, <1>11, <1>12, <1>13, <1>14, <1>15, <1>16,
     <1>17 DEF StepOf, Starts

LEMMA OwnSight ==
  ASSUME TypeInv, Grows(db, db'), WorldGrows, NEW p \in Procs, StepOf(p), SightInv(p), RowInv
  PROVE  SightInv(p)'
<1>. USE DEF TypeInv, ProcessTypes
<1>1. ASSUME UNCHANGED <<tracked, seen>>, at[p] # "reading"
      PROVE  SightInv(p)'
  <2>1. tracked[p] \subseteq Ads /\ \A a \in Ads : seen[p][a] = Unseen
    BY <1>1 DEF SightInv
  <2>. QED
    BY <1>1, <2>1 DEF SightInv, WorldGrows, Unseen
<1>2. ASSUME ForgetRead(p)
      PROVE  SightInv(p)'
  BY <1>2 DEF ForgetRead, SightInv, Unseen
<1>3. CASE OpenStore(p)
  <2>1. at[p] = "off" /\ UNCHANGED <<seen, world>> /\ at'[p] # "reading"
    BY <1>3 DEF OpenStore, Go
  <2>2. \A a \in Ads : seen'[p][a] = Unseen
    BY <2>1 DEF SightInv
  <2>3. tracked'[p] = TrackedAds(db) \/ tracked'[p] = tracked[p]
    BY <1>3 DEF OpenStore
  <2>4. \A a \in TrackedAds(db) : world[a] # "unborn"
    BY DEF TrackedAds, RowInv
  <2>. QED
    BY <2>1, <2>2, <2>3, <2>4 DEF SightInv, Unseen
<1>4. CASE BeginAttempt(p)
  BY <1>1, <1>4 DEF BeginAttempt
<1>5. CASE StartInventory(p)
  BY <1>1, <1>5 DEF StartInventory, reader
<1>6. ASSUME NEW b \in Ads, Look(p, b) PROVE SightInv(p)'
  <2>1. at'[p] = "reading" /\ UNCHANGED <<tracked, world>>
    BY <1>6 DEF Look
  <2>2. \A a \in Ads \ {b} : seen'[p][a] = seen[p][a]
    BY <1>6 DEF Look
  <2>3. \/ /\ seen'[p][b].state = StateOf(b)
           /\ seen'[p][b].truth = world[b]
        \/ /\ OnPlatform(b)
           /\ seen'[p][b].state = "absent" /\ seen'[p][b].truth = "missed"
    BY <1>6 DEF Look
  <2>4. world[b] \in {"unborn", "listed", "gone"}
    OBVIOUS
  <2>5. seen'[p][b].state = "present" => world[b] # "unborn"
    BY <2>3 DEF StateOf, OnPlatform
  <2>6. (seen'[p][b].state = "absent" /\ b \in tracked[p]) => seen'[p][b].truth \in {"gone", "missed"}
    BY <2>3, <2>4 DEF StateOf, OnPlatform, SightInv
  <2>. QED
    BY <2>1, <2>2, <2>5, <2>6 DEF SightInv
<1>7. CASE ReadFails(p) \/ ReadIsFailure(p)
  BY <1>2, <1>7 DEF ReadFails, ReadIsFailure
<1>8. CASE AppendResult(p)
  BY <1>2, <1>8 DEF AppendResult
<1>9. CASE FailAttempt(p) \/ ReturnRefresh(p) \/ ImportEmails(p) \/ BuildWrites(p) \/ BuildDashboard(p)
  BY <1>1, <1>9 DEF FailAttempt, ReturnRefresh, ImportEmails, BuildWrites, BuildDashboard, reader
<1>10. CASE WritesSomething(p)
  <2>1. UNCHANGED <<tracked, seen, at>>
    BY <1>10 DEF WritesSomething, Submit, ReadBack, Checkpoint, Record, reader
  <2>2. tracked[p] \subseteq Ads
    OBVIOUS
  <2>. QED
    BY <2>1, <2>2 DEF SightInv, WorldGrows
<1>11. CASE Closes(p)
  BY <1>1, <1>11 DEF Closes, StopServing, CloseServer, CloseWriteFails, CloseWrite,
       CloseInventory, Reconcile, reader
<1>12. CASE Ends(p)
  <2>1. CASE Abort(p) \/ Exit(p)
    BY <1>1, <2>1 DEF Abort, Exit, reader
  <2>2. CASE Crash(p)
    BY <1>2, <2>2 DEF Crash
  <2>. QED
    BY <1>12, <2>1, <2>2 DEF Ends
<1>. QED
  BY <1>3, <1>4, <1>5, <1>6, <1>7, <1>8, <1>9, <1>10, <1>11, <1>12 DEF StepOf, Starts

LEMMA OwnVerdict ==
  ASSUME TypeInv, Grows(db, db'), NEW p \in Procs, StepOf(p),
         AttemptInv(p), VerdictInv(p), broken \subseteq broken'
  PROVE  VerdictInv(p)'
<1>. USE DEF TypeInv, ProcessTypes
<1>0. attempt[p] # 0 /\ db.attempts[attempt[p]].outcome # "in_progress"
         => db'.attempts[attempt[p]].outcome # "in_progress"
  BY DEF AttemptInv, Grows
<1>1. ASSUME UNCHANGED attempt, at[p] \notin {"begun", "reading", "failing", "ended"},
             code'[p] = "killed" => at'[p] = "ended"
      PROVE  VerdictInv(p)'
  BY <1>0, <1>1 DEF VerdictInv
<1>2. ASSUME UNCHANGED <<attempt, at, code>>
      PROVE  VerdictInv(p)'
  BY <1>0, <1>2 DEF VerdictInv
<1>3. ASSUME at'[p] \in {"begun", "reading", "failing"} \/ attempt'[p] = 0,
             code'[p] # "killed"
      PROVE  VerdictInv(p)'
  BY <1>3 DEF VerdictInv
<1>4. CASE OpenStore(p)
  BY <1>3, <1>4 DEF OpenStore, AttemptInv, VerdictInv, runtime
<1>5. CASE BeginAttempt(p)
  BY <1>3, <1>5 DEF BeginAttempt, Go, AttemptInv, VerdictInv, runtime
<1>6. CASE StartInventory(p)
  BY <1>3, <1>6 DEF StartInventory, Go, VerdictInv, runtime
<1>7. CASE \E a \in Ads : Look(p, a)
  BY <1>3, <1>7 DEF Look, VerdictInv, runtime
<1>8. CASE ReadFails(p)
  BY <1>3, <1>8 DEF ReadFails, Go, VerdictInv, runtime
<1>9. CASE AppendResult(p)
  <2>1. CASE Commits(p, Inventory(p)) /\ Go(p, "synced")
    <3>2. attempt' = attempt /\ code'[p] # "killed"
      BY <1>9 DEF AppendResult, ForgetRead, VerdictInv
    <3>3. db'.attempts[attempt[p]].outcome = SuccessOf(seen[p])
      BY <1>9, <2>1, StepSyncs DEF AppendResult, Commits
    <3>. QED
      BY <3>2, <3>3 DEF VerdictInv, SuccessOf
  <2>2. CASE Go(p, "failing")
    BY <1>3, <1>9, <2>2 DEF AppendResult, VerdictInv, Go
  <2>. QED
    BY <1>9, <2>1, <2>2 DEF AppendResult
<1>10. CASE FailAttempt(p)
  <2>0. UNCHANGED <<attempt, code>> /\ attempt[p] \in DOMAIN db.attempts /\ code[p] # "killed"
    BY <1>10 DEF FailAttempt, reader, runtime, AttemptInv, VerdictInv
  <2>1. CASE IsOpenAttempt(db, attempt[p]) /\ Commits(p, FailSyncAttempt(db, attempt[p]))
    <3>1. db'.attempts[attempt[p]].outcome = "failed"
      BY <2>1, StepFails DEF Commits
    <3>. QED
      BY <2>0, <3>1 DEF VerdictInv
  <2>2. CASE ~IsOpenAttempt(db, attempt[p]) /\ UNCHANGED <<db, broken, faults>>
    BY <2>0, <2>2 DEF VerdictInv, IsOpenAttempt
  <2>3. CASE Raises(p, FailSyncAttempt(db, attempt[p]))
    BY <2>0, <2>3 DEF Raises, VerdictInv
  <2>. QED
    BY <1>10, <2>1, <2>2, <2>3 DEF FailAttempt
<1>11. CASE ReturnRefresh(p)
  <2>1. UNCHANGED <<db, attempt, broken>> /\ at[p] = "synced" /\ code'[p] = "ok"
    BY <1>11 DEF ReturnRefresh, reader
  <2>2. code[p] # "killed"
    BY <2>1 DEF VerdictInv
  <2>. QED
    BY <2>1, <2>2 DEF VerdictInv
<1>12. CASE ImportEmails(p)
  BY <1>1, <1>12 DEF ImportEmails, reader, VerdictInv, runtime
<1>13. CASE BuildWrites(p) \/ BuildDashboard(p)
  BY <1>1, <1>13 DEF BuildWrites, BuildDashboard, reader, VerdictInv, runtime
<1>14. CASE WritesSomething(p)
  BY <1>2, <1>14 DEF WritesSomething, Submit, ReadBack, Checkpoint, Record, reader
<1>15. CASE Closes(p)
  BY <1>1, <1>15 DEF Closes, StopServing, CloseServer, CloseWriteFails, CloseWrite,
       CloseInventory, Reconcile, reader, VerdictInv, runtime
<1>16. CASE Abort(p) \/ Exit(p)
  <2>1. at'[p] = "ended" /\ at[p] \in {"aborting", "stopped"} /\ UNCHANGED attempt
    BY <1>16 DEF Abort, Exit, End, Go, reader
  <2>. QED
    BY <1>1, <2>1
<1>17. CASE Crash(p)
  BY <1>17 DEF Crash, End, Go, VerdictInv
<1>18. CASE ReadIsFailure(p)
  <2>1. UNCHANGED attempt /\ code'[p] # "killed"
    BY <1>18 DEF ReadIsFailure, ForgetRead, VerdictInv
  <2>2. db'.attempts[attempt[p]].outcome = "failed"
    BY <1>18, StepFails DEF ReadIsFailure
  <2>. QED
    BY <2>1, <2>2 DEF VerdictInv
<1>. QED
  BY <1>4, <1>5, <1>6, <1>7, <1>8, <1>9, <1>10, <1>11, <1>12, <1>13, <1>14, <1>15, <1>16, <1>17,
     <1>18 DEF StepOf, Starts, Ends

\* Places where nothing is known of what is open.
Leaving == {"failing", "aborting", "stopping", "stopping write", "stopping inventory", "stopped",
            "ended"}

LEMMA OwnOpen ==
  ASSUME TypeInv, NEW p \in Procs, StepOf(p), OpenInv(p)
  PROVE  OpenInv(p)'
<1>. USE DEF TypeInv, ProcessTypes
<1>0. role' = role
  BY OnlyOneProcess
<1>1. ASSUME at'[p] \in Leaving
      PROVE  OpenInv(p)'
  BY <1>1 DEF OpenInv, Leaving
<1>2. ASSUME UNCHANGED <<at, open>>
      PROVE  OpenInv(p)'
  BY <1>0, <1>2 DEF OpenInv
<1>3. CASE OpenStore(p)
  BY <1>0, <1>3 DEF OpenStore, Go, runtime, OpenInv
<1>4. CASE BeginAttempt(p)
  BY <1>0, <1>4 DEF BeginAttempt, Go, runtime, OpenInv
<1>5. CASE StartInventory(p)
  BY <1>0, <1>5 DEF StartInventory, Go, OpenInv
<1>6. CASE \E a \in Ads : Look(p, a)
  BY <1>2, <1>6 DEF Look, runtime
<1>7. CASE ReadFails(p) \/ ReadIsFailure(p) \/ FailAttempt(p) \/ ReturnRefresh(p)
  BY <1>1, <1>7 DEF ReadFails, ReadIsFailure, FailAttempt, ReturnRefresh, Go, Leaving
<1>8. CASE AppendResult(p)
  BY <1>0, <1>8 DEF AppendResult, Go, runtime, OpenInv
<1>9. CASE ImportEmails(p)
  BY <1>0, <1>9 DEF ImportEmails, Go, runtime, OpenInv
<1>10. CASE BuildWrites(p)
  BY <1>0, <1>10 DEF BuildWrites, Go, OpenInv
<1>11. CASE BuildDashboard(p)
  BY <1>0, <1>11 DEF BuildDashboard, Go, OpenInv
<1>12. CASE WritesSomething(p)
  BY <1>2, <1>12 DEF WritesSomething, Submit, ReadBack, Checkpoint, Record
<1>13. CASE Closes(p)
  BY <1>1, <1>13 DEF Closes, StopServing, CloseServer, CloseWriteFails, CloseWrite,
       CloseInventory, Reconcile, Go, Leaving
<1>14. CASE Ends(p)
  BY <1>1, <1>14 DEF Ends, Abort, Exit, Crash, End, Go, Leaving
<1>. QED
  BY <1>3, <1>4, <1>5, <1>6, <1>7, <1>8, <1>9, <1>10, <1>11, <1>12, <1>13, <1>14 DEF StepOf, Starts

\* What a launcher has synced and imported stays in the store.
LEMMA SyncedStays ==
  ASSUME TypeInv, Grows(db, db'), NEW p \in Procs, AttemptInv(p)
  PROVE  /\ (attempt[p] # 0 /\ db.attempts[attempt[p]].outcome \in Success)
               => db'.attempts[attempt[p]].outcome \in Success
         /\ \A e \in Emails[p] : db.events[e.id] = e.body => db'.events[e.id] = e.body
<1>1. \A e \in Emails[p] : e.id \in Messages /\ e.body # "none"
  BY LauncherConstants
<1>. QED
  BY <1>1 DEF AttemptInv, Grows, Success

LEMMA OwnSynced ==
  ASSUME TypeInv, Grows(db, db'), NEW p \in Procs, StepOf(p), AttemptInv(p), SyncedInv(p)
  PROVE  SyncedInv(p)'
<1>. USE DEF TypeInv, ProcessTypes
<1>0. role' = role
  BY OnlyOneProcess
<1>1. ASSUME at'[p] \notin {"synced", "imported", "writable", "serving"} \/ role[p] # "launch"
      PROVE  SyncedInv(p)'
  BY <1>0, <1>1 DEF SyncedInv
<1>2. ASSUME UNCHANGED <<at, attempt>>
      PROVE  SyncedInv(p)'
  BY <1>0, <1>2, SyncedStays DEF SyncedInv
<1>3. CASE OpenStore(p)
  BY <1>1, <1>3 DEF OpenStore, Go
<1>4. CASE BeginAttempt(p)
  BY <1>1, <1>4 DEF BeginAttempt, Go
<1>5. CASE StartInventory(p)
  BY <1>1, <1>5 DEF StartInventory, Go
<1>6. CASE \E a \in Ads : Look(p, a)
  BY <1>2, <1>6 DEF Look
<1>7. CASE ReadFails(p) \/ ReadIsFailure(p) \/ FailAttempt(p) \/ ReturnRefresh(p)
  BY <1>1, <1>7 DEF ReadFails, ReadIsFailure, FailAttempt, ReturnRefresh, Go
<1>8. CASE AppendResult(p)
  <2>1. CASE Go(p, "failing")
    BY <1>1, <2>1 DEF Go
  <2>2. CASE Commits(p, Inventory(p)) /\ Go(p, "synced")
    <3>1. db'.attempts[attempt[p]].outcome = SuccessOf(seen[p])
      BY <1>8, <2>2, StepSyncs DEF AppendResult, Commits
    <3>2. attempt' = attempt /\ attempt[p] # 0 /\ at'[p] = "synced"
      BY <1>8, <2>2 DEF AppendResult, ForgetRead, AttemptInv, Go
    <3>. QED
      BY <3>1, <3>2 DEF SyncedInv, SuccessOf, Success
  <2>. QED
    BY <1>8, <2>1, <2>2 DEF AppendResult
<1>9. CASE ImportEmails(p)
  <2>1. CASE Go(p, "aborting")
    BY <1>1, <2>1 DEF Go
  <2>2. CASE /\ BatchAgrees(db, Emails[p]) /\ Commits(p, AppendEvents(db, Emails[p]))
             /\ Go(p, IF role[p] = "launch" THEN "imported" ELSE "writable")
    <3>1. \A e \in Emails[p] : db'.events[e.id] = e.body
      BY <2>2, EventsResult DEF Commits
    <3>2. attempt' = attempt /\ at[p] = "synced" /\ (role[p] = "launch" => at'[p] = "imported")
      BY <1>9, <2>2 DEF ImportEmails, Go, reader
    <3>. QED
      BY <1>0, <3>1, <3>2, SyncedStays DEF SyncedInv
  <2>. QED
    BY <1>9, <2>1, <2>2 DEF ImportEmails
<1>10. ASSUME at[p] \in {"imported", "writable"}, at'[p] \in {"writable", "serving", "aborting"},
              UNCHANGED attempt
       PROVE  SyncedInv(p)'
  BY <1>0, <1>10, SyncedStays DEF SyncedInv
<1>11. CASE BuildWrites(p) \/ BuildDashboard(p)
  BY <1>10, <1>11 DEF BuildWrites, BuildDashboard, Go, reader
<1>12. CASE WritesSomething(p)
  BY <1>2, <1>12 DEF WritesSomething, Submit, ReadBack, Checkpoint, Record, reader
<1>13. CASE Closes(p)
  BY <1>1, <1>13 DEF Closes, StopServing, CloseServer, CloseWriteFails, CloseWrite,
       CloseInventory, Reconcile, Go
<1>14. CASE Ends(p)
  BY <1>1, <1>14 DEF Ends, Abort, Exit, Crash, End, Go
<1>. QED
  BY <1>3, <1>4, <1>5, <1>6, <1>7, <1>8, <1>9, <1>11, <1>12, <1>13, <1>14 DEF StepOf, Starts

LEMMA OwnLease ==
  ASSUME TypeInv, WorldGrows, NEW p \in Procs, StepOf(p), OpenInv(p), LeaseInv(p)
  PROVE  LeaseInv(p)'
<1>. USE DEF TypeInv, ProcessTypes
<1>0. write[p] # Idle => write[p].ad \in Ads
  BY DEF WriteTypes
<1>1. ASSUME lease' = p <=> lease = p, "write" \in open'[p] <=> "write" \in open[p],
             write'[p] \in {write[p], Idle}
      PROVE  LeaseInv(p)'
  BY <1>0, <1>1 DEF LeaseInv, WorldGrows
<1>2. ASSUME lease' # p, "write" \notin open'[p], write'[p] = Idle
      PROVE  LeaseInv(p)'
  BY <1>2 DEF LeaseInv
<1>3. CASE OpenStore(p)
  BY <1>1, <1>3 DEF OpenStore, runtime
<1>4. CASE BeginAttempt(p)
  BY <1>1, <1>4 DEF BeginAttempt, runtime
<1>5. CASE StartInventory(p)
  <2>1. "write" \notin open[p]
    BY <1>5 DEF StartInventory, OpenInv
  <2>2. "write" \notin open'[p]
    BY <1>5, <2>1 DEF StartInventory
  <2>. QED
    BY <1>1, <1>5, <2>1, <2>2 DEF StartInventory
<1>6. CASE \E a \in Ads : Look(p, a)
  BY <1>1, <1>6 DEF Look, runtime
<1>7. CASE ReadFails(p) \/ ReadIsFailure(p) \/ AppendResult(p)
  BY <1>1, <1>7 DEF ReadFails, ReadIsFailure, AppendResult, runtime
<1>20. CASE FailAttempt(p) \/ ReturnRefresh(p) \/ ImportEmails(p)
  BY <1>1, <1>20 DEF FailAttempt, ReturnRefresh, ImportEmails, runtime
<1>8. CASE BuildWrites(p)
  <2>1. CASE lease = None /\ lease' = p /\ open' = [open EXCEPT ![p] = @ \union {"write"}]
    <3>1. "write" \in open'[p] /\ write' = write
      BY <1>8, <2>1 DEF BuildWrites
    <3>. QED
      BY <1>0, <2>1, <3>1 DEF LeaseInv, WorldGrows
  <2>2. CASE UNCHANGED <<lease, open>>
    BY <1>1, <1>8, <2>2 DEF BuildWrites
  <2>. QED
    BY <1>8, <2>1, <2>2 DEF BuildWrites
<1>9. CASE BuildDashboard(p)
  BY <1>1, <1>9 DEF BuildDashboard
<1>10. ASSUME NEW kind \in {"create", "change", "delete"}, NEW a \in Ads, NEW media \in BOOLEAN,
              Submit(p, kind, a, media)
       PROVE  LeaseInv(p)'
  <2>1. "write" \in open[p] /\ UNCHANGED <<open, lease>>
    BY <1>10 DEF Submit
  <2>2. write'[p] = [at |-> "submitted", kind |-> kind, ad |-> a, media |-> media]
    BY <1>10 DEF Submit
  <2>3. world'[a] # "unborn"
    BY <1>10 DEF Submit, OnPlatform
  <2>. QED
    BY <2>1, <2>2, <2>3 DEF LeaseInv
<1>11. CASE ReadBack(p)
  <2>1. CASE EndWrite(p)
    BY <1>1, <1>11, <2>1 DEF ReadBack, EndWrite
  <2>2. CASE \E place : write' = [write EXCEPT ![p].at = place]
    <3>1. write'[p].ad = write[p].ad /\ write[p] # Idle
      BY <1>11, <2>2 DEF ReadBack, Idle, WriteTypes
    <3>. QED
      BY <1>0, <1>11, <3>1 DEF ReadBack, LeaseInv
  <2>. QED
    BY <1>11, <2>1, <2>2 DEF ReadBack
<1>12. CASE Checkpoint(p)
  <2>1. CASE EndWrite(p)
    BY <1>1, <1>12, <2>1 DEF Checkpoint, EndWrite
  <2>2. CASE write' = [write EXCEPT ![p].at = "verified"]
    <3>1. write'[p].ad = write[p].ad /\ write[p] # Idle
      BY <1>12, <2>2 DEF Checkpoint, Idle, WriteTypes
    <3>. QED
      BY <1>0, <1>12, <3>1 DEF Checkpoint, LeaseInv
  <2>. QED
    BY <1>12, <2>1, <2>2 DEF Checkpoint
<1>13. CASE Record(p)
  BY <1>1, <1>13 DEF Record, EndWrite
<1>14. CASE StopServing(p) \/ Reconcile(p)
  BY <1>1, <1>14 DEF StopServing, Reconcile, runtime
<1>15. CASE CloseServer(p)
  <2>1. open'[p] = open[p] \ {"server"} \/ open'[p] = open[p]
    BY <1>15 DEF CloseServer
  <2>2. UNCHANGED <<lease, write>>
    BY <1>15 DEF CloseServer
  <2>. QED
    BY <1>1, <2>1, <2>2
<1>16. CASE CloseWrite(p)
  <2>1. CASE open' = [open EXCEPT ![p] = @ \ {"write"}] /\ Release(p)
    BY <1>2, <1>16, <2>1, LauncherConstants DEF CloseWrite, HandlersEnded, Release
  <2>2. CASE UNCHANGED <<open, lease>>
    BY <1>1, <1>16, <2>2 DEF CloseWrite
  <2>. QED
    BY <1>16, <2>1, <2>2 DEF CloseWrite
<1>19. CASE CloseWriteFails(p)
  BY <1>1, <1>19 DEF CloseWriteFails
<1>17. CASE CloseInventory(p)
  <2>1. open'[p] = open[p] \ {"inventory"} \/ open'[p] = open[p]
    BY <1>17 DEF CloseInventory
  <2>2. UNCHANGED <<lease, write>>
    BY <1>17 DEF CloseInventory
  <2>. QED
    BY <1>1, <2>1, <2>2
<1>18. CASE Ends(p)
  BY <1>2, <1>18, LauncherConstants DEF Ends, Abort, Exit, Crash, End, Release
<1>. QED
  BY <1>3, <1>4, <1>5, <1>6, <1>7, <1>8, <1>9, <1>10, <1>11, <1>12, <1>13, <1>14, <1>15, <1>16,
     <1>17, <1>18, <1>19, <1>20 DEF StepOf, Starts, WritesSomething, Closes

LEMMA OwnClose ==
  ASSUME TypeInv, NEW p \in Procs, StepOf(p), CloseInv(p)
  PROVE  CloseInv(p)'
<1>. USE DEF TypeInv, ProcessTypes
<1>0. role' = role
  BY OnlyOneProcess
<1>1. ASSUME at'[p] \notin {"stopping write", "stopping inventory", "stopped"}
      PROVE  CloseInv(p)'
  BY <1>1 DEF CloseInv
<1>2. CASE Starts(p)
  <2>1. CASE OpenStore(p) \/ BeginAttempt(p) \/ StartInventory(p) \/ \E a \in Ads : Look(p, a)
    BY <1>1, <2>1 DEF OpenStore, BeginAttempt, StartInventory, Look, Go
  <2>2. CASE ReadFails(p) \/ ReadIsFailure(p) \/ AppendResult(p) \/ FailAttempt(p) \/ ReturnRefresh(p)
    BY <1>1, <2>2 DEF ReadFails, ReadIsFailure, AppendResult, FailAttempt, ReturnRefresh, Go
  <2>3. CASE ImportEmails(p) \/ BuildWrites(p) \/ BuildDashboard(p)
    BY <1>1, <2>3 DEF ImportEmails, BuildWrites, BuildDashboard, Go
  <2>. QED
    BY <1>2, <2>1, <2>2, <2>3 DEF Starts
<1>3. ASSUME NEW kind, NEW a, NEW media, Submit(p, kind, a, media) PROVE CloseInv(p)'
  BY <1>0, <1>3 DEF Submit, CloseInv
<1>4. CASE ReadBack(p) \/ Checkpoint(p) \/ Record(p)
  BY <1>0, <1>4 DEF ReadBack, Checkpoint, Record, CloseInv
<1>5. CASE StopServing(p) \/ Reconcile(p)
  BY <1>1, <1>5 DEF StopServing, Reconcile, Go
<1>6. CASE CloseServer(p)
  <2>1. at'[p] = IF role[p] = "launch" THEN "stopping write" ELSE "stopped"
    BY <1>6 DEF CloseServer, Go
  <2>2. "server" \notin open'[p] \/ "failed" \in trouble'[p]
    BY <1>6 DEF CloseServer
  <2>. QED
    BY <1>0, <2>1, <2>2 DEF CloseInv
<1>7. CASE CloseWrite(p)
  <2>1. at[p] = "stopping write" /\ at'[p] = "stopping inventory" /\ UNCHANGED pending
    BY <1>7 DEF CloseWrite, Go
  <2>2. \/ /\ ~pending[p] /\ "write" \notin open'[p] /\ trouble' = trouble
           /\ "server" \in open'[p] => "server" \in open[p]
        \/ "unknown" \in trouble'[p] \/ "failed" \in trouble'[p]
    BY <1>7 DEF CloseWrite
  <2>. QED
    BY <2>1, <2>2 DEF CloseInv
<1>8. CASE CloseInventory(p)
  <2>1. at[p] = "stopping inventory" /\ at'[p] = "stopped" /\ UNCHANGED pending
    BY <1>8 DEF CloseInventory, Go
  <2>2. \/ open'[p] = open[p] \ {"inventory"} /\ trouble' = trouble
        \/ "failed" \in trouble'[p]
    BY <1>8 DEF CloseInventory
  <2>3. open[p] \subseteq Parts
    OBVIOUS
  <2>4. open'[p] = open[p] \ {"inventory"} /\ open'[p] # {} => "server" \in open[p] \/ "write" \in open[p]
    BY <2>3 DEF Parts
  <2>. QED
    BY <2>1, <2>2, <2>4 DEF CloseInv
<1>9. CASE Ends(p)
  BY <1>1, <1>9 DEF Ends, Abort, Exit, Crash, End, Go
<1>10. CASE CloseWriteFails(p)
  <2>1. at'[p] = "stopping inventory" /\ "failed" \in trouble'[p]
    BY <1>10 DEF CloseWriteFails, Go
  <2>. QED
    BY <2>1 DEF CloseInv
<1>. QED
  BY <1>2, <1>3, <1>4, <1>5, <1>6, <1>7, <1>8, <1>9, <1>10 DEF StepOf, WritesSomething, Closes

\* Every step keeps what every process knows.
LEMMA ProcessStep ==
  ASSUME TypeInv, ProcessInv, RowInv, [Next]_vars
  PROVE  ProcessInv'
<1>1. Grows(db, db') /\ WorldGrows
  BY NextStores, StoreGrows, WorldMovesOn
<1>2. ASSUME NEW p \in Procs, StepOf(p), NEW q \in Procs
      PROVE  /\ AttemptInv(q)' /\ SightInv(q)' /\ VerdictInv(q)' /\ OpenInv(q)'
             /\ SyncedInv(q)' /\ LeaseInv(q)' /\ CloseInv(q)'
  <2>0. broken \subseteq broken'
    BY <1>2, OnlyOneProcess
  <2>1. /\ AttemptInv(q) /\ SightInv(q) /\ VerdictInv(q) /\ OpenInv(q)
        /\ SyncedInv(q) /\ LeaseInv(q) /\ CloseInv(q)
    BY DEF ProcessInv
  <2>2. CASE q = p
    BY <1>1, <1>2, <2>0, <2>1, <2>2, OwnAttempt, OwnSight, OwnVerdict, OwnOpen, OwnSynced, OwnLease,
       OwnClose
  <2>3. CASE q # p
    <3>1. Untouched(q)
      BY <1>2, <2>3, OnlyOneProcess
    <3>. QED
      BY <1>1, <2>0, <2>1, <3>1, OthersKeep
  <2>. QED
    BY <2>2, <2>3
<1>3. ASSUME UNCHANGED <<lease, role, at, tracked, attempt, seen, open, pending, write, trouble,
                        code, broken>>,
             NEW q \in Procs
      PROVE  /\ AttemptInv(q)' /\ SightInv(q)' /\ VerdictInv(q)' /\ OpenInv(q)'
             /\ SyncedInv(q)' /\ LeaseInv(q)' /\ CloseInv(q)'
  <2>1. /\ AttemptInv(q) /\ SightInv(q) /\ VerdictInv(q) /\ OpenInv(q)
        /\ SyncedInv(q) /\ LeaseInv(q) /\ CloseInv(q)
    BY DEF ProcessInv
  <2>2. Untouched(q) /\ broken \subseteq broken'
    BY <1>3 DEF Untouched
  <2>. QED
    BY <1>1, <2>1, <2>2, OthersKeep
<1>4. CASE \E p \in Procs : StepOf(p)
  BY <1>2, <1>4 DEF ProcessInv
<1>5. CASE \E a \in Ads : ElsewhereChange(a)
  BY <1>3, <1>5 DEF ElsewhereChange, reader, runtime, ProcessInv
<1>6. CASE UNCHANGED Noticed
  BY <1>3, <1>6 DEF Noticed, reader, ProcessInv
<1>. QED
  BY <1>4, <1>5, <1>6, NextIs DEF StepOf

-----------------------------------------------------------------------------
(* What the store holds.                                                   *)

\* A write that a process executes is about an ad that was on the platform.
LEMMA WrittenAdIsBorn ==
  ASSUME TypeInv, ProcessInv, NEW p \in Procs, write[p].at \in {"confirmed", "verified"}
  PROVE  write[p].ad \in Ads /\ world[write[p].ad] # "unborn"
         /\ write[p].kind \in {"create", "change", "delete"}
<1>1. write[p] # Idle
  BY DEF Idle
<1>. QED
  BY <1>1 DEF TypeInv, ProcessTypes, WriteTypes, ProcessInv, LeaseInv

\* The rows that a step adds: those of a read, or that of a receipt.
LEMMA StepRows ==
  ASSUME TypeInv, StoreStep
  PROVE  \/ db'.rows = db.rows
         \/ \E p \in Procs :
               /\ at[p] = "reading" /\ \A a \in Ads : seen[p][a] # Unseen
               /\ IsOpenAttempt(db, attempt[p]) /\ db' = Inventory(p)
         \/ \E p \in Procs :
               /\ write[p].at = "verified"
               /\ db'.rows = db.rows \union
                     {Observation(write[p].ad, Expected(write[p].kind), 0,
                                  IF write[p].kind = "delete" THEN "gone" ELSE "listed")}
               /\ db'.attempts = db.attempts
<1>0. db \in Databases
  BY DEF TypeInv, ProcessTypes
<1>1. CASE db' = db
  BY <1>1
<1>2. ASSUME NEW p \in Procs, db' = BeginSyncAttempt(db, tracked[p]) PROVE db'.rows = db.rows
  BY <1>2, StepBegins
<1>3. ASSUME NEW p \in Procs, IsOpenAttempt(db, attempt[p]), db' = FailSyncAttempt(db, attempt[p])
      PROVE  db'.rows = db.rows
  BY <1>3, StepFails
<1>4. ASSUME NEW p \in Procs, BatchAgrees(db, Emails[p]), db' = AppendEvents(db, Emails[p])
      PROVE  db'.rows = db.rows
  BY <1>0, <1>4, EventsResult
<1>5. ASSUME NEW p \in Procs, write[p].at = "confirmed", db' = AppendCheckpoint(db, write[p].ad)
      PROVE  db'.rows = db.rows
  <2>1. write[p].ad \in Ads
    BY <1>5 DEF TypeInv, ProcessTypes, WriteTypes, Idle
  <2>. QED
    BY <1>0, <1>5, <2>1, CheckpointResult
<1>6. ASSUME NEW p \in Procs, write[p].at = "verified",
             db' = AppendReceipt(db, write[p].ad, Expected(write[p].kind),
                                 IF write[p].kind = "delete" THEN "gone" ELSE "listed")
      PROVE  /\ db'.rows = db.rows \union
                   {Observation(write[p].ad, Expected(write[p].kind), 0,
                                IF write[p].kind = "delete" THEN "gone" ELSE "listed")}
             /\ db'.attempts = db.attempts
  <2>1. write[p].ad \in Ads
    BY <1>6 DEF TypeInv, ProcessTypes, WriteTypes, Idle
  <2>2. Expected(write[p].kind) \in Observed
        /\ (IF write[p].kind = "delete" THEN "gone" ELSE "listed") \in Truths
    BY DEF Expected, Observed, Truths
  <2>. QED
    BY <1>0, <1>6, <2>1, <2>2, ReceiptResult
<1>. QED
  BY <1>1, <1>2, <1>3, <1>4, <1>5, <1>6 DEF StoreStep

\* A row is about an ad that was on the platform; if it says that the ad is
\* absent, the ad was gone or was missed.
LEMMA RowStep ==
  ASSUME TypeInv, ProcessInv, RowInv, NoFalseAbsence, StoreStep, WorldGrows
  PROVE  RowInv' /\ NoFalseAbsence'
<1>1. db \in Databases /\ db' \in Databases /\ Grows(db, db')
  BY StoreGrows DEF TypeInv, ProcessTypes
<1>2. Len(db.attempts) \in Nat /\ Len(db'.attempts) \in Nat /\ Len(db.attempts) <= Len(db'.attempts)
  <2>1. /\ db.attempts \in Seq(Journal) /\ db'.attempts \in Seq(Journal)
        /\ \A i \in DOMAIN db.attempts : i \in DOMAIN db'.attempts
    BY <1>1 DEF Databases, Grows
  <2>. QED
    BY <2>1
<1>3. \A r \in db.rows : r.ad \in Ads /\ r.attempt \in Nat
  BY <1>1 DEF Databases, Rows
<1>4. \A r \in db.rows : world'[r.ad] # "unborn" /\ r.attempt <= Len(db'.attempts)
                         /\ (r.state = "absent" => r.truth \in {"gone", "missed"})
  BY <1>2, <1>3 DEF RowInv, WorldGrows, NoFalseAbsence
<1>5. ASSUME NEW p \in Procs, \A a \in Ads : seen[p][a] # Unseen,
             IsOpenAttempt(db, attempt[p]), db' = Inventory(p),
             NEW r \in InventoryRows(attempt[p], seen[p], tracked[p])
      PROVE  world'[r.ad] # "unborn" /\ r.attempt <= Len(db'.attempts)
             /\ (r.state = "absent" => r.truth \in {"gone", "missed"})
  <2>1. tracked[p] \subseteq Ads /\ seen[p] \in [Ads -> Sights] /\ attempt[p] \in DOMAIN db.attempts
    BY <1>5 DEF TypeInv, ProcessTypes, IsOpenAttempt
  <2>2. PICK a \in Present(seen[p]) \union tracked[p] :
               r = Observation(a, seen[p][a].state, attempt[p], seen[p][a].truth)
    BY DEF InventoryRows
  <2>3. r.ad = a /\ r.state = seen[p][a].state /\ r.attempt = attempt[p] /\ r.truth = seen[p][a].truth
    BY <2>2 DEF Observation
  <2>4. Present(seen[p]) = {b \in Ads : seen[p][b].state = "present"}
    BY <1>5, <2>1, InventoryTypes
  <2>5. a \in Ads /\ (a \in tracked[p] \/ seen[p][a].state = "present")
    BY <2>1, <2>2, <2>4
  <2>6. world[a] # "unborn" /\ (seen[p][a].state = "absent" => seen[p][a].truth \in {"gone", "missed"})
    BY <2>5 DEF ProcessInv, SightInv
  <2>7. attempt[p] <= Len(db.attempts) /\ attempt[p] \in Nat
    BY <1>1, <2>1 DEF Databases
  <2>. QED
    BY <1>2, <2>3, <2>5, <2>6, <2>7 DEF WorldGrows
<1>6. ASSUME NEW p \in Procs, write[p].at = "verified",
             NEW r, r = Observation(write[p].ad, Expected(write[p].kind), 0,
                                    IF write[p].kind = "delete" THEN "gone" ELSE "listed")
      PROVE  world'[r.ad] # "unborn" /\ r.attempt <= Len(db'.attempts)
             /\ (r.state = "absent" => r.truth \in {"gone", "missed"})
  <2>1. write[p].ad \in Ads /\ world[write[p].ad] # "unborn"
    BY <1>6, WrittenAdIsBorn
  <2>2. r.ad = write[p].ad /\ r.attempt = 0 /\ (r.state = "absent" => r.truth = "gone")
    BY <1>6 DEF Observation, Expected
  <2>. QED
    BY <1>2, <2>1, <2>2 DEF WorldGrows
<1>7. \A r \in db'.rows : world'[r.ad] # "unborn" /\ r.attempt <= Len(db'.attempts)
                          /\ (r.state = "absent" => r.truth \in {"gone", "missed"})
  <2>1. CASE db'.rows = db.rows
    BY <1>4, <2>1
  <2>2. ASSUME NEW p \in Procs, \A a \in Ads : seen[p][a] # Unseen,
               IsOpenAttempt(db, attempt[p]), db' = Inventory(p)
        PROVE  db'.rows = db.rows \union InventoryRows(attempt[p], seen[p], tracked[p])
    BY <2>2, StepSyncs
  <2>. QED
    BY <1>4, <1>5, <1>6, <2>1, <2>2, StepRows
<1>. QED
  BY <1>7 DEF RowInv, NoFalseAbsence

\* A successful read stores one row for each ad it counts, and one for each
\* ad it had to look for.
LEMMA InventoryIsCounted ==
  ASSUME NEW s \in [Ads -> Sights], \A a \in Ads : s[a] # Unseen, NEW due \in SUBSET Ads,
         NEW i \in Nat
  PROVE  LET rows == InventoryRows(i, s, due)
             present == {r \in rows : r.state # "absent"} IN
         /\ Cardinality(present) = Cardinality(Present(s))
         /\ SuccessOf(s) = "success_empty" <=> present = {}
         /\ due \subseteq {r.ad : r \in rows}
<1>. DEFINE rows == InventoryRows(i, s, due)
            present == {r \in rows : r.state # "absent"}
            row(a) == Observation(a, s[a].state, i, s[a].truth)
            f == [a \in Present(s) |-> row(a)]
<1>1. /\ Present(s) = {a \in Ads : s[a].state = "present"} /\ IsFiniteSet(Present(s))
  BY InventoryTypes
<1>2. rows = {row(a) : a \in Present(s) \union due}
  BY DEF InventoryRows
<1>3. \A a : row(a).ad = a /\ row(a).state = s[a].state
  BY DEF Observation
<1>. HIDE DEF rows, row
<1>4. \A a \in Ads : s[a].state # "absent" <=> a \in Present(s)
  BY DEF Present
<1>5. present = {row(a) : a \in Present(s)}
  <2>1. ASSUME NEW r \in present PROVE r \in {row(a) : a \in Present(s)}
    <3>1. PICK a \in Present(s) \union due : r = row(a)
      BY <1>2
    <3>2. a \in Ads /\ s[a].state # "absent"
      BY <1>1, <1>3, <3>1
    <3>. QED
      BY <1>4, <3>1, <3>2
  <2>2. ASSUME NEW a \in Present(s) PROVE row(a) \in present
    <3>1. row(a) \in rows /\ a \in Ads
      BY <1>1, <1>2
    <3>2. s[a].state # "absent"
      BY <1>4, <3>1
    <3>. QED
      BY <1>3, <3>1, <3>2
  <2>. QED
    BY <2>1, <2>2
<1>. HIDE DEF present
<1>6. f \in Bijection(Present(s), present)
  <2>1. f \in [Present(s) -> present]
    BY <1>5
  <2>2. \A a, b \in Present(s) : f[a] = f[b] => a = b
    BY <1>3
  <2>3. \A r \in present : \E a \in Present(s) : f[a] = r
    BY <1>5
  <2>. QED
    BY <2>1, <2>2, <2>3 DEF Bijection, Injection, Surjection, IsInjective
<1>7. Cardinality(present) = Cardinality(Present(s))
  <2>1. ExistsBijection(Present(s), present)
    BY <1>6 DEF ExistsBijection
  <2>. QED
    BY <1>1, <2>1, FS_Bijection
<1>8. SuccessOf(s) = "success_empty" <=> present = {}
  BY <1>5 DEF SuccessOf
<1>9. \A a \in due : row(a) \in rows /\ row(a).ad = a
  BY <1>2, <1>3
<1>. QED
  BY <1>7, <1>8, <1>9 DEF rows, present

\* An entry of the journal that does not change, nor its rows.
LEMMA EntryStays ==
  ASSUME NEW i, EntryInv(db, i), RowsOf(db', i) = RowsOf(db, i),
         db'.attempts[i] = db.attempts[i]
  PROVE  EntryInv(db', i)
BY DEF EntryInv

\* The journal and the rows go together, in one transaction.
LEMMA JournalStep ==
  ASSUME TypeInv, ProcessInv, RowInv, JournalInv, StoreStep
  PROVE  JournalInv'
<1>0. db \in Databases /\ db' \in Databases /\ Grows(db, db') /\ db.attempts \in Seq(Journal)
      /\ db'.attempts \in Seq(Journal)
  BY StoreGrows DEF TypeInv, ProcessTypes, Databases
<1>1. ASSUME db'.rows = db.rows, db'.attempts = db.attempts PROVE JournalInv'
  BY <1>1, EntryStays DEF JournalInv, RowsOf
<1>2. ASSUME NEW p \in Procs, db' = BeginSyncAttempt(db, tracked[p]) PROVE JournalInv'
  <2>1. /\ db'.rows = db.rows /\ Len(db'.attempts) = Len(db.attempts) + 1
        /\ \A i \in DOMAIN db.attempts : db'.attempts[i] = db.attempts[i]
        /\ db'.attempts[Len(db.attempts) + 1].outcome = "in_progress"
    BY <1>2, StepBegins
  <2>2. \A i \in DOMAIN db.attempts : EntryInv(db', i)
    BY <2>1, EntryStays DEF JournalInv, RowsOf
  <2>3. RowsOf(db', Len(db.attempts) + 1) = {}
    <3>1. \A r \in db.rows : r.attempt \in Nat /\ r.attempt <= Len(db.attempts)
      BY <1>0 DEF RowInv, Databases, Rows
    <3>. QED
      BY <1>0, <2>1, <3>1 DEF RowsOf
  <2>4. EntryInv(db', Len(db.attempts) + 1)
    BY <2>1, <2>3 DEF EntryInv, Success
  <2>5. DOMAIN db'.attempts = DOMAIN db.attempts \union {Len(db.attempts) + 1}
    BY <1>0, <2>1
  <2>. QED
    BY <2>2, <2>4, <2>5 DEF JournalInv
<1>3. ASSUME NEW p \in Procs, IsOpenAttempt(db, attempt[p]), db' = FailSyncAttempt(db, attempt[p])
      PROVE  JournalInv'
  <2>1. /\ db'.rows = db.rows /\ DOMAIN db'.attempts = DOMAIN db.attempts
        /\ \A k \in DOMAIN db.attempts \ {attempt[p]} : db'.attempts[k] = db.attempts[k]
        /\ db'.attempts[attempt[p]].outcome = "failed"
    BY <1>3, StepFails
  <2>2. \A k \in DOMAIN db.attempts \ {attempt[p]} : EntryInv(db', k)
    BY <2>1, EntryStays DEF JournalInv, RowsOf
  <2>3. RowsOf(db, attempt[p]) = {}
    BY <1>3 DEF JournalInv, EntryInv, IsOpenAttempt, Success
  <2>4. EntryInv(db', attempt[p])
    BY <2>1, <2>3 DEF EntryInv, RowsOf, Success
  <2>. QED
    BY <2>1, <2>2, <2>4 DEF JournalInv
<1>4. ASSUME NEW p \in Procs, at[p] = "reading", \A a \in Ads : seen[p][a] # Unseen,
             IsOpenAttempt(db, attempt[p]), db' = Inventory(p)
      PROVE  JournalInv'
  <2>. DEFINE i == attempt[p]
              rows == InventoryRows(i, seen[p], tracked[p])
  <2>1. /\ db'.rows = db.rows \union rows /\ DOMAIN db'.attempts = DOMAIN db.attempts
        /\ \A k \in DOMAIN db.attempts \ {i} : db'.attempts[k] = db.attempts[k]
        /\ db'.attempts[i].outcome = SuccessOf(seen[p])
        /\ db'.attempts[i].count = Cardinality(Present(seen[p]))
        /\ db'.attempts[i].due = db.attempts[i].due
    BY <1>4, StepSyncs
  <2>2. seen[p] \in [Ads -> Sights] /\ tracked[p] \in SUBSET Ads /\ i \in Nat
    BY DEF TypeInv, ProcessTypes
  <2>3. \A r \in rows : r.attempt = i
    BY <1>4, <2>2, InventoryTypes
  <2>4. SuccessOf(seen[p]) \in Success
    BY <1>4, <2>2, InventoryTypes
  <2>5. RowsOf(db, i) = {}
    BY <1>4 DEF JournalInv, EntryInv, IsOpenAttempt, Success
  <2>6. db.attempts[i].due = tracked[p]
    BY <1>4 DEF ProcessInv, AttemptInv
  <2>7. /\ Cardinality({r \in rows : r.state # "absent"}) = Cardinality(Present(seen[p]))
        /\ SuccessOf(seen[p]) = "success_empty" <=> {r \in rows : r.state # "absent"} = {}
        /\ tracked[p] \subseteq {r.ad : r \in rows}
    BY <1>4, <2>2, InventoryIsCounted
  <2>. HIDE DEF rows, i
  <2>8. RowsOf(db', i) = rows
    BY <2>1, <2>3, <2>5 DEF RowsOf
  <2>9. EntryInv(db', i)
    BY <2>1, <2>4, <2>6, <2>7, <2>8 DEF EntryInv
  <2>10. \A k \in DOMAIN db.attempts \ {i} : RowsOf(db', k) = RowsOf(db, k)
    BY <2>1, <2>3 DEF RowsOf
  <2>11. \A k \in DOMAIN db.attempts \ {i} : EntryInv(db', k)
    BY <2>1, <2>10, EntryStays DEF JournalInv
  <2>. QED
    BY <2>1, <2>9, <2>11 DEF JournalInv
<1>5. ASSUME NEW p \in Procs, BatchAgrees(db, Emails[p]), db' = AppendEvents(db, Emails[p])
      PROVE  JournalInv'
  BY <1>0, <1>1, <1>5, EventsResult
<1>6. ASSUME NEW p \in Procs, write[p].at = "confirmed", db' = AppendCheckpoint(db, write[p].ad)
      PROVE  JournalInv'
  BY <1>0, <1>1, <1>6, WrittenAdIsBorn, CheckpointResult
<1>7. ASSUME NEW p \in Procs, write[p].at = "verified",
             db' = AppendReceipt(db, write[p].ad, Expected(write[p].kind),
                                 IF write[p].kind = "delete" THEN "gone" ELSE "listed")
      PROVE  JournalInv'
  <2>. DEFINE new == Observation(write[p].ad, Expected(write[p].kind), 0,
                                 IF write[p].kind = "delete" THEN "gone" ELSE "listed")
  <2>1. write[p].ad \in Ads /\ Expected(write[p].kind) \in Observed
        /\ (IF write[p].kind = "delete" THEN "gone" ELSE "listed") \in Truths
    BY <1>7, WrittenAdIsBorn DEF Expected, Observed, Truths
  <2>2. db'.rows = db.rows \union {new} /\ db'.attempts = db.attempts
    BY <1>0, <1>7, <2>1, ReceiptResult
  <2>3. new.attempt = 0
    BY DEF Observation
  <2>4. \A i \in DOMAIN db.attempts : i # 0
    BY <1>0
  <2>. HIDE DEF new
  <2>5. \A i \in DOMAIN db.attempts : RowsOf(db', i) = RowsOf(db, i)
    BY <2>2, <2>3, <2>4 DEF RowsOf
  <2>. QED
    BY <2>2, <2>5, EntryStays DEF JournalInv
<1>8. CASE db' = db
  BY <1>1, <1>8
<1>. QED
  BY <1>2, <1>3, <1>4, <1>5, <1>6, <1>7, <1>8 DEF StoreStep

\* A receipt comes with its row.
LEMMA StepReceipts ==
  ASSUME TypeInv, ProcessInv, StoreStep
  PROVE  \/ db'.receipts = db.receipts
         \/ \E a : /\ db'.receipts = db.receipts \union {a}
                   /\ \E r \in db'.rows : r.ad = a /\ r.attempt = 0
<1>0. db \in Databases
  BY DEF TypeInv, ProcessTypes
<1>1. CASE db' = db
  BY <1>1
<1>2. ASSUME NEW p \in Procs, db' = BeginSyncAttempt(db, tracked[p]) PROVE db'.receipts = db.receipts
  BY <1>2, StepBegins
<1>3. ASSUME NEW p \in Procs, IsOpenAttempt(db, attempt[p]), db' = FailSyncAttempt(db, attempt[p])
      PROVE  db'.receipts = db.receipts
  BY <1>3, StepFails
<1>4. ASSUME NEW p \in Procs, \A a \in Ads : seen[p][a] # Unseen,
             IsOpenAttempt(db, attempt[p]), db' = Inventory(p)
      PROVE  db'.receipts = db.receipts
  BY <1>4, StepSyncs
<1>5. ASSUME NEW p \in Procs, BatchAgrees(db, Emails[p]), db' = AppendEvents(db, Emails[p])
      PROVE  db'.receipts = db.receipts
  BY <1>0, <1>5, EventsResult
<1>6. ASSUME NEW p \in Procs, write[p].at = "confirmed", db' = AppendCheckpoint(db, write[p].ad)
      PROVE  db'.receipts = db.receipts
  BY <1>0, <1>6, WrittenAdIsBorn, CheckpointResult
<1>7. ASSUME NEW p \in Procs, write[p].at = "verified",
             db' = AppendReceipt(db, write[p].ad, Expected(write[p].kind),
                                 IF write[p].kind = "delete" THEN "gone" ELSE "listed")
      PROVE  \E a : /\ db'.receipts = db.receipts \union {a}
                    /\ \E r \in db'.rows : r.ad = a /\ r.attempt = 0
  <2>. DEFINE new == Observation(write[p].ad, Expected(write[p].kind), 0,
                                 IF write[p].kind = "delete" THEN "gone" ELSE "listed")
  <2>1. write[p].ad \in Ads /\ Expected(write[p].kind) \in Observed
        /\ (IF write[p].kind = "delete" THEN "gone" ELSE "listed") \in Truths
    BY <1>7, WrittenAdIsBorn DEF Expected, Observed, Truths
  <2>2. db'.rows = db.rows \union {new} /\ db'.receipts = db.receipts \union {write[p].ad}
    BY <1>0, <1>7, <2>1, ReceiptResult
  <2>3. new.ad = write[p].ad /\ new.attempt = 0
    BY DEF Observation
  <2>. QED
    BY <2>2, <2>3
<1>. QED
  BY <1>1, <1>2, <1>3, <1>4, <1>5, <1>6, <1>7 DEF StoreStep

\* What is vouched for has its checkpoint or its receipt by then.
LEMMA NextVouches ==
  ASSUME TypeInv, ProcessInv, [Next]_vars
  PROVE  \/ vouched' = vouched
         \/ \E a : /\ vouched' = vouched \union {a}
                   /\ a \in db'.checkpoints \union db'.receipts
<1>0. db \in Databases
  BY DEF TypeInv, ProcessTypes
<1>1. ASSUME NEW p \in Procs, Starts(p) PROVE vouched' = vouched
  BY <1>1 DEF Starts, OpenStore, BeginAttempt, StartInventory, Look, ReadFails, ReadIsFailure, AppendResult,
     FailAttempt, ReturnRefresh, ImportEmails, BuildWrites, BuildDashboard
<1>2. ASSUME NEW p \in Procs, Closes(p) \/ Ends(p) PROVE vouched' = vouched
  BY <1>2 DEF Closes, StopServing, CloseServer, CloseWriteFails, CloseWrite,
       CloseInventory, Reconcile,
     Ends, Abort, Exit, Crash
<1>3. ASSUME NEW p \in Procs, WritesSomething(p)
      PROVE  \/ vouched' = vouched
             \/ \E a : /\ vouched' = vouched \union {a}
                       /\ a \in db'.checkpoints \union db'.receipts
  <2>1. ASSUME NEW kind, NEW a, NEW media, Submit(p, kind, a, media) PROVE vouched' = vouched
    BY <2>1 DEF Submit
  <2>2. CASE ReadBack(p)
    BY <2>2 DEF ReadBack
  <2>3. CASE Checkpoint(p)
    <3>1. CASE UNCHANGED vouched
      BY <3>1
    <3>2. CASE Commits(p, AppendCheckpoint(db, write[p].ad)) /\ Vouch(p)
      <4>1. write[p].ad \in Ads
        BY <2>3, WrittenAdIsBorn DEF Checkpoint
      <4>2. db'.checkpoints = db.checkpoints \union {write[p].ad}
        BY <1>0, <3>2, <4>1, CheckpointResult DEF Commits
      <4>. QED
        BY <3>2, <4>2 DEF Vouch
    <3>. QED
      BY <2>3, <3>1, <3>2 DEF Checkpoint
  <2>4. CASE Record(p)
    <3>. DEFINE truth == IF write[p].kind = "delete" THEN "gone" ELSE "listed"
    <3>1. CASE UNCHANGED vouched
      BY <3>1
    <3>2. CASE /\ Commits(p, AppendReceipt(db, write[p].ad, Expected(write[p].kind), truth))
               /\ Vouch(p)
      <4>1. write[p].ad \in Ads /\ Expected(write[p].kind) \in Observed /\ truth \in Truths
        BY <2>4, WrittenAdIsBorn DEF Record, Expected, Observed, Truths
      <4>2. db' = AppendReceipt(db, write[p].ad, Expected(write[p].kind), truth)
        BY <3>2 DEF Commits
      <4>. HIDE DEF truth
      <4>3. db'.receipts = db.receipts \union {write[p].ad}
        BY <1>0, <4>1, <4>2, ReceiptResult
      <4>. QED
        BY <3>2, <4>3 DEF Vouch
    <3>. QED
      BY <2>4, <3>1, <3>2 DEF Record
  <2>. QED
    BY <1>3, <2>1, <2>2, <2>3, <2>4 DEF WritesSomething
<1>4. ASSUME NEW a \in Ads, ElsewhereChange(a) PROVE vouched' = vouched
  BY <1>4 DEF ElsewhereChange
<1>5. CASE UNCHANGED Noticed
  BY <1>5 DEF Noticed
<1>. QED
  BY <1>1, <1>2, <1>3, <1>4, <1>5, NextIs

LEMMA ConfirmedStep ==
  ASSUME TypeInv, ProcessInv, ConfirmedWriteIsRecorded, [Next]_vars
  PROVE  ConfirmedWriteIsRecorded'
<1>1. Grows(db, db') /\ StoreStep
  BY NextStores, StoreGrows
<1>2. vouched' \subseteq db'.checkpoints \union db'.receipts
  BY <1>1, NextVouches DEF Grows, ConfirmedWriteIsRecorded
<1>3. \A a \in db.receipts : \E r \in db.rows : r.ad = a /\ r.attempt = 0
  BY DEF ConfirmedWriteIsRecorded
<1>4. \A a \in db'.receipts : \E r \in db'.rows : r.ad = a /\ r.attempt = 0
  BY <1>1, <1>3, StepReceipts DEF Grows
<1>. QED
  BY <1>2, <1>4 DEF ConfirmedWriteIsRecorded

\* The messages change by whole batches only.
LEMMA StepEvents ==
  ASSUME TypeInv, StoreStep
  PROVE  \/ db'.events = db.events
         \/ \E p \in Procs :
               /\ \A e \in Emails[p] : db'.events[e.id] = e.body
               /\ \A m \in Messages : \/ db'.events[m] = db.events[m]
                                     \/ \E e \in Emails[p] : e.id = m
<1>0. db \in Databases
  BY DEF TypeInv, ProcessTypes
<1>1. CASE db' = db
  BY <1>1
<1>2. ASSUME NEW p \in Procs, db' = BeginSyncAttempt(db, tracked[p]) PROVE db'.events = db.events
  <2>1. tracked[p] \in SUBSET Ads
    BY DEF TypeInv, ProcessTypes
  <2>. QED
    BY <1>0, <1>2, <2>1, BeginResult
<1>3. ASSUME NEW p \in Procs, IsOpenAttempt(db, attempt[p]), db' = FailSyncAttempt(db, attempt[p])
      PROVE  db'.events = db.events
  BY <1>3, StepFails
<1>4. ASSUME NEW p \in Procs, \A a \in Ads : seen[p][a] # Unseen,
             IsOpenAttempt(db, attempt[p]), db' = Inventory(p)
      PROVE  db'.events = db.events
  BY <1>4, StepSyncs
<1>5. ASSUME NEW p \in Procs, BatchAgrees(db, Emails[p]), db' = AppendEvents(db, Emails[p])
      PROVE  /\ \A e \in Emails[p] : db'.events[e.id] = e.body
             /\ \A m \in Messages : \/ db'.events[m] = db.events[m]
                                   \/ \E e \in Emails[p] : e.id = m
  BY <1>0, <1>5, EventsResult
<1>6. ASSUME NEW p \in Procs, write[p].at = "confirmed", db' = AppendCheckpoint(db, write[p].ad)
      PROVE  db'.events = db.events
  <2>1. write[p].ad \in Ads
    BY <1>6 DEF TypeInv, ProcessTypes, WriteTypes, Idle
  <2>. QED
    BY <1>0, <1>6, <2>1, CheckpointResult
<1>7. ASSUME NEW p \in Procs, write[p].at = "verified",
             db' = AppendReceipt(db, write[p].ad, Expected(write[p].kind),
                                 IF write[p].kind = "delete" THEN "gone" ELSE "listed")
      PROVE  db'.events = db.events
  BY <1>7 DEF AppendReceipt, TypeInv, Databases
<1>. QED
  BY <1>1, <1>2, <1>3, <1>4, <1>5, <1>6, <1>7 DEF StoreStep

LEMMA ImportStep ==
  ASSUME TypeInv, ImportsAreWhole, [Next]_vars
  PROVE  ImportsAreWhole'
<1>1. Grows(db, db') /\ StoreStep
  BY NextStores, StoreGrows
<1>2. SUFFICES ASSUME NEW m \in Messages, db'.events[m] # "none"
               PROVE  \E p \in Procs : /\ \E e \in Emails[p] : e.id = m
                                       /\ \A e \in Emails[p] : db'.events[e.id] = e.body
  BY DEF ImportsAreWhole
<1>3. CASE db.events[m] # "none"
  <2>1. PICK p \in Procs : /\ \E e \in Emails[p] : e.id = m
                           /\ \A e \in Emails[p] : db.events[e.id] = e.body
    BY <1>3 DEF ImportsAreWhole
  <2>2. \A e \in Emails[p] : e.id \in Messages /\ e.body # "none"
    BY LauncherConstants
  <2>3. \A e \in Emails[p] : db'.events[e.id] = e.body
    BY <1>1, <2>1, <2>2 DEF Grows
  <2>. QED
    BY <2>1, <2>3
<1>4. CASE db.events[m] = "none"
  BY <1>1, <1>2, <1>4, StepEvents
<1>. QED
  BY <1>3, <1>4

\* The clients are those of the processes.
LEMMA ClientsStep ==
  ASSUME clients \subseteq Procs, [Next]_vars
  PROVE  clients' \subseteq Procs
<1>1. ASSUME NEW p \in Procs, Starts(p) \/ Closes(p) PROVE clients' = clients
  BY <1>1 DEF Starts, OpenStore, BeginAttempt, StartInventory, Look, ReadFails, ReadIsFailure,
     AppendResult, FailAttempt, ReturnRefresh, ImportEmails, BuildWrites, BuildDashboard,
     Closes, StopServing, CloseServer, CloseWriteFails, CloseWrite, CloseInventory, Reconcile,
     runtime
<1>2. ASSUME NEW p \in Procs, WritesSomething(p) \/ Ends(p)
      PROVE  clients' \subseteq clients
  BY <1>2 DEF WritesSomething, Submit, ReadBack, Checkpoint, Record, Ends, Abort, Exit, Crash, End
<1>3. ASSUME NEW p \in Procs, Connects(p) \/ HangsUp(p) PROVE clients' \subseteq clients \union {p}
  BY <1>3 DEF Connects, HangsUp
<1>4. ASSUME NEW a \in Ads, ElsewhereChange(a) PROVE clients' = clients
  BY <1>4 DEF ElsewhereChange, runtime
<1>5. CASE UNCHANGED vars
  BY <1>5 DEF vars, runtime
<1>6. CASE Next
  BY <1>1, <1>2, <1>3, <1>4, <1>6 DEF Next, Start, Serve, Stop, Starts, WritesSomething, Closes, Ends
<1>. QED
  BY <1>5, <1>6

-----------------------------------------------------------------------------
(* The theorems.                                                           *)

LEMMA InitHolds ==
  ASSUME Init
  PROVE  LauncherInv
<1>. USE LauncherConstants
<1>1. /\ db.rows = {Observation(a, "present", 0, "listed") : a \in Known}
      /\ db.attempts = <<>> /\ db.receipts = {} /\ db.checkpoints = {}
      /\ db.events = [m \in Messages |-> "none"]
  BY DEF Init, EmptyDatabase
<1>2. \A r \in db.rows : r \in Rows /\ r.attempt = 0 /\ r.state = "present" /\ r.ad \in Known
  BY <1>1 DEF Observation, Rows, Observed, Truths
<1>3. db \in Databases
  <2>1. db.rows \subseteq Rows
    BY <1>2
  <2>2. db.events \in [Messages -> Bodies]
    BY <1>1 DEF Bodies
  <2>3. db.attempts \in Seq(Journal)
    BY <1>1
  <2>4. db = [rows |-> db.rows, attempts |-> db.attempts, receipts |-> db.receipts,
              checkpoints |-> db.checkpoints, events |-> db.events]
    BY DEF Init, EmptyDatabase
  <2>. QED
    BY <1>1, <2>1, <2>2, <2>3, <2>4 DEF Databases
<1>4. role \in [Procs -> {"launch", "refresh", "offline"}]
  <2>1. role \in [Procs -> UNION {Roles[p] : p \in Procs}] /\ \A p \in Procs : role[p] \in Roles[p]
    BY DEF Init
  <2>2. \A p \in Procs : Roles[p] \subseteq {"launch", "refresh", "offline"}
    OBVIOUS
  <2>. QED
    BY <2>1, <2>2
<1>5. world \in [Ads -> {"unborn", "listed", "gone"}]
  BY DEF Init
<1>6. /\ tracked \in [Procs -> SUBSET Ads] /\ open \in [Procs -> SUBSET Parts]
      /\ trouble \in [Procs -> SUBSET Troubles] /\ pending \in [Procs -> BOOLEAN]
  BY DEF Init
<1>7. /\ at \in [Procs -> Places] /\ attempt \in [Procs -> Nat]
      /\ code \in [Procs -> {"none", "ok", "error", "killed"}] /\ lease \in Procs \union {None}
  BY DEF Init, Places
<1>8. seen \in [Procs -> [Ads -> Sights]] /\ write \in [Procs -> WriteTypes]
  BY DEF Init, Sights, WriteTypes
<1>9. TypeInv
  BY <1>3, <1>4, <1>5, <1>6, <1>7, <1>8 DEF TypeInv, ProcessTypes
<1>10. ProcessInv
  <2>1. SUFFICES ASSUME NEW p \in Procs
                 PROVE  /\ AttemptInv(p) /\ SightInv(p) /\ VerdictInv(p) /\ OpenInv(p)
                        /\ SyncedInv(p) /\ LeaseInv(p) /\ CloseInv(p)
    BY DEF ProcessInv
  <2>2. /\ at[p] = "off" /\ attempt[p] = 0 /\ tracked[p] = {} /\ open[p] = {} /\ write[p] = Idle
        /\ code[p] = "none" /\ lease = None /\ None \notin Procs
        /\ \A a \in Ads : seen[p][a] = Unseen
    BY DEF Init
  <2>3. AttemptInv(p) /\ VerdictInv(p) /\ OpenInv(p) /\ SyncedInv(p) /\ CloseInv(p)
    BY <2>2 DEF AttemptInv, VerdictInv, OpenInv, SyncedInv, CloseInv
  <2>4. SightInv(p) /\ LeaseInv(p)
    BY <2>2 DEF SightInv, LeaseInv, Unseen
  <2>. QED
    BY <2>3, <2>4
<1>11. RowInv /\ NoFalseAbsence
  <2>1. \A a \in Known : world[a] = "listed"
    BY DEF Init
  <2>. QED
    BY <1>1, <1>2, <2>1 DEF RowInv, NoFalseAbsence
<1>12. JournalInv
  BY <1>1 DEF JournalInv
<1>13. ConfirmedWriteIsRecorded
  BY <1>1 DEF Init, ConfirmedWriteIsRecorded
<1>14. ImportsAreWhole
  BY <1>1 DEF ImportsAreWhole
<1>15. clients \subseteq Procs
  BY DEF Init
<1>. QED
  BY <1>9, <1>10, <1>11, <1>12, <1>13, <1>14, <1>15 DEF LauncherInv, StoreInv

LEMMA InvStep ==
  ASSUME LauncherInv, [Next]_vars
  PROVE  LauncherInv'
<1>1. TypeInv /\ ProcessInv /\ RowInv /\ NoFalseAbsence /\ JournalInv /\ ConfirmedWriteIsRecorded
      /\ ImportsAreWhole /\ clients \subseteq Procs
  BY DEF LauncherInv, StoreInv
<1>2. StoreStep /\ WorldGrows
  BY <1>1, NextStores, WorldMovesOn
<1>3. TypeInv' /\ ProcessInv'
  BY <1>1, TypeStep, ProcessStep
<1>4. RowInv' /\ NoFalseAbsence' /\ JournalInv'
  BY <1>1, <1>2, RowStep, JournalStep
<1>5. ConfirmedWriteIsRecorded' /\ ImportsAreWhole' /\ (clients \subseteq Procs)'
  BY <1>1, ConfirmedStep, ImportStep, ClientsStep
<1>. QED
  BY <1>3, <1>4, <1>5 DEF LauncherInv, StoreInv

LEMMA LauncherInvAlways == LauncherSpec => []LauncherInv
<1>1. Init => LauncherInv
  BY InitHolds
<1>2. LauncherInv /\ [Next]_vars => LauncherInv'
  BY InvStep
<1>. QED
  BY <1>1, <1>2, PTL DEF LauncherSpec

\* The state has its type; the lease is with the process whose write runtime
\* is open.
THEOREM LauncherTypeCorrect == LauncherSpec => []LauncherTypeOK
<1>1. LauncherInv => LauncherTypeOK
  <2>1. SUFFICES ASSUME LauncherInv PROVE LauncherTypeOK
    OBVIOUS
  <2>2. TypeInv /\ ProcessInv
    BY <2>1 DEF LauncherInv
  <2>3. db.attempts \in Seq(Journal) /\ db.rows \subseteq Rows
    BY <2>2 DEF TypeInv, ProcessTypes, Databases
  <2>4. ASSUME NEW p \in Procs
        PROVE  /\ tracked[p] \subseteq Ads
               /\ attempt[p] \in 0 .. Len(db.attempts)
               /\ open[p] \subseteq {"inventory", "write", "server"}
               /\ lease = p <=> "write" \in open[p]
               /\ write[p].at \in {"idle", "submitted", "confirmed", "verified"}
               /\ trouble[p] \subseteq {"again", "failed", "unknown", "stuck"}
    <3>1. attempt[p] \in 0 .. Len(db.attempts)
      <4>1. attempt[p] = 0 \/ attempt[p] \in DOMAIN db.attempts
        BY <2>2 DEF ProcessInv, AttemptInv
      <4>. QED
        BY <2>3, <4>1
    <3>2. lease = p <=> "write" \in open[p]
      BY <2>2 DEF ProcessInv, LeaseInv
    <3>3. write[p].at \in {"idle", "submitted", "confirmed", "verified"}
      BY <2>2 DEF TypeInv, ProcessTypes, WriteTypes, Idle
    <3>4. tracked[p] \subseteq Ads /\ open[p] \subseteq Parts /\ trouble[p] \subseteq Troubles
      BY <2>2 DEF TypeInv, ProcessTypes
    <3>. QED
      BY <3>1, <3>2, <3>3, <3>4 DEF Parts, Troubles
  <2>5. \A r \in db.rows : r.ad \in Ads /\ r.state \in Observed
    BY <2>3 DEF Rows
  <2>6. clients \subseteq Procs
    BY <2>1 DEF LauncherInv
  <2>. QED
    BY <2>2, <2>4, <2>5, <2>6 DEF LauncherTypeOK, TypeInv, ProcessTypes
<1>. QED
  BY <1>1, LauncherInvAlways, PTL

\* An ad is stored as absent only when it was gone, or when the list moved
\* under the reader: not because it is newer than what the reader tracked.
THEOREM AbsencesAreTrue == LauncherSpec => []NoFalseAbsence
<1>1. LauncherInv => NoFalseAbsence
  BY DEF LauncherInv, StoreInv
<1>. QED
  BY <1>1, LauncherInvAlways, PTL

\* Journal and observations tell the same story, with transactions that fail
\* or commit unseen and processes that die at any point.
THEOREM TheJournalIsTrue == LauncherSpec => []JournalIsTrue
<1>1. LauncherInv => JournalIsTrue
  BY DEF LauncherInv, StoreInv, JournalInv, EntryInv, RowsOf, Success, ProcessInv, VerdictInv,
     JournalIsTrue
<1>. QED
  BY <1>1, LauncherInvAlways, PTL

\* What was reported as confirmed, or sent to be verified, is in the store.
THEOREM ConfirmedWritesAreRecorded == LauncherSpec => []ConfirmedWriteIsRecorded
<1>1. LauncherInv => ConfirmedWriteIsRecorded
  BY DEF LauncherInv, StoreInv
<1>. QED
  BY <1>1, LauncherInvAlways, PTL

\* A launcher serves what it has synced and imported, and writes under the
\* lease; the messages in the store are whole batches.
THEOREM ServesOnlyWhatItSynced == LauncherSpec => []ServesWhatItSynced
<1>1. LauncherInv => ServesWhatItSynced
  BY DEF LauncherInv, StoreInv, ProcessInv, OpenInv, SyncedInv, LeaseInv, Success,
     ServesWhatItSynced
<1>. QED
  BY <1>1, LauncherInvAlways, PTL

\* A verdict in the journal is never replaced, whatever fails or dies.
THEOREM VerdictsAreFinal == LauncherSpec => VerdictIsFinal
<1>1. LauncherInv /\ [Next]_vars =>
        [\A i \in DOMAIN db.attempts :
           db.attempts[i].outcome # "in_progress" => db'.attempts[i] = db.attempts[i]]_vars
  BY NextStores, StoreGrows DEF LauncherInv, Grows
<1>. QED
  BY <1>1, LauncherInvAlways, PTL DEF LauncherSpec, VerdictIsFinal

\* Exit code 0 of a launcher says that it has closed everything, with submits
\* that stay unknown and cleanups that fail.
THEOREM ExitsAreClean == LauncherSpec => CleanExit
<1>. DEFINE Clean == \A p \in Procs :
              role[p] = "launch" /\ at[p] = "stopped" /\ code'[p] = "ok" /\ at'[p] = "ended" =>
                 open[p] = {} /\ ~pending[p] /\ lease # p
<1>1. LauncherInv /\ [Next]_vars => [Clean]_vars
  <2>1. SUFFICES ASSUME LauncherInv, Next, NEW p \in Procs, role[p] = "launch", at[p] = "stopped",
                        code'[p] = "ok", at'[p] = "ended"
                 PROVE  open[p] = {} /\ ~pending[p] /\ lease # p
    OBVIOUS
  <2>2. TypeInv /\ CloseInv(p) /\ LeaseInv(p)
    BY <2>1 DEF LauncherInv, ProcessInv
  <2>3. ~ \E a \in Ads : ElsewhereChange(a)
    BY <2>1 DEF ElsewhereChange
  <2>4. ASSUME NEW q \in Procs \ {p}, StepOf(q) PROVE FALSE
    BY <2>1, <2>2, <2>4, OnlyOneProcess DEF Untouched
  <2>15. ~UNCHANGED Noticed
    BY <2>1 DEF Noticed
  <2>5. StepOf(p)
    BY <2>1, <2>3, <2>4, <2>15, NextIs DEF StepOf
  <2>6. ~Starts(p)
    BY <2>1 DEF Starts, OpenStore, BeginAttempt, StartInventory, Look, ReadFails, ReadIsFailure, AppendResult,
       FailAttempt, ReturnRefresh, ImportEmails, BuildWrites, BuildDashboard
  <2>7. ~WritesSomething(p)
    BY <2>1 DEF WritesSomething, Submit, ReadBack, Checkpoint, Record
  <2>8. ~Closes(p)
    BY <2>1, <2>2 DEF Closes, StopServing, CloseServer, CloseWriteFails, CloseWrite,
       CloseInventory, Reconcile, Go, TypeInv, ProcessTypes
  <2>9. ~Abort(p)
    BY <2>1 DEF Abort
  <2>10. ~Crash(p)
    BY <2>1, <2>2 DEF Crash, End, TypeInv, ProcessTypes
  <2>11. Exit(p)
    BY <2>5, <2>6, <2>7, <2>8, <2>9, <2>10 DEF StepOf, Ends
  <2>12. ExitCode(p) = "ok"
    BY <2>1, <2>2, <2>11 DEF Exit, End, TypeInv, ProcessTypes
  <2>13. trouble[p] \intersect {"unknown", "failed"} = {}
    BY <2>12 DEF ExitCode
  <2>14. open[p] = {} /\ ~pending[p]
    BY <2>1, <2>2, <2>13 DEF CloseInv
  <2>. QED
    BY <2>2, <2>14 DEF LeaseInv
<1>. QED
  BY <1>1, LauncherInvAlways, PTL DEF LauncherSpec, CleanExit
=============================================================================
