---------------------- MODULE DashboardRecoveryProofs ----------------------
(***************************************************************************)
(* The fence and the two-phase acknowledgement of DashboardRecovery, proved*)
(* for any number of tabs, tasks, handler threads, keys and losses, as long*)
(* as no read of a request's body times out (with such a timeout one more  *)
(* 4xx answer exists, and run DashboardTimeout refutes the fence).         *)
(*                                                                         *)
(* The argument: a key that was told to a user is over for good (Over is   *)
(* stable), only told keys are acknowledged, so the row of a key that may  *)
(* still run, or that a thread is about to start, stays as it was claimed. *)
(***************************************************************************)
EXTENDS DashboardRecovery, TLAPS

\* The request of the key was answered for good, or is refused every time.
Over(k) ==
    \/ backend[k] = "done"
    \/ backend[k] = "absent" /\ class[k] # "valid"

\* Only valid requests are executed.
OnlyValidRuns == \A k \in Keys : class[k] # "valid" => backend[k] = "absent"

\* An answer that a tab may take for the end is the end.
AnswersAreTrue ==
    \A x \in Tasks :
        /\ task[x].reply = "done" => task[x].key # None /\ backend[task[x].key] = "done"
        /\ task[x].reply \in {"rejected", "denied"} =>
              task[x].key # None /\ class[task[x].key] # "valid"

ToldIsOver == \A k \in told : Over(k)

\* Acknowledgements on their way, and those that a page is about to send.
AcksAreTold ==
    /\ \A h \in Threads : thread[h].at = "ack" => thread[h].key \in told
    /\ \A x \in Tasks : task[x].reply = "acknowledged" => task[x].key \in told
    /\ AcknowledgedWasTold

\* The row of a key that runs, or that a thread has claimed, is fenced.
Fenced ==
    \A k \in Keys :
        /\ \/ backend[k] \in {"running", "stuck"}
           \/ \E h \in Threads : thread[h].at = "claimed" /\ thread[h].key = k
        /\ ~Over(k)
        => row = OpenRow(k)

\* A thread that is at work has a key.
WorkHasKey ==
    /\ \A h \in Threads : thread[h].at # "idle" => thread[h].key # None
    /\ \A x \in Tasks :
          \/ task[x].at \in {"writing", "settling", "clearing", "burying"}
          \/ task[x].reply = "acknowledged"
          => task[x].key # None

RecoveryInv ==
    /\ RecoveryTypeOK /\ WorkHasKey /\ OnlyValidRuns /\ AnswersAreTrue
    /\ ToldIsOver /\ AcksAreTold /\ Fenced

-----------------------------------------------------------------------------
(* Types: what pages and threads hold, and that they belong together.      *)

TaskType ==
    [at : {"idle", "writing", "settling", "clearing", "loading", "listing", "burying"},
     tab : Tabs \union {None}, key : used \union {None}, retry : BOOLEAN, reply : Answer \union {None}]

ThreadType ==
    [at : {"idle", "received", "claimed", "waiting", "ack"},
     task : Tasks \union {None}, key : used \union {None}]

Waiting == {"writing", "settling", "clearing", "burying"}

\* A thread answers one task, which waits for it and for its key.
Linked ==
    /\ \A h \in Threads : thread[h].task # None =>
          /\ task[thread[h].task].at \in Waiting
          /\ task[thread[h].task].reply = None
          /\ task[thread[h].task].key = thread[h].key
    /\ \A g, h \in Threads : thread[g].task = thread[h].task => g = h \/ thread[g].task = None

Exchange ==
    /\ task \in [Tasks -> TaskType] /\ thread \in [Threads -> ThreadType]
    /\ Linked /\ WorkHasKey

\* The other variables.
DataTypeOK ==
    /\ row \in [key : used, acked : BOOLEAN] \union {None}
    /\ backend \in [Keys -> {"absent", "running", "done", "stuck"}]
    /\ class \in [Keys -> {"valid", "rejected", "denied"}]
    /\ entry \in [Tabs -> used \union {None}]
    /\ blocked \in [Tabs -> BOOLEAN]
    /\ used \subseteq Keys /\ told \subseteq used
    /\ losses \in 0..MaxLosses

LEMMA TypeParts ==
  /\ RecoveryTypeOK /\ WorkHasKey <=> DataTypeOK /\ Exchange
  /\ (RecoveryTypeOK /\ WorkHasKey <=> DataTypeOK /\ Exchange)'
BY DEF RecoveryTypeOK, DataTypeOK, Exchange, Linked, TaskType, ThreadType, Waiting

\* No thread answers a task that does not wait.
LEMMA NobodyAnswers ==
  ASSUME Exchange, NEW x \in Tasks, task[x].at \notin Waiting \/ task[x].reply # None,
         x # None
  PROVE  \A h \in Threads : thread[h].task # x
BY DEF Exchange, Linked

LEMMA TasksAreNotNone == None \notin Tasks /\ None \notin Tabs /\ None \notin Keys
BY RecoveryConstants

\* A task that nobody answers changes, and so does nothing else in the exchange.
LEMMA TaskChanges ==
  ASSUME Exchange, NEW x \in Tasks, \A h \in Threads : thread[h].task # x,
         task' = [task EXCEPT ![x] = task'[x]], task'[x] \in TaskType,
         task'[x].at \in Waiting \/ task'[x].reply = "acknowledged" => task'[x].key # None,
         UNCHANGED <<thread, used>>
  PROVE  Exchange'
<1>1. task' \in [Tasks -> TaskType] /\ \A y \in Tasks \ {x} : task'[y] = task[y]
  BY DEF Exchange
<1>2. TaskType' = TaskType /\ ThreadType' = ThreadType
  BY DEF TaskType, ThreadType
<1>3. \A h \in Threads : thread[h].task # None => thread[h].task \in Tasks \ {x}
  BY DEF Exchange, ThreadType
<1>4. Linked'
  BY <1>1, <1>3 DEF Exchange, Linked
<1>5. WorkHasKey'
  BY <1>1 DEF Exchange, WorkHasKey, Waiting
<1>. QED
  BY <1>1, <1>2, <1>4, <1>5 DEF Exchange

\* A task sends a request, which a free thread takes.
LEMMA SendingKeepsExchange ==
  ASSUME Exchange, NEW x \in Tasks, \A h \in Threads : thread[h].task # x,
         NEW h \in Threads, NEW at \in {"received", "ack"}, NEW k \in used', k # None,
         NEW next \in TaskType, next.at \in Waiting, Send(x, h, at, k, next),
         used \subseteq used'
  PROVE  Exchange'
<1>1. task'[x] = [next EXCEPT !.key = k, !.reply = None]
  BY DEF Send, Exchange
<1>2. task'[x] \in TaskType' /\ task'[x].at \in Waiting /\ task'[x].key = k /\ task'[x].reply = None
  BY <1>1 DEF TaskType, Answer
<1>3. \A y \in Tasks \ {x} : task'[y] = task[y] /\ task'[y] \in TaskType'
  BY DEF Send, Exchange, TaskType
<1>4. task' \in [Tasks -> TaskType']
  <2>1. DOMAIN task' = Tasks /\ task' = [y \in Tasks |-> task'[y]]
    BY DEF Send, Exchange
  <2>. QED
    BY <1>2, <1>3, <2>1
<1>5. /\ thread[h].at = "idle" /\ thread'[h] = [at |-> at, task |-> x, key |-> k]
      /\ \A g \in Threads \ {h} : thread'[g] = thread[g] /\ thread'[g] \in ThreadType'
  BY DEF Send, Exchange, ThreadType
<1>6. thread' \in [Threads -> ThreadType']
  <2>1. thread'[h] \in ThreadType'
    BY <1>5 DEF ThreadType
  <2>2. DOMAIN thread' = Threads /\ thread' = [g \in Threads |-> thread'[g]]
    BY DEF Send, Exchange
  <2>. QED
    BY <1>5, <2>1, <2>2
<1>7. \A g \in Threads \ {h} : thread[g].task # None => thread[g].task \in Tasks \ {x}
  BY DEF Exchange, ThreadType
<1>8. Linked'
  <2>1. \A g \in Threads : thread'[g].task # None =>
          /\ task'[thread'[g].task].at \in Waiting
          /\ task'[thread'[g].task].reply = None
          /\ task'[thread'[g].task].key = thread'[g].key
    BY <1>2, <1>3, <1>5, <1>7 DEF Exchange, Linked
  <2>2. \A f, g \in Threads :
          thread'[f].task = thread'[g].task => f = g \/ thread'[f].task = None
    BY <1>5 DEF Exchange, Linked
  <2>. QED
    BY <2>1, <2>2 DEF Linked
<1>9. WorkHasKey'
  BY <1>2, <1>3, <1>5 DEF Exchange, WorkHasKey, Waiting
<1>. QED
  BY <1>4, <1>6, <1>8, <1>9 DEF Exchange

\* A thread ends or goes on, a task may be told.
Answers(h) ==
    /\ UNCHANGED used
    /\ \/ /\ thread' = [thread EXCEPT ![h] = Free]
          /\ \/ thread[h].task = None /\ task' = task
             \/ /\ thread[h].task # None
                /\ \E r \in Answer \ {"acknowledged"} : task' = [task EXCEPT ![thread[h].task].reply = r]
       \/ /\ thread' \in {[thread EXCEPT ![h].at = "claimed"], [thread EXCEPT ![h].at = "waiting"]}
          /\ thread[h].at # "idle" /\ task' = task

LEMMA AnsweringKeepsExchange ==
  ASSUME Exchange, NEW h \in Threads, Answers(h)
  PROVE  Exchange'
<1>1. TaskType' = TaskType /\ ThreadType' = ThreadType
  BY DEF Answers, TaskType, ThreadType
<1>2. thread[h] \in ThreadType /\ Free \in ThreadType
  BY DEF Exchange, ThreadType, Free
<1>3. CASE thread' = [thread EXCEPT ![h] = Free] /\ thread[h].task = None /\ task' = task
  <2>1. thread' \in [Threads -> ThreadType]
    BY <1>2, <1>3 DEF Exchange
  <2>2. /\ thread'[h] = Free
        /\ \A g \in Threads \ {h} : thread'[g] = thread[g]
    BY <1>3 DEF Exchange
  <2>. QED
    BY <1>1, <1>3, <2>1, <2>2 DEF Exchange, Linked, WorkHasKey, Free
<1>4. ASSUME thread' = [thread EXCEPT ![h] = Free], thread[h].task # None,
             NEW r \in Answer, task' = [task EXCEPT ![thread[h].task].reply = r]
      PROVE  Exchange'
  <2>. DEFINE x == thread[h].task
  <2>1. x \in Tasks /\ task[x] \in TaskType
    BY <1>2, <1>4 DEF Exchange, ThreadType
  <2>2. [task[x] EXCEPT !.reply = r] \in TaskType
    BY <2>1 DEF TaskType
  <2>3. /\ task' \in [Tasks -> TaskType]
        /\ task'[x] = [task[x] EXCEPT !.reply = r]
        /\ \A y \in Tasks \ {x} : task'[y] = task[y]
    BY <1>4, <2>1, <2>2 DEF Exchange
  <2>4. task'[x].at = task[x].at /\ task'[x].key = task[x].key
    BY <2>1, <2>3 DEF TaskType
  <2>5. /\ thread' \in [Threads -> ThreadType] /\ thread'[h] = Free
        /\ \A g \in Threads \ {h} : thread'[g] = thread[g]
    BY <1>2, <1>4 DEF Exchange
  <2>6. \A g \in Threads \ {h} : thread[g].task # None => thread[g].task \in Tasks \ {x}
    BY <1>4 DEF Exchange, Linked, ThreadType
  <2>7. Linked'
    BY <2>3, <2>5, <2>6 DEF Exchange, Linked, Free
  <2>8. WorkHasKey'
    <3>1. \A g \in Threads : thread'[g].at # "idle" => thread'[g].key # None
      BY <2>5 DEF Exchange, WorkHasKey, Free
    <3>2. \A y \in Tasks : task'[y].at = task[y].at /\ task'[y].key = task[y].key
      BY <2>3, <2>4
    <3>3. task[x].key # None
      BY <1>4, <2>1 DEF Exchange, Linked, WorkHasKey, Waiting
    <3>4. \A y \in Tasks : y # x => task'[y].reply = task[y].reply
      BY <2>3
    <3>. QED
      BY <3>1, <3>2, <3>3, <3>4 DEF Exchange, WorkHasKey
  <2>. QED
    BY <1>1, <2>3, <2>5, <2>7, <2>8 DEF Exchange
<1>5. ASSUME NEW at \in {"claimed", "waiting"}, thread' = [thread EXCEPT ![h].at = at],
             thread[h].at # "idle", task' = task
      PROVE  Exchange'
  <2>1. [thread[h] EXCEPT !.at = at] \in ThreadType
    BY <1>2 DEF ThreadType
  <2>2. /\ thread' \in [Threads -> ThreadType]
        /\ thread'[h] = [thread[h] EXCEPT !.at = at]
        /\ \A g \in Threads \ {h} : thread'[g] = thread[g]
    BY <1>5, <2>1 DEF Exchange
  <2>3. \A g \in Threads : thread'[g].task = thread[g].task /\ thread'[g].key = thread[g].key
    BY <1>2, <2>2 DEF ThreadType
  <2>4. \A g \in Threads : thread'[g].at # "idle" => thread[g].at # "idle"
    BY <1>5, <2>2
  <2>5. Linked'
    BY <1>5, <2>3 DEF Exchange, Linked
  <2>6. WorkHasKey'
    BY <1>5, <2>3, <2>4 DEF Exchange, WorkHasKey
  <2>. QED
    BY <1>1, <1>5, <2>2, <2>5, <2>6 DEF Exchange
<1>. QED
  BY <1>3, <1>4, <1>5 DEF Answers

\* Tasks end, their threads work on for nobody.
LEMMA AbandoningKeepsExchange ==
  ASSUME Exchange, NEW gone \in SUBSET Tasks, None \notin gone,
         thread' = Abandoned(gone), UNCHANGED used,
         \/ task' = [x \in Tasks |-> IF x \in gone THEN NoTask ELSE task[x]]
         \/ \E x \in Tasks : gone = {x} /\ task' = [task EXCEPT ![x].reply = "lost"]
  PROVE  Exchange'
<1>1. TaskType' = TaskType /\ ThreadType' = ThreadType
  BY DEF TaskType, ThreadType
<1>2. \A x \in Tasks :
        /\ task'[x] \in TaskType
        /\ x \notin gone => task'[x] = task[x]
        /\ task'[x].at \in Waiting => task'[x].key = task[x].key /\ task[x].at \in Waiting
        /\ task'[x].reply = "acknowledged" => task'[x] = task[x]
  <2>1. CASE task' = [x \in Tasks |-> IF x \in gone THEN NoTask ELSE task[x]]
    BY <2>1, RecoveryConstants DEF Exchange, NoTask, TaskType, Answer, Waiting
  <2>2. ASSUME NEW x \in Tasks, gone = {x}, task' = [task EXCEPT ![x].reply = "lost"]
        PROVE  \A y \in Tasks :
                  /\ task'[y] \in TaskType
                  /\ y \notin gone => task'[y] = task[y]
                  /\ task'[y].at \in Waiting => task'[y].key = task[y].key /\ task[y].at \in Waiting
                  /\ task'[y].reply = "acknowledged" => task'[y] = task[y]
    BY <2>2 DEF Exchange, TaskType, Answer
  <2>. QED
    BY <2>1, <2>2
<1>3. task' \in [Tasks -> TaskType]
  <2>1. task' = [x \in Tasks |-> task'[x]]
    BY DEF Exchange
  <2>. QED
    BY <1>2, <2>1
<1>4. \A h \in Threads :
        /\ thread'[h] \in ThreadType
        /\ thread'[h].at = thread[h].at /\ thread'[h].key = thread[h].key
        /\ thread'[h].task = IF thread[h].task \in gone THEN None ELSE thread[h].task
  BY DEF Exchange, Abandoned, ThreadType
<1>5. thread' \in [Threads -> ThreadType]
  BY <1>4 DEF Abandoned
<1>6. Linked'
  <2>1. ASSUME NEW h \in Threads, thread'[h].task # None
        PROVE  /\ thread'[h].task = thread[h].task /\ thread[h].task \in Tasks \ gone
               /\ task'[thread[h].task] = task[thread[h].task]
    BY <1>2, <1>4, <2>1 DEF Exchange, ThreadType
  <2>2. \A h \in Threads : thread'[h].task # None =>
          /\ task'[thread'[h].task].at \in Waiting
          /\ task'[thread'[h].task].reply = None
          /\ task'[thread'[h].task].key = thread'[h].key
    BY <1>4, <2>1 DEF Exchange, Linked
  <2>3. \A g, h \in Threads :
          thread'[g].task = thread'[h].task => g = h \/ thread'[g].task = None
    BY <2>1 DEF Exchange, Linked
  <2>. QED
    BY <2>2, <2>3 DEF Linked
<1>7. WorkHasKey'
  BY <1>2, <1>4 DEF Exchange, WorkHasKey, Waiting
<1>. QED
  BY <1>1, <1>3, <1>5, <1>6, <1>7 DEF Exchange

\* Every step of the specification is of one of these kinds.
LEMMA ReplyAnswers ==
  ASSUME Exchange, NEW h \in Threads, NEW a \in Answer \ {"acknowledged"}, Reply(h, a), UNCHANGED used
  PROVE  Answers(h)
BY DEF Reply, Answers, Answer

LEMMA ThreadStepAnswers ==
  ASSUME Exchange, DataTypeOK, NEW h \in Threads, ThreadStep(h) \/ Fail(h)
  PROVE  Answers(h)
<1>1. thread[h] \in ThreadType
  BY DEF Exchange
<1>2. CASE Refuse(h)
  BY <1>2, ReplyAnswers DEF Refuse, Answer
<1>3. CASE Claim(h)
  <2>1. CASE Reply(h, "conflict")
    BY <1>3, <2>1, ReplyAnswers DEF Claim, Answer
  <2>. QED
    BY <1>3, <2>1 DEF Claim, Answers
<1>4. CASE Forward(h)
  <2>1. thread[h].key \in Keys
    BY <1>1, <1>4 DEF Forward, Exchange, WorkHasKey, ThreadType, DataTypeOK
  <2>2. class[thread[h].key] # "valid" => class[thread[h].key] \in Answer \ {"acknowledged"}
    BY <2>1 DEF DataTypeOK, Answer
  <2>3. ASSUME NEW a \in Answer \ {"acknowledged"}, Reply(h, a) PROVE Answers(h)
    BY <1>4, <2>3, ReplyAnswers DEF Forward
  <2>4. CASE thread' = [thread EXCEPT ![h].at = "waiting"] /\ UNCHANGED <<task, losses>>
    BY <1>4, <2>4 DEF Forward, Answers
  <2>. QED
    BY <1>4, <2>2, <2>3, <2>4 DEF Forward, Answer
<1>5. CASE PassOn(h)
  BY <1>5, ReplyAnswers DEF PassOn, Answer
<1>6. CASE Acknowledge(h)
  BY <1>6, ReplyAnswers DEF Acknowledge, Answer
<1>7. CASE Fail(h)
  BY <1>7 DEF Fail, Answers, Answer
<1>. QED
  BY <1>2, <1>3, <1>4, <1>5, <1>6, <1>7 DEF ThreadStep

LEMMA ExchangeStep ==
  ASSUME Exchange, DataTypeOK, [Next]_vars
  PROVE  Exchange'
<1>0. \A x \in Tasks : task[x] \in TaskType /\ x # None
  BY TasksAreNotNone DEF Exchange
<1>1. ASSUME NEW t \in Tabs, NEW x \in Tasks, NEW h \in Threads, SubmitFresh(t, x, h)
      PROVE  Exchange'
  <2>1. \A g \in Threads : thread[g].task # x
    BY <1>0, <1>1, NobodyAnswers DEF SubmitFresh, Waiting
  <2>2. PICK k \in Keys \ used :
          /\ used' = used \union {k}
          /\ Send(x, h, "received", k, [NoTask EXCEPT !.at = "writing", !.tab = t])
    BY <1>1 DEF SubmitFresh
  <2>3. [NoTask EXCEPT !.at = "writing", !.tab = t] \in TaskType
    BY DEF NoTask, TaskType, Answer
  <2>4. [NoTask EXCEPT !.at = "writing", !.tab = t].at \in Waiting
    BY DEF NoTask, Waiting
  <2>. QED
    BY <2>1, <2>2, <2>3, <2>4, SendingKeepsExchange, TasksAreNotNone
<1>2. ASSUME NEW t \in Tabs, NEW x \in Tasks, NEW h \in Threads, SubmitAgain(t, x, h)
      PROVE  Exchange'
  <2>. DEFINE next == [NoTask EXCEPT !.at = "writing", !.tab = t, !.retry = TRUE]
  <2>1. \A g \in Threads : thread[g].task # x
    BY <1>0, <1>2, NobodyAnswers DEF SubmitAgain, Waiting
  <2>2. /\ entry[t] # None /\ entry[t] \in used /\ UNCHANGED used
        /\ Send(x, h, "received", entry[t], next)
    BY <1>2 DEF SubmitAgain, DataTypeOK
  <2>3. next \in TaskType /\ next.at \in Waiting
    BY DEF NoTask, TaskType, Answer, Waiting
  <2>. QED
    BY <2>1, <2>2, <2>3, SendingKeepsExchange
<1>3. ASSUME NEW x \in Tasks, NEW h \in Threads, Settled(x, h) \/ BuryTombstone(x, h)
      PROVE  Exchange'
  <2>1. task[x].reply # None
    BY <1>0, <1>3, RecoveryConstants DEF Settled, BuryTombstone, ClearsPending, Answer
  <2>2. \A g \in Threads : thread[g].task # x
    BY <1>0, <2>1, NobodyAnswers
  <2>3. ASSUME NEW at \in {"settling", "clearing", "burying"}, SendAck(x, h, at),
               task[x].key # None, UNCHANGED used
        PROVE  Exchange'
    <3>. DEFINE next == [task[x] EXCEPT !.at = at]
    <3>1. next \in TaskType /\ next.at \in Waiting /\ task[x].key \in used
      BY <1>0, <2>3 DEF TaskType, Waiting
    <3>. QED
      BY <2>2, <2>3, <3>1, SendingKeepsExchange DEF SendAck
  <2>4. CASE Settled(x, h)
    <3>1. task[x].key # None
      BY <2>4 DEF Settled, Exchange, WorkHasKey
    <3>. QED
      BY <2>3, <2>4, <3>1 DEF Settled
  <2>5. CASE BuryTombstone(x, h)
    <3>1. task[x].key # None
      BY <2>5 DEF BuryTombstone, Exchange, WorkHasKey
    <3>. QED
      BY <2>3, <2>5, <3>1 DEF BuryTombstone
  <2>. QED
    BY <1>3, <2>4, <2>5
<1>4. ASSUME NEW x \in Tasks,
             \/ StaysBound(x) \/ Conflicts(x) \/ Acknowledged(x) \/ Refresh(x) \/ ListRows(x)
             \/ BindRows(x) \/ Buried(x) \/ LoadFails(x) \/ ListFails(x)
             \/ \E t \in Tabs : Reload(t, x)
      PROVE  Exchange'
  <2>1. \A h \in Threads : thread[h].task # x
    <3>1. task[x].at \notin Waiting \/ task[x].reply # None
      BY <1>4, RecoveryConstants DEF StaysBound, Conflicts, Acknowledged, Refresh, ListRows,
         BindRows, Buried, LoadFails, ListFails, Reload, Waiting, Answer
    <3>. QED
      BY <1>0, <3>1, NobodyAnswers
  <2>2. ASSUME NEW new \in TaskType, new.at \notin Waiting, task' = [task EXCEPT ![x] = new],
               new.reply = "acknowledged" => new.key # None, UNCHANGED <<thread, used>>
        PROVE  Exchange'
    <3>1. task'[x] = new
      BY <2>2 DEF Exchange
    <3>. QED
      BY <2>1, <2>2, <3>1, TaskChanges
  <2>3. /\ NoTask \in TaskType /\ NoTask.at \notin Waiting /\ NoTask.reply # "acknowledged"
        /\ \A t \in Tabs \union {None} :
              LET new == [NoTask EXCEPT !.at = "loading", !.tab = t] IN
                new \in TaskType /\ new.at \notin Waiting /\ new.reply # "acknowledged"
    BY RecoveryConstants DEF NoTask, TaskType, Waiting, Answer
  <2>4. task[x].tab \in Tabs \union {None}
    BY <1>0 DEF TaskType
  <2>5. CASE StaysBound(x) \/ Conflicts(x) \/ Acknowledged(x) \/ BindRows(x) \/ Buried(x)
             \/ LoadFails(x) \/ \E t \in Tabs : Reload(t, x)
    BY <2>2, <2>3, <2>4, <2>5 DEF StaysBound, Conflicts, Acknowledged, BindRows, Buried,
       LoadFails, Reload, Idle
  <2>6. CASE Refresh(x)
    <3>. DEFINE new == [task[x] EXCEPT !.at = "listing"]
    <3>1. new \in TaskType /\ new.at \notin Waiting /\ task' = [task EXCEPT ![x] = new]
      BY <1>0, <2>6 DEF Refresh, TaskType, Waiting
    <3>2. new.reply = "acknowledged" => new.key # None
      BY <1>0 DEF TaskType, Exchange, WorkHasKey
    <3>. QED
      BY <2>2, <2>6, <3>1, <3>2 DEF Refresh
  <2>7. CASE ListRows(x)
    <3>1. CASE row = None
      <4>. DEFINE new == [task[x] EXCEPT !.reply = "empty"]
      <4>1. /\ new \in TaskType /\ new.at \notin Waiting /\ new.reply # "acknowledged"
            /\ task' = [task EXCEPT ![x] = new]
        BY <1>0, <2>7, <3>1 DEF ListRows, TaskType, Answer, Waiting
      <4>. QED
        BY <2>2, <2>7, <4>1 DEF ListRows
    <3>2. ASSUME row # None, NEW r \in {"acknowledged", "open"},
                 task' = [task EXCEPT ![x].key = row.key, ![x].reply = r]
          PROVE  Exchange'
      <4>. DEFINE new == [task[x] EXCEPT !.key = row.key, !.reply = r]
      <4>1. row.key \in used /\ row.key # None
        BY <3>2, TasksAreNotNone DEF DataTypeOK
      <4>2. new \in TaskType /\ new.at \notin Waiting /\ new.key # None
        BY <1>0, <2>7, <4>1 DEF ListRows, TaskType, Answer, Waiting
      <4>3. task' = [task EXCEPT ![x] = new]
        BY <1>0, <3>2 DEF TaskType
      <4>. QED
        BY <2>2, <2>7, <4>2, <4>3 DEF ListRows
    <3>. QED
      BY <2>7, <3>1, <3>2 DEF ListRows
  <2>8. CASE ListFails(x)
    <3>. DEFINE new == [task[x] EXCEPT !.reply = "unknown"]
    <3>1. new \in TaskType /\ new.at \notin Waiting /\ task' = [task EXCEPT ![x] = new]
      BY <1>0, <2>8 DEF ListFails, TaskType, Answer, Waiting
    <3>2. new.reply # "acknowledged"
      BY <1>0 DEF TaskType
    <3>. QED
      BY <2>2, <2>8, <3>1, <3>2 DEF ListFails
  <2>. QED
    BY <1>4, <2>5, <2>6, <2>7, <2>8
<1>5. ASSUME NEW h \in Threads, ThreadStep(h) \/ Fail(h) PROVE Exchange'
  BY <1>5, ThreadStepAnswers, AnsweringKeepsExchange
<1>6. ASSUME NEW t \in Tabs, CloseTab(t) PROVE Exchange'
  <2>. DEFINE gone == {x \in Tasks : task[x].tab = t}
  <2>1. gone \in SUBSET Tasks /\ None \notin gone
    BY <1>0
  <2>2. /\ task' = [x \in Tasks |-> IF x \in gone THEN NoTask ELSE task[x]]
        /\ thread' = Abandoned(gone) /\ UNCHANGED used
    BY <1>6 DEF CloseTab
  <2>. QED
    BY <2>1, <2>2, AbandoningKeepsExchange
<1>7. ASSUME NEW x \in Tasks, Disconnect(x) PROVE Exchange'
  <2>1. {x} \in SUBSET Tasks /\ None \notin {x}
    BY <1>0
  <2>. QED
    BY <1>7, <2>1, AbandoningKeepsExchange DEF Disconnect
<1>8. CASE Crash
  BY <1>8, RecoveryConstants DEF Crash, Exchange, NoTask, Free, TaskType, ThreadType, Linked, WorkHasKey, Answer
<1>9. CASE UNCHANGED <<task, thread, used>>
  BY <1>9 DEF Exchange, Linked, WorkHasKey, TaskType, ThreadType
<1>. QED
  BY <1>1, <1>2, <1>3, <1>4, <1>5, <1>6, <1>7, <1>8, <1>9
     DEF Next, UserStep, PageStep, PageLoss, FinishRun, vars

LEMMA DataTypeStep ==
  ASSUME Exchange, DataTypeOK, [Next]_vars
  PROVE  DataTypeOK'
<1>0. /\ \A h \in Threads : thread[h] \in ThreadType /\ (thread[h].at # "idle" => thread[h].key \in used)
      /\ \A x \in Tasks : task[x] \in TaskType /\ task[x].key \in used \union {None}
      /\ \A x \in Tasks : task[x].at \in Waiting => task[x].key \in used
  BY DEF Exchange, ThreadType, TaskType, WorkHasKey, Waiting
<1>1. ASSUME NEW t \in Tabs, NEW x \in Tasks, NEW h \in Threads, SubmitFresh(t, x, h)
      PROVE  DataTypeOK'
  BY <1>1 DEF SubmitFresh, DataTypeOK
<1>2. ASSUME NEW x \in Tasks, NEW h \in Threads, Settled(x, h) PROVE DataTypeOK'
  BY <1>0, <1>2 DEF Settled, DataTypeOK, Waiting
<1>3. ASSUME UNCHANGED <<row, backend, class, used, told>>,
             losses' = losses \/ (losses < MaxLosses /\ losses' = losses + 1),
             entry' \in [Tabs -> used \union {None}], blocked' \in [Tabs -> BOOLEAN]
      PROVE  DataTypeOK'
  BY <1>3, RecoveryConstants DEF DataTypeOK
<1>4. ASSUME NEW x \in Tasks,
             StaysBound(x) \/ Conflicts(x) \/ Acknowledged(x) \/ Refresh(x) \/ ListRows(x)
             \/ BindRows(x) \/ Buried(x) \/ LoadFails(x) \/ ListFails(x) \/ Disconnect(x)
             \/ \E h \in Threads : BuryTombstone(x, h)
      PROVE  DataTypeOK'
  <2>1. UNCHANGED <<row, backend, class, used, told>>
    BY <1>4 DEF StaysBound, Conflicts, Acknowledged, Refresh, ListRows, BindRows, Buried,
       LoadFails, ListFails, Disconnect, BuryTombstone
  <2>2. losses' = losses \/ (losses < MaxLosses /\ losses' = losses + 1)
    BY <1>4 DEF StaysBound, Conflicts, Acknowledged, Refresh, ListRows, BindRows, Buried,
       LoadFails, ListFails, Disconnect, BuryTombstone
  <2>3. /\ entry' = entry \/ \E k \in used \union {None} : entry' = [entry EXCEPT ![task[x].tab] = k]
        /\ blocked' = blocked \/ \E b \in BOOLEAN : blocked' = [blocked EXCEPT ![task[x].tab] = b]
    BY <1>0, <1>4 DEF StaysBound, Conflicts, Acknowledged, Refresh, ListRows, BindRows, Buried,
       LoadFails, ListFails, Disconnect, BuryTombstone
  <2>4. entry' \in [Tabs -> used \union {None}]
    BY <2>3 DEF DataTypeOK
  <2>5. blocked' \in [Tabs -> BOOLEAN]
    BY <2>3 DEF DataTypeOK
  <2>. QED
    BY <1>3, <2>1, <2>2, <2>4, <2>5
<1>5. ASSUME NEW t \in Tabs, CloseTab(t) PROVE DataTypeOK'
  BY <1>3, <1>5 DEF CloseTab, DataTypeOK
<1>6. ASSUME NEW t \in Tabs, NEW x \in Tasks,
             Reload(t, x) \/ \E h \in Threads : SubmitAgain(t, x, h)
      PROVE  DataTypeOK'
  BY <1>3, <1>6 DEF Reload, SubmitAgain, DataTypeOK
<1>7. ASSUME NEW h \in Threads, ThreadStep(h) \/ Fail(h) PROVE DataTypeOK'
  <2>1. UNCHANGED <<class, entry, blocked, used, told>>
    BY <1>7 DEF ThreadStep, Refuse, Claim, Forward, PassOn, Acknowledge, Fail
  <2>4. losses' = losses \/ (losses < MaxLosses /\ losses' = losses + 1)
    <3>1. ASSUME NEW a, Reply(h, a)
          PROVE  losses' = losses \/ (losses < MaxLosses /\ losses' = losses + 1)
      BY <3>1 DEF Reply
    <3>2. CASE Fail(h)
      BY <3>2 DEF Fail
    <3>3. CASE Refuse(h) \/ PassOn(h) \/ Acknowledge(h)
      BY <3>1, <3>3 DEF Refuse, PassOn, Acknowledge
    <3>4. CASE Claim(h)
      BY <3>1, <3>4 DEF Claim
    <3>5. CASE Forward(h)
      BY <3>1, <3>5 DEF Forward
    <3>. QED
      BY <1>7, <3>2, <3>3, <3>4, <3>5 DEF ThreadStep
  <2>2. row' \in [key : used, acked : BOOLEAN] \union {None}
    <3>1. CASE Claim(h)
      <4>1. OpenRow(thread[h].key) \in [key : used, acked : BOOLEAN]
        BY <1>0, <3>1 DEF Claim, OpenRow
      <4>. QED
        BY <3>1, <4>1 DEF Claim, DataTypeOK
    <3>2. CASE Acknowledge(h)
      <4>1. row # None => [row EXCEPT !.acked = TRUE] \in [key : used, acked : BOOLEAN]
        BY DEF DataTypeOK
      <4>. QED
        BY <3>2, <4>1 DEF Acknowledge, Finds, MarkOrDelete, DataTypeOK
    <3>3. CASE row' = row
      BY <3>3 DEF DataTypeOK
    <3>. QED
      BY <1>7, <3>1, <3>2, <3>3 DEF ThreadStep, Refuse, Forward, PassOn, Fail
  <2>3. backend' \in [Keys -> {"absent", "running", "done", "stuck"}]
    BY <1>7 DEF ThreadStep, Refuse, Claim, Forward, PassOn, Acknowledge, Fail, DataTypeOK
  <2>. QED
    BY <2>1, <2>2, <2>3, <2>4, RecoveryConstants DEF DataTypeOK
<1>8. ASSUME NEW k \in Keys, FinishRun(k) PROVE DataTypeOK'
  BY <1>8 DEF FinishRun, DataTypeOK
<1>9. CASE Crash
  BY <1>9, RecoveryConstants DEF Crash, DataTypeOK
<1>10. CASE UNCHANGED vars
  BY <1>10 DEF vars, DataTypeOK
<1>. QED
  BY <1>1, <1>2, <1>4, <1>5, <1>6, <1>7, <1>8, <1>9, <1>10
     DEF Next, UserStep, PageStep, PageLoss

-----------------------------------------------------------------------------
(* What is over stays over.                                                *)

\* No step of anybody starts or changes the execution of a key that is over.
LEMMA OverIsFinal ==
  ASSUME DataTypeOK, [Next]_vars
  PROVE  class' = class /\ \A k \in Keys : Over(k) => backend'[k] = backend[k] /\ Over(k)'
<1>1. class' = class
  BY DEF Next, UserStep, PageStep, PageLoss, ThreadStep, vars, SubmitFresh, SubmitAgain, Settled,
     StaysBound, Conflicts, Acknowledged, Reload, Refresh, LoadFails, ListRows, ListFails,
     BindRows, BuryTombstone, Buried, Refuse, Claim, Forward, FinishRun, PassOn, Fail,
     Acknowledge, CloseTab, Disconnect, Crash
<1>2. \A k \in Keys : Over(k) => backend'[k] = backend[k]
  <2>1. CASE backend' = backend
    BY <2>1
  <2>2. ASSUME NEW h \in Threads, Forward(h), backend' # backend
        PROVE  \A k \in Keys : Over(k) => backend'[k] = backend[k]
    BY <2>2 DEF Forward, Over, DataTypeOK
  <2>3. ASSUME NEW j \in Keys, FinishRun(j)
        PROVE  \A k \in Keys : Over(k) => backend'[k] = backend[k]
    BY <2>3 DEF FinishRun, Over, DataTypeOK
  <2>4. CASE Crash
    BY <2>4 DEF Crash, Over, DataTypeOK
  <2>. QED
    BY <2>1, <2>2, <2>3, <2>4
       DEF Next, UserStep, PageStep, PageLoss, ThreadStep, vars, SubmitFresh, SubmitAgain,
           Settled, StaysBound, Conflicts, Acknowledged, Reload, Refresh, LoadFails, ListRows,
           ListFails, BindRows, BuryTombstone, Buried, Refuse, Claim, PassOn, Fail,
           Acknowledge, CloseTab, Disconnect
<1>. QED
  BY <1>1, <1>2 DEF Over

LEMMA OnlyValidStep ==
  ASSUME DataTypeOK, OnlyValidRuns, [Next]_vars
  PROVE  OnlyValidRuns'
<1>1. \A k \in Keys : class[k] # "valid" => Over(k) /\ backend[k] = "absent"
  BY DEF OnlyValidRuns, Over
<1>. QED
  BY <1>1, OverIsFinal DEF OnlyValidRuns

\* The answers that threads give to the tasks that wait for them.
LEMMA AnswersStep ==
  ASSUME ~BodyTimeouts, Exchange, DataTypeOK, OnlyValidRuns, AnswersAreTrue, [Next]_vars
  PROVE  AnswersAreTrue'
<1>. DEFINE Final == {"done", "rejected", "denied"}
<1>0. class' = class /\ \A k \in Keys : backend[k] = "done" => backend'[k] = "done"
  BY OverIsFinal DEF Over
<1>1. ASSUME \A y \in Tasks :
                \/ task'[y].reply = task[y].reply /\ task'[y].key = task[y].key
                \/ task'[y].reply \notin Final
      PROVE  AnswersAreTrue'
  <2>1. \A y \in Tasks : task[y].key \in Keys \union {None}
    BY DEF Exchange, TaskType, DataTypeOK
  <2>. QED
    BY <1>0, <1>1, <2>1 DEF AnswersAreTrue
<1>2. ASSUME NEW h \in Threads, NEW a \in Answer, Reply(h, a),
             a = "done" => backend'[thread[h].key] = "done",
             a \in {"rejected", "denied"} => class[thread[h].key] # "valid",
             thread[h].at # "idle"
      PROVE  AnswersAreTrue'
  <2>1. CASE task' = task
    BY <1>1, <2>1
  <2>2. ASSUME thread[h].task # None, NEW r \in {a, "lost"},
               task' = [task EXCEPT ![thread[h].task].reply = r]
        PROVE  AnswersAreTrue'
    <3>. DEFINE x == thread[h].task
    <3>1. /\ x \in Tasks /\ task[x].key = thread[h].key /\ thread[h].key # None
          /\ task[x] \in TaskType
      BY <1>2, <2>2 DEF Exchange, ThreadType, Linked, WorkHasKey
    <3>2. /\ task'[x].reply = r /\ task'[x].key = thread[h].key
          /\ \A y \in Tasks \ {x} : task'[y] = task[y]
      BY <2>2, <3>1 DEF Exchange, TaskType
    <3>3. \A y \in Tasks : task[y].key \in Keys \union {None}
      BY DEF Exchange, TaskType, DataTypeOK
    <3>. QED
      BY <1>0, <1>2, <2>2, <3>1, <3>2, <3>3 DEF AnswersAreTrue
  <2>. QED
    BY <1>2, <2>1, <2>2 DEF Reply
<1>3. ASSUME NEW h \in Threads, ThreadStep(h) PROVE AnswersAreTrue'
  <2>1. CASE Refuse(h)
    BY <1>2, <2>1 DEF Refuse, Answer
  <2>2. CASE Claim(h)
    BY <1>1, <1>2, <2>2 DEF Claim, Answer
  <2>3. CASE Forward(h)
    <3>1. thread[h].key \in Keys
      BY <2>3 DEF Forward, Exchange, ThreadType, WorkHasKey, DataTypeOK
    <3>2. class[thread[h].key] # "valid" => class[thread[h].key] \in {"rejected", "denied"}
      BY <3>1 DEF DataTypeOK
    <3>. QED
      BY <1>1, <1>2, <2>3, <3>2 DEF Forward, Answer
  <2>4. CASE PassOn(h)
    BY <1>2, <2>4 DEF PassOn, Answer
  <2>5. CASE Acknowledge(h)
    BY <1>2, <2>5 DEF Acknowledge, Answer
  <2>. QED
    BY <1>3, <2>1, <2>2, <2>3, <2>4, <2>5 DEF ThreadStep
<1>4. NoTask.reply \notin Final /\ None \notin Final /\ \A x \in Tasks : task[x] \in TaskType
  BY RecoveryConstants DEF NoTask, Answer, Exchange
<1>5. ASSUME NEW x \in Tasks, NEW h \in Threads, NEW at, NEW k, NEW next \in TaskType,
             Send(x, h, at, k, next)
      PROVE  AnswersAreTrue'
  <2>1. task'[x].reply = None /\ \A y \in Tasks \ {x} : task'[y] = task[y]
    BY <1>5 DEF Send, Exchange, TaskType
  <2>. QED
    BY <1>1, <1>4, <2>1
<1>6. ASSUME NEW x \in Tasks, NEW t \in Tabs \union {None},
             Idle(x) \/ task' = [task EXCEPT ![x] = [NoTask EXCEPT !.at = "loading", !.tab = t]]
      PROVE  AnswersAreTrue'
  <2>1. NoTask.reply = None /\ [NoTask EXCEPT !.at = "loading", !.tab = t].reply = None
    BY DEF NoTask
  <2>2. task'[x].reply = None /\ \A y \in Tasks \ {x} : task'[y] = task[y]
    BY <1>6, <2>1 DEF Idle, Exchange
  <2>. QED
    BY <1>1, <1>4, <2>2
<1>7. ASSUME NEW t \in Tabs, UserStep(t) PROVE AnswersAreTrue'
  <2>1. /\ [NoTask EXCEPT !.at = "writing", !.tab = t] \in TaskType
        /\ [NoTask EXCEPT !.at = "writing", !.tab = t, !.retry = TRUE] \in TaskType
    BY DEF NoTask, TaskType
  <2>. QED
    BY <1>5, <1>6, <1>7, <2>1 DEF UserStep, SubmitFresh, SubmitAgain, Reload
<1>8. ASSUME NEW x \in Tasks, NEW h \in Threads, Settled(x, h) \/ BuryTombstone(x, h)
      PROVE  AnswersAreTrue'
  <2>1. \A at \in {"settling", "clearing", "burying"} : [task[x] EXCEPT !.at = at] \in TaskType
    BY <1>4 DEF TaskType
  <2>. QED
    BY <1>5, <1>8, <2>1 DEF Settled, BuryTombstone, SendAck
<1>9. ASSUME NEW x \in Tasks, StaysBound(x) \/ Conflicts(x) \/ Acknowledged(x) \/ BindRows(x)
                                \/ Buried(x) \/ LoadFails(x)
      PROVE  AnswersAreTrue'
  <2>1. task[x].tab \in Tabs \union {None}
    BY <1>4 DEF TaskType
  <2>. QED
    BY <1>6, <1>9, <2>1 DEF StaysBound, Conflicts, Acknowledged, BindRows, Buried, LoadFails
<1>10. ASSUME NEW x \in Tasks, Refresh(x) \/ ListRows(x) \/ ListFails(x) \/ Disconnect(x)
       PROVE  AnswersAreTrue'
  <2>1. /\ \A y \in Tasks \ {x} : task'[y] = task[y]
        /\ \/ task'[x].reply = task[x].reply /\ task'[x].key = task[x].key
           \/ task'[x].reply \notin Final
    BY <1>4, <1>10 DEF Refresh, ListRows, ListFails, Disconnect, Exchange, TaskType
  <2>. QED
    BY <1>1, <2>1
<1>11. ASSUME NEW h \in Threads, Fail(h) PROVE AnswersAreTrue'
  <2>1. CASE task' = task
    BY <1>1, <2>1
  <2>2. CASE thread[h].task # None
    <3>1. thread[h].task \in Tasks
      BY <2>2 DEF Exchange, ThreadType
    <3>2. /\ task'[thread[h].task].reply = "unknown"
          /\ \A y \in Tasks \ {thread[h].task} : task'[y] = task[y]
      BY <1>4, <1>11, <2>2, <3>1 DEF Fail, Exchange, TaskType
    <3>. QED
      BY <1>1, <3>2
  <2>. QED
    BY <1>11, <2>1, <2>2 DEF Fail
<1>12. CASE Crash \/ \E t \in Tabs : CloseTab(t)
  <2>1. \A y \in Tasks : task'[y] \in {task[y], NoTask}
    BY <1>12 DEF Crash, CloseTab
  <2>. QED
    BY <1>1, <1>4, <2>1
<1>13. CASE task' = task
  BY <1>1, <1>13
<1>. QED
  BY <1>3, <1>7, <1>8, <1>9, <1>10, <1>11, <1>12, <1>13
     DEF Next, PageStep, PageLoss, FinishRun, vars

-----------------------------------------------------------------------------
(* What was told, and what may be acknowledged.                            *)

LEMMA ToldStep ==
  ASSUME Exchange, DataTypeOK, OnlyValidRuns, AnswersAreTrue, ToldIsOver, [Next]_vars
  PROVE  ToldIsOver' /\ told \subseteq told'
<1>1. ASSUME told' = told PROVE ToldIsOver'
  BY <1>1, OverIsFinal DEF ToldIsOver, DataTypeOK
<1>2. ASSUME NEW x \in Tasks, NEW h \in Threads, Settled(x, h)
      PROVE  ToldIsOver' /\ told \subseteq told'
  <2>1. task[x].key \in Keys
    BY <1>2 DEF Settled, Exchange, TaskType, WorkHasKey, DataTypeOK
  <2>2. task[x].reply \in {"done", "rejected", "denied"}
    BY <1>2 DEF Settled, ClearsPending
  <2>3. Over(task[x].key)
    BY <2>1, <2>2 DEF AnswersAreTrue, OnlyValidRuns, Over
  <2>4. told' = told \union {task[x].key}
    BY <1>2 DEF Settled
  <2>. QED
    BY <2>1, <2>3, <2>4, OverIsFinal DEF ToldIsOver, DataTypeOK
<1>. QED
  BY <1>1, <1>2
     DEF Next, UserStep, PageStep, PageLoss, ThreadStep, vars, SubmitFresh, SubmitAgain,
         StaysBound, Conflicts, Acknowledged, Reload, Refresh, LoadFails, ListRows, ListFails,
         BindRows, BuryTombstone, Buried, Refuse, Claim, Forward, FinishRun, PassOn, Fail,
         Acknowledge, CloseTab, Disconnect, Crash

LEMMA AcksStep ==
  ASSUME Exchange, DataTypeOK, AcksAreTold, told \subseteq told', [Next]_vars
  PROVE  AcksAreTold'
\* Who carries an acknowledgement: none is made but of told keys.
<1>1. \A h \in Threads : thread'[h].at = "ack" => thread'[h].key \in told'
  <2>1. ASSUME \A h \in Threads : thread'[h].at = "ack"
                    => thread[h].at = "ack" /\ thread'[h].key = thread[h].key
        PROVE  \A h \in Threads : thread'[h].at = "ack" => thread'[h].key \in told'
    BY <2>1 DEF AcksAreTold
  <2>2. ASSUME NEW x \in Tasks, NEW g \in Threads, NEW at, NEW k, NEW next, Send(x, g, at, k, next),
               at = "ack" => k \in told'
        PROVE  \A h \in Threads : thread'[h].at = "ack" => thread'[h].key \in told'
    BY <2>2 DEF Send, Exchange, AcksAreTold
  <2>3. ASSUME NEW t \in Tabs, UserStep(t)
        PROVE  \A h \in Threads : thread'[h].at = "ack" => thread'[h].key \in told'
    BY <2>1, <2>2, <2>3 DEF UserStep, SubmitFresh, SubmitAgain, Reload
  <2>4. ASSUME NEW x \in Tasks, NEW h \in Threads, Settled(x, h) \/ BuryTombstone(x, h)
        PROVE  \A g \in Threads : thread'[g].at = "ack" => thread'[g].key \in told'
    <3>1. task[x].key \in told'
      BY <2>4 DEF Settled, BuryTombstone, AcksAreTold
    <3>. QED
      BY <2>2, <2>4, <3>1 DEF Settled, BuryTombstone, SendAck
  <2>5. ASSUME NEW h \in Threads, ThreadStep(h) \/ Fail(h)
        PROVE  \A g \in Threads : thread'[g].at = "ack" => thread'[g].key \in told'
    <3>1. Answers(h)
      BY <2>5, ThreadStepAnswers
    <3>. QED
      BY <2>1, <3>1 DEF Answers, Exchange, ThreadType, Free
  <2>6. CASE Crash \/ (\E t \in Tabs : CloseTab(t)) \/ (\E x \in Tasks : Disconnect(x))
    BY <2>1, <2>6 DEF Crash, CloseTab, Disconnect, Abandoned, Exchange, ThreadType, Free
  <2>7. CASE thread' = thread
    BY <2>1, <2>7
  <2>. QED
    BY <2>3, <2>4, <2>5, <2>6, <2>7
       DEF Next, PageStep, PageLoss, FinishRun, vars, StaysBound, Conflicts, Acknowledged,
           Refresh, LoadFails, ListRows, ListFails, BindRows, Buried
\* The pages: only the server's list of rows says that one is acknowledged.
<1>2. \A y \in Tasks : task'[y].reply = "acknowledged" => task'[y].key \in told'
  <2>0. NoTask.reply # "acknowledged" /\ None # "acknowledged" /\ \A x \in Tasks : task[x] \in TaskType
    BY RecoveryConstants DEF NoTask, Answer, Exchange
  <2>1. ASSUME \A y \in Tasks : task'[y].reply = "acknowledged"
                    => task[y].reply = "acknowledged" /\ task'[y].key = task[y].key
        PROVE  \A y \in Tasks : task'[y].reply = "acknowledged" => task'[y].key \in told'
    BY <2>1 DEF AcksAreTold
  <2>2. ASSUME NEW x \in Tasks, task'[x].reply # "acknowledged",
               \A y \in Tasks \ {x} : task'[y] = task[y]
        PROVE  \A y \in Tasks : task'[y].reply = "acknowledged" => task'[y].key \in told'
    BY <2>1, <2>2
  <2>3. ASSUME NEW x \in Tasks, NEW h \in Threads, NEW at, NEW k, NEW next \in TaskType,
               Send(x, h, at, k, next)
        PROVE  \A y \in Tasks : task'[y].reply = "acknowledged" => task'[y].key \in told'
    <3>1. task'[x].reply = None /\ \A y \in Tasks \ {x} : task'[y] = task[y]
      BY <2>3 DEF Send, Exchange, TaskType
    <3>. QED
      BY <2>0, <2>2, <3>1
  <2>4. ASSUME NEW x \in Tasks, NEW t \in Tabs \union {None},
               Idle(x) \/ task' = [task EXCEPT ![x] = [NoTask EXCEPT !.at = "loading", !.tab = t]]
        PROVE  \A y \in Tasks : task'[y].reply = "acknowledged" => task'[y].key \in told'
    <3>1. NoTask.reply = None /\ [NoTask EXCEPT !.at = "loading", !.tab = t].reply = None
      BY DEF NoTask
    <3>2. task'[x].reply = None /\ \A y \in Tasks \ {x} : task'[y] = task[y]
      BY <2>4, <3>1 DEF Idle, Exchange
    <3>. QED
      BY <2>0, <2>2, <3>2
  <2>5. ASSUME NEW t \in Tabs, UserStep(t)
        PROVE  \A y \in Tasks : task'[y].reply = "acknowledged" => task'[y].key \in told'
    <3>1. /\ [NoTask EXCEPT !.at = "writing", !.tab = t] \in TaskType
          /\ [NoTask EXCEPT !.at = "writing", !.tab = t, !.retry = TRUE] \in TaskType
      BY DEF NoTask, TaskType
    <3>. QED
      BY <2>3, <2>4, <2>5, <3>1 DEF UserStep, SubmitFresh, SubmitAgain, Reload
  <2>6. ASSUME NEW x \in Tasks, NEW h \in Threads, Settled(x, h) \/ BuryTombstone(x, h)
        PROVE  \A y \in Tasks : task'[y].reply = "acknowledged" => task'[y].key \in told'
    <3>1. \A at \in {"settling", "clearing", "burying"} : [task[x] EXCEPT !.at = at] \in TaskType
      BY <2>0 DEF TaskType
    <3>. QED
      BY <2>3, <2>6, <3>1 DEF Settled, BuryTombstone, SendAck
  <2>7. ASSUME NEW x \in Tasks, StaysBound(x) \/ Conflicts(x) \/ Acknowledged(x) \/ BindRows(x)
                                  \/ Buried(x) \/ LoadFails(x)
        PROVE  \A y \in Tasks : task'[y].reply = "acknowledged" => task'[y].key \in told'
    <3>1. task[x].tab \in Tabs \union {None}
      BY <2>0 DEF TaskType
    <3>. QED
      BY <2>4, <2>7, <3>1 DEF StaysBound, Conflicts, Acknowledged, BindRows, Buried, LoadFails
  <2>8. ASSUME NEW x \in Tasks, Refresh(x) \/ ListFails(x) \/ Disconnect(x)
        PROVE  \A y \in Tasks : task'[y].reply = "acknowledged" => task'[y].key \in told'
    <3>1. /\ \A y \in Tasks \ {x} : task'[y] = task[y]
          /\ \/ task'[x].reply = task[x].reply /\ task'[x].key = task[x].key
             \/ task'[x].reply # "acknowledged"
      BY <2>8 DEF Refresh, ListFails, Disconnect, Exchange, TaskType
    <3>. QED
      BY <2>1, <3>1
  <2>9. ASSUME NEW x \in Tasks, ListRows(x)
        PROVE  \A y \in Tasks : task'[y].reply = "acknowledged" => task'[y].key \in told'
    <3>1. /\ \A y \in Tasks \ {x} : task'[y] = task[y]
          /\ task'[x].reply = "acknowledged" =>
                row # None /\ row.acked /\ task'[x].key = row.key
      BY <2>9 DEF ListRows, Exchange, TaskType
    <3>. QED
      BY <3>1 DEF AcksAreTold, AcknowledgedWasTold
  <2>10. ASSUME NEW h \in Threads, ThreadStep(h) \/ Fail(h)
         PROVE  \A y \in Tasks : task'[y].reply = "acknowledged" => task'[y].key \in told'
    <3>1. Answers(h)
      BY <2>10, ThreadStepAnswers
    <3>2. ASSUME thread[h].task # None, NEW r \in Answer \ {"acknowledged"},
                 task' = [task EXCEPT ![thread[h].task].reply = r]
          PROVE  \A y \in Tasks : task'[y].reply = "acknowledged" => task'[y].key \in told'
      <4>1. thread[h].task \in Tasks
        BY <3>2 DEF Exchange, ThreadType
      <4>2. /\ task'[thread[h].task].reply = r
            /\ \A y \in Tasks \ {thread[h].task} : task'[y] = task[y]
        BY <2>0, <3>2, <4>1 DEF Exchange, TaskType
      <4>. QED
        BY <2>2, <3>2, <4>1, <4>2
    <3>. QED
      BY <2>1, <3>1, <3>2 DEF Answers
  <2>11. CASE Crash \/ \E t \in Tabs : CloseTab(t)
    <3>1. \A y \in Tasks : task'[y] \in {task[y], NoTask}
      BY <2>11 DEF Crash, CloseTab
    <3>. QED
      BY <2>0, <2>1, <3>1
  <2>12. CASE task' = task
    BY <2>1, <2>12
  <2>. QED
    BY <2>5, <2>6, <2>7, <2>8, <2>9, <2>10, <2>11, <2>12
       DEF Next, PageStep, PageLoss, FinishRun, vars
\* The row: the acknowledgement that marks it is one for its key.
<1>3. AcknowledgedWasTold'
  <2>1. CASE row' = row
    BY <2>1 DEF AcksAreTold, AcknowledgedWasTold
  <2>2. ASSUME NEW h \in Threads, Claim(h), row' # row PROVE AcknowledgedWasTold'
    BY <2>2 DEF Claim, OpenRow, AcknowledgedWasTold
  <2>3. ASSUME NEW h \in Threads, Acknowledge(h), row' # row PROVE AcknowledgedWasTold'
    <3>1. thread[h].key \in told /\ row # None /\ row.key = thread[h].key
          /\ row' = IF row.acked THEN None ELSE [row EXCEPT !.acked = TRUE]
      BY <2>3 DEF Acknowledge, Finds, MarkOrDelete, AcksAreTold
    <3>2. row \in [key : used, acked : BOOLEAN]
      BY <3>1 DEF DataTypeOK
    <3>. QED
      BY <3>1, <3>2 DEF AcknowledgedWasTold
  <2>. QED
    BY <2>1, <2>2, <2>3
       DEF Next, UserStep, PageStep, PageLoss, ThreadStep, vars, SubmitFresh, SubmitAgain,
           Settled, StaysBound, Conflicts, Acknowledged, Reload, Refresh, LoadFails, ListRows,
           ListFails, BindRows, BuryTombstone, Buried, Refuse, Forward, FinishRun, PassOn,
           Fail, CloseTab, Disconnect, Crash
<1>. QED
  BY <1>1, <1>2, <1>3 DEF AcksAreTold

-----------------------------------------------------------------------------
(* The fence.                                                              *)

LEMMA FencedStep ==
  ASSUME Exchange, DataTypeOK, ToldIsOver, AcksAreTold, Fenced, [Next]_vars
  PROVE  Fenced'
<1>. DEFINE Held(k) == \/ backend[k] \in {"running", "stuck"}
                       \/ \E h \in Threads : thread[h].at = "claimed" /\ thread[h].key = k
<1>0. \A k \in Keys : Held(k) /\ ~Over(k) => row = OpenRow(k)
  BY DEF Fenced
<1>1. SUFFICES ASSUME NEW k \in Keys, Held(k)', ~Over(k)'
               PROVE  row' = OpenRow(k)
  BY DEF Fenced, OpenRow
<1>2. ~Over(k)
  BY <1>1, OverIsFinal
<1>3. ASSUME row' = row, Held(k) PROVE row' = OpenRow(k)
  BY <1>0, <1>2, <1>3
<1>4. ASSUME NEW h \in Threads, Claim(h) PROVE row' = OpenRow(k)
  <2>1. CASE Reply(h, "conflict") /\ UNCHANGED row
    <3>1. Held(k)
      BY <1>1, <1>4, <2>1 DEF Claim, Reply, Exchange, Free
    <3>. QED
      BY <1>3, <2>1, <3>1
  <2>2. CASE row \in {None, OpenRow(thread[h].key)} /\ row' = OpenRow(thread[h].key)
             /\ thread' = [thread EXCEPT ![h].at = "claimed"]
    <3>1. CASE k = thread[h].key
      BY <2>2, <3>1
    <3>2. CASE k # thread[h].key
      <4>1. Held(k)
        BY <1>1, <1>4, <2>2, <3>2 DEF Claim, Exchange, ThreadType
      <4>2. row = OpenRow(k)
        BY <1>0, <1>2, <4>1
      <4>3. row # None
        <5>1. OpenRow(k) \in [key : Keys, acked : BOOLEAN]
          BY DEF OpenRow
        <5>. QED
          BY <4>2, <5>1, RecoveryConstants
      <4>4. OpenRow(k).key = k /\ OpenRow(thread[h].key).key = thread[h].key
        BY DEF OpenRow
      <4>. QED
        BY <2>2, <3>2, <4>2, <4>3, <4>4
    <3>. QED
      BY <3>1, <3>2
  <2>. QED
    BY <1>4, <2>1, <2>2 DEF Claim
<1>5. ASSUME NEW h \in Threads, Forward(h) PROVE row' = OpenRow(k)
  <2>1. Held(k)
    <3>1. CASE backend' = backend
      BY <1>1, <1>5, <3>1 DEF Forward, Reply, Exchange, ThreadType, Free
    <3>2. CASE backend' # backend
      BY <1>1, <1>5, <3>2 DEF Forward, Exchange, ThreadType, DataTypeOK
    <3>. QED
      BY <3>1, <3>2
  <2>. QED
    BY <1>3, <1>5, <2>1 DEF Forward
<1>6. ASSUME NEW h \in Threads, Acknowledge(h) PROVE row' = OpenRow(k)
  <2>1. Held(k)
    BY <1>1, <1>6 DEF Acknowledge, Reply, Exchange, Free
  <2>2. row = OpenRow(k)
    BY <1>0, <1>2, <2>1
  <2>3. Over(thread[h].key)
    BY <1>6 DEF Acknowledge, AcksAreTold, ToldIsOver
  <2>. QED
    BY <1>2, <1>6, <2>2, <2>3 DEF Acknowledge, Finds, OpenRow
<1>7. ASSUME NEW h \in Threads, Refuse(h) \/ PassOn(h) \/ Fail(h) PROVE row' = OpenRow(k)
  <2>1. Held(k) /\ row' = row
    BY <1>1, <1>7 DEF Refuse, PassOn, Fail, Reply, Exchange, Free
  <2>. QED
    BY <1>3, <2>1
<1>8. ASSUME NEW x \in Tasks, NEW h \in Threads, NEW at \in {"received", "ack"}, NEW j, NEW next,
             Send(x, h, at, j, next), UNCHANGED <<row, backend>>
      PROVE  row' = OpenRow(k)
  <2>1. Held(k)
    BY <1>1, <1>8 DEF Send, Exchange
  <2>. QED
    BY <1>3, <1>8, <2>1
<1>9. ASSUME NEW j \in Keys, FinishRun(j) PROVE row' = OpenRow(k)
  <2>1. Held(k)
    BY <1>1, <1>9 DEF FinishRun, DataTypeOK
  <2>. QED
    BY <1>3, <1>9, <2>1 DEF FinishRun
<1>10. CASE Crash
  <2>1. Held(k)
    BY <1>1, <1>10 DEF Crash, Free
  <2>. QED
    BY <1>3, <1>10, <2>1 DEF Crash
<1>11. CASE (\E t \in Tabs : CloseTab(t)) \/ \E x \in Tasks : Disconnect(x)
  <2>1. Held(k)
    BY <1>1, <1>11 DEF CloseTab, Disconnect, Abandoned, Exchange, ThreadType
  <2>. QED
    BY <1>3, <1>11, <2>1 DEF CloseTab, Disconnect
<1>12. CASE UNCHANGED <<row, backend, thread>>
  BY <1>1, <1>3, <1>12
<1>13. ASSUME NEW t \in Tabs, UserStep(t) PROVE row' = OpenRow(k)
  BY <1>8, <1>12, <1>13 DEF UserStep, SubmitFresh, SubmitAgain, Reload
<1>14. ASSUME NEW x \in Tasks, PageStep(x) PROVE row' = OpenRow(k)
  BY <1>8, <1>12, <1>14 DEF PageStep, Settled, BuryTombstone, SendAck, StaysBound, Conflicts,
     Acknowledged, Refresh, ListRows, BindRows, Buried
<1>. QED
  BY <1>4, <1>5, <1>6, <1>7, <1>9, <1>10, <1>11, <1>12, <1>13, <1>14
     DEF Next, PageLoss, LoadFails, ListFails, ThreadStep, vars

-----------------------------------------------------------------------------
(* The results.                                                            *)

LEMMA TypesInit == Init => DataTypeOK /\ Exchange
<1> SUFFICES ASSUME Init PROVE DataTypeOK /\ Exchange
  OBVIOUS
<1>1. DataTypeOK
  BY RecoveryConstants DEF Init, DataTypeOK
<1>2. Exchange
  BY RecoveryConstants DEF Init, Exchange, Linked, WorkHasKey, NoTask, Free, TaskType, ThreadType,
     Answer
<1>. QED
  BY <1>1, <1>2

\* The type invariant, whether or not the reads of bodies may time out.
THEOREM RecoveryTypeCorrect == RecoverySpec => []RecoveryTypeOK
<1>1. DataTypeOK /\ Exchange /\ [Next]_vars => (DataTypeOK /\ Exchange)'
  BY ExchangeStep, DataTypeStep
<1>2. DataTypeOK /\ Exchange => RecoveryTypeOK
  BY TypeParts
<1>. QED
  BY <1>1, <1>2, TypesInit, PTL DEF RecoverySpec

LEMMA RecoveryInvariance ==
  ASSUME ~BodyTimeouts
  PROVE  RecoverySpec => [](RecoveryInv /\ DataTypeOK /\ Exchange)
<1>1. Init => RecoveryInv /\ DataTypeOK /\ Exchange
  <2> SUFFICES ASSUME Init PROVE RecoveryInv /\ DataTypeOK /\ Exchange
    OBVIOUS
  <2>1. RecoveryTypeOK /\ WorkHasKey /\ DataTypeOK /\ Exchange
    BY TypesInit, TypeParts
  <2>2. OnlyValidRuns /\ ToldIsOver /\ Fenced
    BY DEF Init, OnlyValidRuns, ToldIsOver, Fenced, Free
  <2>3. AnswersAreTrue /\ AcksAreTold
    BY RecoveryConstants DEF Init, AnswersAreTrue, AcksAreTold, AcknowledgedWasTold, NoTask, Free,
       Answer
  <2>. QED
    BY <2>1, <2>2, <2>3 DEF RecoveryInv
<1>2. RecoveryInv /\ DataTypeOK /\ Exchange /\ [Next]_vars
        => (RecoveryInv /\ DataTypeOK /\ Exchange)'
  <2> SUFFICES ASSUME RecoveryInv, DataTypeOK, Exchange, [Next]_vars
               PROVE  (RecoveryInv /\ DataTypeOK /\ Exchange)'
    OBVIOUS
  <2>1. DataTypeOK' /\ Exchange'
    BY DataTypeStep, ExchangeStep
  <2>2. RecoveryTypeOK' /\ WorkHasKey'
    BY <2>1, TypeParts
  <2>3. ToldIsOver' /\ told \subseteq told'
    BY ToldStep DEF RecoveryInv
  <2>4. AcksAreTold'
    BY <2>3, AcksStep DEF RecoveryInv
  <2>5. OnlyValidRuns' /\ AnswersAreTrue' /\ Fenced'
    BY OnlyValidStep, AnswersStep, FencedStep DEF RecoveryInv
  <2>. QED
    BY <2>1, <2>2, <2>3, <2>4, <2>5 DEF RecoveryInv
<1>. QED
  BY <1>1, <1>2, PTL DEF RecoverySpec

\* For any number of tabs, handlers and keys: a write that runs, or whose
\* outcome will never be known, has its row, unacknowledged, which keeps every
\* other key from the resource.
THEOREM OpenAttemptsAreFenced ==
  ASSUME ~BodyTimeouts
  PROVE  RecoverySpec => []OpenAttemptIsFenced
<1>1. RecoveryInv => OpenAttemptIsFenced
  BY DEF RecoveryInv, Fenced, Over, OpenAttemptIsFenced
<1>. QED
  BY <1>1, RecoveryInvariance, PTL

\* No acknowledgement, however late and from whichever tab, marks a row whose
\* end was not shown.
THEOREM AcknowledgedOnlyWhatWasTold ==
  ASSUME ~BodyTimeouts
  PROVE  RecoverySpec => []AcknowledgedWasTold
<1>1. RecoveryInv => AcknowledgedWasTold
  BY DEF RecoveryInv, AcksAreTold
<1>. QED
  BY <1>1, RecoveryInvariance, PTL

\* At any time at most one write of the resource runs or is unknown.
THEOREM OneAttemptIsOpen ==
  ASSUME ~BodyTimeouts
  PROVE  RecoverySpec => []OneOpenAttempt
<1>1. RecoveryInv => OneOpenAttempt
  BY DEF RecoveryInv, Fenced, Over, OneOpenAttempt, OpenRow
<1>. QED
  BY <1>1, RecoveryInvariance, PTL

\* What a user was told is over is never started again by anything on its way.
THEOREM ToldIsFinal ==
  ASSUME ~BodyTimeouts
  PROVE  RecoverySpec => ToldStaysOver
<1>1. RecoveryInv /\ DataTypeOK /\ [Next]_vars => [\A k \in told : backend'[k] = backend[k]]_vars
  BY OverIsFinal DEF RecoveryInv, ToldIsOver, DataTypeOK
<1>. QED
  BY <1>1, RecoveryInvariance, PTL DEF RecoverySpec, ToldStaysOver
=============================================================================
