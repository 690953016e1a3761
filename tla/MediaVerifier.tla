--------------------------- MODULE MediaVerifier ---------------------------
(***************************************************************************)
(* The verifier that looks for the images of a new ad on its public page.  *)
(* A worker process looks again and again until it sees them or the time   *)
(* is up; the handler thread that started it waits for its answer, but not *)
(* beyond the deadline.  What a read shows is open: the platform may still *)
(* be busy with the images, and somebody may edit the ad.                  *)
(*                                                                         *)
(* Time is counted from the call on and passes only where the code waits:  *)
(* for a process, for the network, in a sleep.                             *)
(***************************************************************************)
EXTENDS Integers

CONSTANTS
    Budget,       \* timeout_seconds of the call
    Grace,        \* _WORKER_RESULT_GRACE_SECONDS, for the way back
    Reserve,      \* _FINAL_OBSERVATION_RESERVE_SECONDS
    Delay,        \* _RETRY_DELAY_SECONDS
    MaxAttempts,  \* _MAX_VERIFY_ATTEMPTS
    NoLook

ASSUME VerifierConstants ==
    /\ {Budget, Grace, Reserve, Delay} \subseteq Nat
    /\ MaxAttempts \in Nat \ {0}
    /\ NoLook \notin Int

VARIABLES
    now,      \* seconds since the call
    worker,   \* "none", "starting", "listing", "images", "sleeping", "sent",
              \* "ended" or "dead"
    sent,     \* the result in the pipe, or "nothing"
    attempt,  \* how many looks have ended
    mark,     \* attempt_started of the look that runs, or the end of the sleep
    last,     \* last_complete_mismatch_seconds while terminal_observation is
              \* "mismatch", otherwise NoLook
    looked    \* history: how the last look ended: "matched", "differed" or
              \* "failed"

verifier == <<now, worker, sent, attempt, mark, last, looked>>

\* Nothing is being verified.
AtRest ==
    /\ now = 0 /\ worker = "none" /\ sent = "nothing"
    /\ attempt = 0 /\ mark = 0 /\ last = NoLook /\ looked = "nothing"

Running == worker \notin {"none", "ended", "dead"}

-----------------------------------------------------------------------------
(* The worker.  Its own deadline leaves time for the way back.             *)

Left == Budget - Grace - now

\* What stands when no look will follow: the last difference, if nothing that
\* could not be read came after it.
Standing(took) == IF took = NoLook THEN "unknown" ELSE "mismatch"

Send(result) == worker' = "sent" /\ sent' = result

\* The top of the loop: no look without the time the last one took.
BeginLook ==
    /\ IF last # NoLook /\ Left <= last + Reserve
       THEN Send("mismatch") /\ UNCHANGED mark
       ELSE worker' = "listing" /\ mark' = now /\ UNCHANGED sent
    /\ UNCHANGED <<now, attempt, last, looked>>

\* The source images cannot be read, or the process was too slow to start.
SourcesFail ==
    /\ worker = "starting"
    /\ Send("unknown")
    /\ UNCHANGED <<now, attempt, mark, last, looked>>

ReadSources ==
    /\ worker = "starting"
    /\ Left > 0
    /\ BeginLook

\* The bottom of the loop, with the time that the last look took if it saw a
\* difference: the last attempt, no time for another, or a pause.
Continue(took) ==
    LET reserved == IF took = NoLook THEN Reserve ELSE Reserve + took IN
    /\ last' = took
    /\ attempt' = attempt + 1
    /\ IF attempt' = MaxAttempts
       THEN Send(IF Left > Reserve THEN "unknown" ELSE Standing(took)) /\ UNCHANGED mark
       ELSE IF Left <= reserved
       THEN Send(Standing(took)) /\ UNCHANGED mark
       ELSE /\ worker' = "sleeping"
            /\ mark' = now + (IF Delay < Left - reserved THEN Delay ELSE Left - reserved)
            /\ UNCHANGED sent
    /\ UNCHANGED now

\* The listing arrives, with as many images as are expected.  The first of
\* them must be asked for in time.
ReadListing ==
    /\ worker = "listing"
    /\ mark < Budget - Grace
    /\ IF Left > 0 THEN worker' = "images" /\ UNCHANGED sent ELSE Send(Standing(last))
    /\ UNCHANGED <<now, attempt, mark, last, looked>>

\* The listing shows another number, or its images are not all the same.
SeeDifference ==
    /\ \/ worker = "listing" /\ mark < Budget - Grace
       \/ worker = "images"
    /\ looked' = "differed"
    /\ Continue(now - mark)

SeeMatch ==
    /\ worker = "images"
    /\ looked' = "matched"
    /\ Send("confirmed")
    /\ UNCHANGED <<now, attempt, mark, last>>

\* Variant: a difference stays the observation although a later look failed.
FailKeepingDifference ==
    /\ worker \in {"listing", "images"}
    /\ looked' = "failed"
    /\ Continue(last)

\* A status, a page or an image that cannot be used, a broken connection.
LookFails ==
    /\ worker \in {"listing", "images"}
    /\ looked' = "failed"
    /\ Continue(NoLook)

\* A fetch has used up the time that was left.
LookTimesOut ==
    /\ worker \in {"listing", "images"}
    /\ Left <= 0
    /\ Send(Standing(last))
    /\ UNCHANGED <<now, attempt, mark, last, looked>>

Awake ==
    /\ worker = "sleeping"
    /\ now >= mark
    /\ BeginLook

Exit ==
    /\ worker = "sent"
    /\ worker' = "ended"
    /\ UNCHANGED <<now, sent, attempt, mark, last, looked>>

\* Killed, at any moment.
Die ==
    /\ Running
    /\ worker' = "dead"
    /\ UNCHANGED <<now, sent, attempt, mark, last, looked>>

WorkerStep ==
    \/ SourcesFail \/ ReadSources
    \/ ReadListing \/ SeeDifference \/ SeeMatch \/ LookFails \/ LookTimesOut
    \/ Awake \/ Exit \/ Die

-----------------------------------------------------------------------------
(* The handler thread, and the clock.                                      *)

StartWorker ==
    /\ worker = "none"
    /\ worker' = "starting"
    /\ UNCHANGED <<now, sent, attempt, mark, last, looked>>

\* What the call returns: the result of a worker that has come to its end.
\* A worker that is gone without one, or cannot be started, or is terminated
\* at the deadline whatever it has sent, leaves the question open.
Verdict == IF worker = "ended" THEN sent ELSE "unknown"

\* The call returns, and what it kept goes with it.
Return ==
    /\ worker \in {"ended", "dead", "starting"} \/ now >= Budget
    /\ now' = 0 /\ worker' = "none" /\ sent' = "nothing"
    /\ attempt' = 0 /\ mark' = 0 /\ last' = NoLook /\ looked' = "nothing"

Tick ==
    /\ Running
    /\ now < Budget
    /\ now' = now + 1
    /\ UNCHANGED <<worker, sent, attempt, mark, last, looked>>

-----------------------------------------------------------------------------
(* Properties.                                                             *)

\* Types of the worker, its result and its clock.
VerifierTypeOK ==
    /\ worker \in {"none", "starting", "listing", "images", "sleeping", "sent", "ended", "dead"}
    /\ sent \in {"nothing", "confirmed", "mismatch", "unknown"}
    /\ now \in 0..Budget /\ mark \in Nat /\ attempt \in 0..MaxAttempts
    /\ last \in (0..Budget) \union {NoLook}
    /\ looked \in {"nothing", "matched", "differed", "failed"}

\* "Confirmed" means that the last look has seen the images.  "Mismatch" means
\* that the last look which ended saw a difference and that there is no time
\* for another like it; a look that failed since, or the end of the attempts
\* with time left, leaves the question open.
VerdictIsSound ==
    /\ Verdict = "confirmed" => looked = "matched"
    /\ Verdict = "mismatch" => looked = "differed" /\ Left <= last + Reserve
=============================================================================
