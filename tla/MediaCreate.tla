---------------------------- MODULE MediaCreate ----------------------------
(***************************************************************************)
(* MediaRuntime with the verifier that a confirmed create waits for.  The  *)
(* handler keeps operation_lock meanwhile, and close() waits for the lock. *)
(***************************************************************************)
EXTENDS MediaRuntime, MediaVerifier

allVars == <<vars, verifier>>

CreateInit == Init /\ AtRest

\* The reads confirm a create: its handler starts the verification.
Verify(h) == ReadAfter(h) /\ pc'[h] = "verifying" /\ StartWorker

\* It goes on with the verdict.
TakeVerdict(h) == Verified(h) /\ Return

\* All other steps of a handler.
OtherStep(h) ==
    /\ \/ Enter(h) \/ Refuse(h) \/ StartCore(h) \/ EndCore(h)
       \/ \E p \in Pages : Open(h, p)
       \/ FailBeforeClick(h) \/ Click(h) \/ Settle(h) \/ EndUnknown(h)
       \/ ReadAfter(h) /\ pc'[h] # "verifying"
    /\ UNCHANGED verifier

Passing == Tick /\ UNCHANGED vars

Closing == CloseStep /\ UNCHANGED verifier

CreateNext ==
    \/ \E h \in Handlers : Client(h) /\ UNCHANGED verifier
    \/ \E h \in Handlers : OtherStep(h) \/ Verify(h) \/ TakeVerdict(h)
    \/ (Finish \/ Challenge \/ Reconcile \/ StartClose) /\ UNCHANGED verifier
    \/ Closing
    \/ Passing
    \/ WorkerStep /\ UNCHANGED vars

CreateSpec == CreateInit /\ [][CreateNext]_allVars

\* Threads are scheduled, the lock is given to one of those that wait for it,
\* browser calls and reads have deadlines, and time passes.  Nothing is
\* assumed of the worker and of the clients.
CreateFairSpec ==
    /\ CreateSpec
    /\ WF_allVars(Closing)
    /\ WF_allVars(Passing)
    /\ \A h \in Handlers : WF_allVars(OtherStep(h) \/ Verify(h) \/ TakeVerdict(h))
=============================================================================
