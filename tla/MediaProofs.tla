---------------------------- MODULE MediaProofs ----------------------------
(***************************************************************************)
(* MediaRuntime, for any number of handlers and of submits, and its        *)
(* composition with the verifier.  The inductive invariant joins to the    *)
(* type of the state what the operation lock means: what the tab shows is  *)
(* tied to the one thread inside and to the pending page (TabInv), the     *)
(* fence to the submits nobody has seen settle (FenceInv), and the         *)
(* shutdown to the order of its steps (CloseInv).  MediaCreate adds a wait *)
(* to MediaRuntime and nothing else: what is proved of MediaRuntime holds  *)
(* of it, and the verdicts of the verifier are sound, whatever the times   *)
(* and the number of attempts.                                             *)
(***************************************************************************)
EXTENDS MediaCreate, TLAPS

Working == {"form", "sent"}

\* Every unsettled page is open, and it is in use or pending.  A working
\* handler has an open page, a fresh one before the click.
KeptInv ==
    /\ UnsettledPageIsKept
    /\ \A p \in clicked : life[p] # "unused"
    /\ pending # None => pending \in unsettled
    /\ \A h \in Handlers :
          /\ pc[h] \in Working => page[h] \in Pages /\ life[page[h]] = "open"
          /\ pc[h] = "form" => page[h] \notin clicked
          /\ pc[h] = "sent" => page[h] \in unsettled
          /\ pc[h] \in Working \union {"writing"} => pending = None

\* While a handler works the tab is its own.  Whenever the tab shows the
\* management page, the submit that waits for it has run to its end.
TabInv ==
    /\ FilesOutliveSubmit
    /\ pending # None =>
          /\ owner \in {pending, None}
          /\ tab = "management" => pending \in finished
    /\ \A h \in Handlers :
          /\ pc[h] \in Working => owner = page[h]
          /\ pc[h] = "form" => tab = "form"
          /\ pc[h] = "sent" /\ tab = "management" => page[h] \in finished

\* No handler has a form open behind the fence, and the fence stands while an
\* outcome is unknown.
FenceInv ==
    /\ \A h \in Handlers : pc[h] = "form" => ~fenced
    /\ ~fenced => unknown = {}

\* The steps of close(): the loop ends, then the handlers, then the runtimes,
\* then the lease.
CloseInv ==
    /\ closer \in {"draining", "joining", "releasing"} => ~serving
    /\ closer = "releasing" => drained
    /\ drained => ~serving /\ Quiet
    /\ mediaClosed \/ contentClosed \/ ~lease => drained /\ pending = None
    /\ ~lease => mediaClosed /\ contentClosed

MediaInv == MediaTypeOK /\ KeptInv /\ TabInv /\ FenceInv /\ CloseInv

-----------------------------------------------------------------------------
(* Every action keeps the invariant: one lemma per action, one step per    *)
(* conjunct.                                                               *)

LEMMA ConnectKeeps ==
    ASSUME MediaInv, NEW h \in Handlers, Connect(h)
    PROVE  MediaInv'
<1> USE MediaConstants DEF MediaInv
<1>1. MediaTypeOK'
  BY DEF MediaTypeOK, Busy, Connect, Goto, runtime, server, ends, browser
<1>2. KeptInv'
  BY DEF KeptInv, UnsettledPageIsKept, Working, Connect, Goto, runtime
<1>3. TabInv'
  BY DEF TabInv, FilesOutliveSubmit, Working, Connect, Goto, runtime, browser
<1>4. FenceInv'
  BY DEF FenceInv, Connect, Goto, runtime
<1>5. CloseInv'
  BY DEF CloseInv, Connect, server, ends
<1> QED  BY <1>1, <1>2, <1>3, <1>4, <1>5

LEMMA RequestKeeps ==
    ASSUME MediaInv, NEW h \in Handlers, Request(h)
    PROVE  MediaInv'
<1> USE MediaConstants DEF MediaInv
<1>1. MediaTypeOK'
  BY DEF MediaTypeOK, Busy, Request, Goto, runtime, server, ends, browser
<1>2. KeptInv'
  BY DEF KeptInv, UnsettledPageIsKept, Working, Request, Goto, runtime
<1>3. TabInv'
  BY DEF TabInv, FilesOutliveSubmit, Working, Request, Goto, runtime, browser
<1>4. FenceInv'
  BY DEF FenceInv, Request, Goto, runtime
<1>5. CloseInv'
  BY DEF CloseInv, Quiet, Request, server, ends
<1> QED  BY <1>1, <1>2, <1>3, <1>4, <1>5

LEMMA HangupKeeps ==
    ASSUME MediaInv, NEW h \in Handlers, Hangup(h)
    PROVE  MediaInv'
<1> USE MediaConstants DEF MediaInv
<1>1. MediaTypeOK'
  BY DEF MediaTypeOK, Busy, Hangup, Goto, runtime, server, ends, browser
<1>2. KeptInv'
  BY DEF KeptInv, UnsettledPageIsKept, Working, Hangup, Goto, runtime
<1>3. TabInv'
  BY DEF TabInv, FilesOutliveSubmit, Working, Hangup, Goto, runtime, browser
<1>4. FenceInv'
  BY DEF FenceInv, Hangup, Goto, runtime
<1>5. CloseInv'
  BY DEF CloseInv, Quiet, Hangup, server, ends
<1> QED  BY <1>1, <1>2, <1>3, <1>4, <1>5

LEMMA EnterKeeps ==
    ASSUME MediaInv, NEW h \in Handlers, Enter(h)
    PROVE  MediaInv'
<1> USE MediaConstants DEF MediaInv
<1>1. MediaTypeOK'
  BY DEF MediaTypeOK, Busy, Enter, Goto, runtime, server, ends, browser
<1>2. KeptInv'
  BY DEF KeptInv, UnsettledPageIsKept, Working, Enter, Goto, runtime
<1>3. TabInv'
  BY DEF TabInv, FilesOutliveSubmit, Working, Enter, Goto, runtime, browser
<1>4. FenceInv'
  BY DEF FenceInv, Enter, Goto, runtime
<1>5. CloseInv'
  BY DEF CloseInv, Quiet, Enter, server, ends
<1> QED  BY <1>1, <1>2, <1>3, <1>4, <1>5

LEMMA RefuseKeeps ==
    ASSUME MediaInv, NEW h \in Handlers, Refuse(h)
    PROVE  MediaInv'
<1> USE MediaConstants DEF MediaInv
<1>1. MediaTypeOK'
  BY DEF MediaTypeOK, Busy, Refuse, Goto, Leave, runtime, server, ends, browser
<1>2. KeptInv'
  BY DEF KeptInv, UnsettledPageIsKept, Working, Refuse, Goto, Leave, runtime
<1>3. TabInv'
  BY DEF TabInv, FilesOutliveSubmit, Working, Refuse, Goto, Leave, runtime,
         browser
<1>4. FenceInv'
  BY DEF FenceInv, Refuse, Goto, Leave, runtime
<1>5. CloseInv'
  BY DEF CloseInv, Quiet, Refuse, server, ends
<1> QED  BY <1>1, <1>2, <1>3, <1>4, <1>5

LEMMA StartCoreKeeps ==
    ASSUME MediaInv, NEW h \in Handlers, StartCore(h)
    PROVE  MediaInv'
<1> USE MediaConstants DEF MediaInv
<1>1. MediaTypeOK'
  BY DEF MediaTypeOK, Busy, StartCore, Goto, runtime, server, ends
<1>2. KeptInv'
  BY DEF KeptInv, UnsettledPageIsKept, Working, StartCore, Goto, runtime
<1>3. TabInv'
  BY DEF TabInv, FilesOutliveSubmit, MediaTypeOK, Working, StartCore, Goto,
         runtime
<1>4. FenceInv'
  BY DEF FenceInv, StartCore, Goto, runtime
<1>5. CloseInv'
  BY DEF CloseInv, Quiet, StartCore, server, ends
<1> QED  BY <1>1, <1>2, <1>3, <1>4, <1>5

LEMMA EndCoreKeeps ==
    ASSUME MediaInv, NEW h \in Handlers, EndCore(h)
    PROVE  MediaInv'
<1> USE MediaConstants DEF MediaInv
<1>1. MediaTypeOK'
  BY DEF MediaTypeOK, Busy, EndCore, Goto, Leave, runtime, server, ends
<1>2. KeptInv'
  BY DEF KeptInv, UnsettledPageIsKept, Working, EndCore, Goto, Leave, runtime
<1>3. TabInv'
  BY DEF TabInv, FilesOutliveSubmit, KeptInv, MediaTypeOK, Working, EndCore,
         Goto, Leave, runtime
<1>4. FenceInv'
  BY DEF FenceInv, EndCore, Goto, Leave, runtime
<1>5. CloseInv'
  BY DEF CloseInv, Quiet, EndCore, server, ends
<1> QED  BY <1>1, <1>2, <1>3, <1>4, <1>5

LEMMA OpenKeeps ==
    ASSUME MediaInv, NEW h \in Handlers, NEW p \in Pages, Open(h, p)
    PROVE  MediaInv'
<1> USE MediaConstants DEF MediaInv
<1>1. MediaTypeOK'
  BY DEF MediaTypeOK, Busy, Open, Goto, server, ends
<1>2. KeptInv'
  BY DEF KeptInv, UnsettledPageIsKept, MediaTypeOK, Open, Goto
<1>3. TabInv'
  BY DEF TabInv, FilesOutliveSubmit, MediaTypeOK, Working, Open, Goto
<1>4. FenceInv'
  BY DEF FenceInv, Open
<1>5. CloseInv'
  BY DEF CloseInv, Quiet, Open, server, ends
<1> QED  BY <1>1, <1>2, <1>3, <1>4, <1>5

LEMMA FailBeforeClickKeeps ==
    ASSUME MediaInv, NEW h \in Handlers, FailBeforeClick(h)
    PROVE  MediaInv'
<1> USE MediaConstants DEF MediaInv
<1>0. page[h] \in Pages /\ opLock = h
  BY DEF KeptInv, Working, MediaTypeOK, Busy, FailBeforeClick
<1>1. MediaTypeOK'
  <2>1. /\ life' \in [Pages -> {"unused", "open", "closed"}]
        /\ pending' \in Pages \union {None}
    BY <1>0 DEF MediaTypeOK, FailBeforeClick, ClosePage
  <2>2. /\ opLock' \in Handlers \union {None}
        /\ pc' \in [Handlers -> {"idle", "connected", "queued"} \union Busy]
        /\ page' \in [Handlers -> Pages \union {None}]
        /\ \A g \in Handlers : pc'[g] \in Busy <=> opLock' = g
    BY <1>0 DEF MediaTypeOK, Busy, FailBeforeClick, Goto, Leave
  <2>3. fenced' \in BOOLEAN /\ unknown' \subseteq Pages
    BY <1>0 DEF MediaTypeOK, FailBeforeClick
  <2> QED
    BY <2>1, <2>2, <2>3 DEF MediaTypeOK, FailBeforeClick, server, ends, browser
<1>2. KeptInv'
  BY DEF KeptInv, UnsettledPageIsKept, MediaTypeOK, Working, FailBeforeClick,
         Goto, Leave, ClosePage
<1>3. TabInv'
  BY DEF TabInv, FilesOutliveSubmit, KeptInv, MediaTypeOK, Working,
         FailBeforeClick, Goto, Leave, ClosePage, browser
<1>4. FenceInv'
  BY DEF FenceInv, MediaTypeOK, FailBeforeClick, Goto, Leave
<1>5. CloseInv'
  BY DEF CloseInv, Quiet, FailBeforeClick, server, ends
<1> QED  BY <1>1, <1>2, <1>3, <1>4, <1>5

LEMMA ClickKeeps ==
    ASSUME MediaInv, NEW h \in Handlers, Click(h)
    PROVE  MediaInv'
<1> USE MediaConstants DEF MediaInv
<1>0. page[h] \in Pages /\ opLock = h
  BY DEF KeptInv, Working, MediaTypeOK, Busy, Click
<1>1. MediaTypeOK'
  BY <1>0 DEF MediaTypeOK, Busy, Click, Goto, server, ends, browser
<1>2. KeptInv'
  BY DEF KeptInv, UnsettledPageIsKept, MediaTypeOK, Working, Click, Goto
<1>3. TabInv'
  BY DEF TabInv, FilesOutliveSubmit, KeptInv, Working, Click, Goto, browser
<1>4. FenceInv'
  BY DEF FenceInv, Click
<1>5. CloseInv'
  BY DEF CloseInv, Quiet, Click, server, ends
<1> QED  BY <1>1, <1>2, <1>3, <1>4, <1>5

LEMMA SettleKeeps ==
    ASSUME MediaInv, NEW h \in Handlers, Settle(h)
    PROVE  MediaInv'
<1> USE MediaConstants DEF MediaInv
<1>0. page[h] \in Pages /\ opLock = h
  BY DEF KeptInv, Working, MediaTypeOK, Busy, Settle
<1>1. MediaTypeOK'
  BY <1>0 DEF MediaTypeOK, Busy, Settle, Goto, ClosePage, server, ends, browser
<1>2. KeptInv'
  BY DEF KeptInv, UnsettledPageIsKept, MediaTypeOK, Working, Settle, Goto,
         ClosePage
<1>3. TabInv'
  BY DEF TabInv, FilesOutliveSubmit, MediaTypeOK, Working, Settle, Goto,
         ClosePage, browser
<1>4. FenceInv'
  BY DEF FenceInv, MediaTypeOK, Settle, Goto
<1>5. CloseInv'
  BY DEF CloseInv, Quiet, Settle, server, ends
<1> QED  BY <1>1, <1>2, <1>3, <1>4, <1>5

LEMMA EndUnknownKeeps ==
    ASSUME MediaInv, NEW h \in Handlers, EndUnknown(h)
    PROVE  MediaInv'
<1> USE MediaConstants DEF MediaInv
<1>0. page[h] \in Pages /\ opLock = h
  BY DEF KeptInv, Working, MediaTypeOK, Busy, EndUnknown
<1>1. MediaTypeOK'
  BY <1>0 DEF MediaTypeOK, Busy, EndUnknown, Goto, Leave, ClosePage, server,
         ends, browser
<1>2. KeptInv'
  BY DEF KeptInv, UnsettledPageIsKept, MediaTypeOK, Working, EndUnknown, Goto,
         Leave, ClosePage
<1>3. TabInv'
  BY DEF TabInv, FilesOutliveSubmit, KeptInv, MediaTypeOK, Working,
         EndUnknown, Goto, Leave, ClosePage, browser
<1>4. FenceInv'
  BY DEF FenceInv, MediaTypeOK, EndUnknown, Goto, Leave
<1>5. CloseInv'
  BY DEF CloseInv, Quiet, EndUnknown, server, ends
<1> QED  BY <1>1, <1>2, <1>3, <1>4, <1>5

LEMMA ReadAfterKeeps ==
    ASSUME MediaInv, NEW h \in Handlers, ReadAfter(h)
    PROVE  MediaInv'
<1> USE MediaConstants DEF MediaInv
<1>0. /\ pc' \in {[pc EXCEPT ![h] = "idle"], [pc EXCEPT ![h] = "verifying"]}
      /\ page' \in {page, [page EXCEPT ![h] = None]}
  BY DEF ReadAfter, Goto, Leave
<1>1. MediaTypeOK'
  BY DEF MediaTypeOK, Busy, ReadAfter, Goto, Leave, runtime, server, ends
<1>2. KeptInv'
  BY <1>0 DEF KeptInv, UnsettledPageIsKept, MediaTypeOK, Working, ReadAfter, runtime
<1>3. TabInv'
  BY <1>0 DEF TabInv, FilesOutliveSubmit, KeptInv, MediaTypeOK, Working, Busy,
              ReadAfter, runtime
<1>4. FenceInv'
  BY <1>0 DEF FenceInv, MediaTypeOK, ReadAfter, runtime
<1>5. CloseInv'
  BY DEF CloseInv, Quiet, ReadAfter, server, ends
<1> QED  BY <1>1, <1>2, <1>3, <1>4, <1>5

LEMMA VerifiedKeeps ==
    ASSUME MediaInv, NEW h \in Handlers, Verified(h)
    PROVE  MediaInv'
<1> USE MediaConstants DEF MediaInv
<1>1. MediaTypeOK'
  BY DEF MediaTypeOK, Busy, Verified, Goto, Leave, runtime, server, ends, browser
<1>2. KeptInv'
  BY DEF KeptInv, UnsettledPageIsKept, Working, Verified, Goto, Leave, runtime
<1>3. TabInv'
  BY DEF TabInv, FilesOutliveSubmit, Working, Verified, Goto, Leave, runtime,
         browser
<1>4. FenceInv'
  BY DEF FenceInv, Verified, Goto, Leave, runtime
<1>5. CloseInv'
  BY DEF CloseInv, Quiet, Verified, server, ends
<1> QED  BY <1>1, <1>2, <1>3, <1>4, <1>5

LEMMA FinishKeeps ==
    ASSUME MediaInv, Finish
    PROVE  MediaInv'
<1> USE MediaConstants DEF MediaInv
<1>1. MediaTypeOK'
  BY DEF MediaTypeOK, Finish, threads, runtime, server, ends
<1>2. KeptInv'
  BY DEF KeptInv, UnsettledPageIsKept, Finish, threads, runtime
<1>3. TabInv'
  BY DEF TabInv, FilesOutliveSubmit, KeptInv, MediaTypeOK, Working, Finish,
         threads, runtime
<1>4. FenceInv'
  BY DEF FenceInv, Finish, threads, runtime
<1>5. CloseInv'
  BY DEF CloseInv, Quiet, Finish, threads, runtime, server, ends
<1> QED  BY <1>1, <1>2, <1>3, <1>4, <1>5

LEMMA ChallengeKeeps ==
    ASSUME MediaInv, Challenge
    PROVE  MediaInv'
<1> USE MediaConstants DEF MediaInv
<1>1. MediaTypeOK'
  BY DEF MediaTypeOK, Challenge, threads, runtime, server, ends
<1>2. KeptInv'
  BY DEF KeptInv, UnsettledPageIsKept, Challenge, threads, runtime
<1>3. TabInv'
  BY DEF TabInv, FilesOutliveSubmit, KeptInv, Working, Challenge, threads,
         runtime
<1>4. FenceInv'
  BY DEF FenceInv, Challenge, threads, runtime
<1>5. CloseInv'
  BY DEF CloseInv, Quiet, Challenge, threads, runtime, server, ends
<1> QED  BY <1>1, <1>2, <1>3, <1>4, <1>5

LEMMA ReconcileKeeps ==
    ASSUME MediaInv, Reconcile
    PROVE  MediaInv'
<1> USE MediaConstants DEF MediaInv
<1>1. MediaTypeOK'
  BY DEF MediaTypeOK, Reconcile, threads, server, ends, browser
<1>2. KeptInv'
  BY DEF KeptInv, UnsettledPageIsKept, MediaTypeOK, Reconcile, threads
<1>3. TabInv'
  BY DEF TabInv, FilesOutliveSubmit, Reconcile, threads, browser
<1>4. FenceInv'
  BY DEF FenceInv, Reconcile
<1>5. CloseInv'
  BY DEF CloseInv, Quiet, Reconcile, threads, server, ends
<1> QED  BY <1>1, <1>2, <1>3, <1>4, <1>5

LEMMA StartCloseKeeps ==
    ASSUME MediaInv, StartClose
    PROVE  MediaInv'
<1> USE MediaConstants DEF MediaInv
<1>1. MediaTypeOK'
  BY DEF MediaTypeOK, StartClose, threads, runtime, ends, browser
<1>2. KeptInv'
  BY DEF KeptInv, UnsettledPageIsKept, StartClose, threads, runtime
<1>3. TabInv'
  BY DEF TabInv, FilesOutliveSubmit, StartClose, threads, runtime, browser
<1>4. FenceInv'
  BY DEF FenceInv, StartClose, threads, runtime
<1>5. CloseInv'
  BY DEF CloseInv, Quiet, StartClose, threads, runtime, ends
<1> QED  BY <1>1, <1>2, <1>3, <1>4, <1>5

LEMMA StopLoopKeeps ==
    ASSUME MediaInv, StopLoop
    PROVE  MediaInv'
<1> USE MediaConstants DEF MediaInv
<1>1. MediaTypeOK'
  BY DEF MediaTypeOK, StopLoop, threads, runtime, ends, browser
<1>2. KeptInv'
  BY DEF KeptInv, UnsettledPageIsKept, StopLoop, threads, runtime
<1>3. TabInv'
  BY DEF TabInv, FilesOutliveSubmit, StopLoop, threads, runtime, browser
<1>4. FenceInv'
  BY DEF FenceInv, StopLoop, threads, runtime
<1>5. CloseInv'
  BY DEF CloseInv, Quiet, StopLoop, threads, runtime, ends
<1> QED  BY <1>1, <1>2, <1>3, <1>4, <1>5

LEMMA CloseSocketKeeps ==
    ASSUME MediaInv, CloseSocket
    PROVE  MediaInv'
<1> USE MediaConstants DEF MediaInv
<1>1. MediaTypeOK'
  BY DEF MediaTypeOK, CloseSocket, threads, runtime, ends, browser
<1>2. KeptInv'
  BY DEF KeptInv, UnsettledPageIsKept, CloseSocket, threads, runtime
<1>3. TabInv'
  BY DEF TabInv, FilesOutliveSubmit, CloseSocket, threads, runtime, browser
<1>4. FenceInv'
  BY DEF FenceInv, CloseSocket, threads, runtime
<1>5. CloseInv'
  BY DEF CloseInv, Quiet, CloseSocket, threads, runtime, ends
<1> QED  BY <1>1, <1>2, <1>3, <1>4, <1>5

LEMMA JoinKeeps ==
    ASSUME MediaInv, Join
    PROVE  MediaInv'
<1> USE MediaConstants DEF MediaInv
<1>1. MediaTypeOK'
  BY DEF MediaTypeOK, Join, threads, runtime, ends, browser
<1>2. KeptInv'
  BY DEF KeptInv, UnsettledPageIsKept, Join, threads, runtime
<1>3. TabInv'
  BY DEF TabInv, FilesOutliveSubmit, Join, threads, runtime, browser
<1>4. FenceInv'
  BY DEF FenceInv, Join, threads, runtime
<1>5. CloseInv'
  BY DEF CloseInv, Quiet, Join, threads, runtime, ends
<1> QED  BY <1>1, <1>2, <1>3, <1>4, <1>5

LEMMA ReleaseKeeps ==
    ASSUME MediaInv, Release
    PROVE  MediaInv'
<1> USE MediaConstants DEF MediaInv
<1>1. MediaTypeOK'
  BY DEF MediaTypeOK, Release, threads, runtime, ends, browser
<1>2. KeptInv'
  BY DEF KeptInv, UnsettledPageIsKept, Release, threads, runtime
<1>3. TabInv'
  BY DEF TabInv, FilesOutliveSubmit, Release, threads, runtime, browser
<1>4. FenceInv'
  BY DEF FenceInv, Release, threads, runtime
<1>5. CloseInv'
  BY DEF CloseInv, Quiet, Release, threads, runtime, ends
<1> QED  BY <1>1, <1>2, <1>3, <1>4, <1>5

-----------------------------------------------------------------------------
(* The theorems.                                                           *)

LEMMA InitHolds == Init => MediaInv
<1> SUFFICES ASSUME Init PROVE MediaInv
  OBVIOUS
<1> USE MediaConstants DEF Init
<1>1. MediaTypeOK
  BY DEF MediaTypeOK, Busy
<1>2. KeptInv
  BY DEF KeptInv, UnsettledPageIsKept, Working
<1>3. TabInv /\ FenceInv /\ CloseInv
  BY DEF TabInv, FilesOutliveSubmit, FenceInv, CloseInv, Working
<1> QED  BY <1>1, <1>2, <1>3 DEF MediaInv

LEMMA HandlerStepKeeps ==
    ASSUME MediaInv, NEW h \in Handlers, HandlerStep(h)
    PROVE  MediaInv'
<1>1. CASE Enter(h)  BY <1>1, EnterKeeps
<1>2. CASE Refuse(h)  BY <1>2, RefuseKeeps
<1>3. CASE StartCore(h)  BY <1>3, StartCoreKeeps
<1>4. CASE EndCore(h)  BY <1>4, EndCoreKeeps
<1>5. CASE \E p \in Pages : Open(h, p)  BY <1>5, OpenKeeps
<1>6. CASE FailBeforeClick(h)  BY <1>6, FailBeforeClickKeeps
<1>7. CASE Click(h)  BY <1>7, ClickKeeps
<1>8. CASE Settle(h)  BY <1>8, SettleKeeps
<1>9. CASE EndUnknown(h)  BY <1>9, EndUnknownKeeps
<1>10. CASE ReadAfter(h)  BY <1>10, ReadAfterKeeps
<1>11. CASE Verified(h)  BY <1>11, VerifiedKeeps
<1> QED
  BY <1>1, <1>2, <1>3, <1>4, <1>5, <1>6, <1>7, <1>8, <1>9, <1>10, <1>11
  DEF HandlerStep

LEMMA MediaStep == MediaInv /\ [Next]_vars => MediaInv'
<1> SUFFICES ASSUME MediaInv, [Next]_vars PROVE MediaInv'
  OBVIOUS
<1>1. CASE \E h \in Handlers : Client(h)
  BY <1>1, ConnectKeeps, RequestKeeps, HangupKeeps DEF Client
<1>2. CASE \E h \in Handlers : HandlerStep(h)
  BY <1>2, HandlerStepKeeps
<1>3. CASE Finish  BY <1>3, FinishKeeps
<1>4. CASE Challenge  BY <1>4, ChallengeKeeps
<1>5. CASE Reconcile  BY <1>5, ReconcileKeeps
<1>6. CASE StartClose  BY <1>6, StartCloseKeeps
<1>7. CASE StopLoop  BY <1>7, StopLoopKeeps
<1>8. CASE CloseSocket  BY <1>8, CloseSocketKeeps
<1>9. CASE Join  BY <1>9, JoinKeeps
<1>10. CASE Release  BY <1>10, ReleaseKeeps
<1>11. CASE UNCHANGED vars
  <2> USE <1>11 DEF vars, threads, runtime, server, ends, browser
  <2>1. MediaTypeOK'
    BY DEF MediaInv, MediaTypeOK, Busy
  <2>2. KeptInv' /\ FenceInv'
    BY DEF MediaInv, KeptInv, UnsettledPageIsKept, FenceInv
  <2>3. TabInv' /\ CloseInv'
    BY DEF MediaInv, TabInv, FilesOutliveSubmit, CloseInv, Quiet
  <2> QED  BY <2>1, <2>2, <2>3 DEF MediaInv
<1> QED
  BY <1>1, <1>2, <1>3, <1>4, <1>5, <1>6, <1>7, <1>8, <1>9, <1>10, <1>11
  DEF Next, CloseStep

\* The invariant that all the theorems below rest on.
THEOREM MediaInvariance == MediaSpec => []MediaInv
  BY InitHolds, MediaStep, PTL DEF MediaSpec

\* The state keeps its type, and the operation lock belongs to the one thread
\* that is inside an operation.
THEOREM MediaTypeCorrect == MediaSpec => []MediaTypeOK
<1>1. MediaInv => MediaTypeOK
  BY DEF MediaInv
<1> QED  BY <1>1, MediaInvariance, PTL

\* Whatever a media create ends with, and whatever close() does meanwhile, a
\* page with an unsettled submit stays open and reachable.
THEOREM UnsettledPagesAreKept == MediaSpec => []UnsettledPageIsKept
<1>1. MediaInv => UnsettledPageIsKept
  BY DEF MediaInv, KeptInv
<1> QED  BY <1>1, MediaInvariance, PTL

\* No page, and with it no private copy of an image, is given up while the
\* form submitted from it may still run.
THEOREM FilesAreKept == MediaSpec => []FilesOutliveSubmit
<1>1. MediaInv => FilesOutliveSubmit
  BY DEF MediaInv, TabInv
<1> QED  BY <1>1, MediaInvariance, PTL

\* However many handlers there are, none of them writes while the submit of
\* another page is unsettled: its page is pending, which fences all writes,
\* or its handler holds the lock.
THEOREM UnsettledSubmitIsAlone == MediaSpec => []NoWriteBesideUnsettled
<1>1. ASSUME MediaInv, NEW h \in Handlers, pc[h] \in {"writing", "form", "sent"},
             NEW p \in unsettled
      PROVE  p = page[h]
  <2>1. opLock = h /\ pending = None
    BY <1>1 DEF MediaInv, MediaTypeOK, KeptInv, Busy, Working
  <2>2. p # None
    BY <1>1, MediaConstants DEF MediaInv, MediaTypeOK
  <2>3. PICK g \in Handlers : page[g] = p /\ pc[g] = "sent"
    BY <1>1, <2>1, <2>2 DEF MediaInv, KeptInv, UnsettledPageIsKept
  <2>4. g = h
    BY <1>1, <2>1, <2>3 DEF MediaInv, MediaTypeOK, Busy
  <2> QED  BY <2>3, <2>4
<1>2. MediaInv => NoWriteBesideUnsettled
  BY <1>1 DEF NoWriteBesideUnsettled
<1> QED  BY <1>2, MediaInvariance, PTL

\* However often close() is called and wherever it fails: when a runtime is
\* closed or the lease is gone, every handler has ended and every submit is
\* settled, and the lease goes after the runtimes.
THEOREM LeaseGoesLast == MediaSpec => []LeaseIsReleasedLast
<1>1. MediaInv => LeaseIsReleasedLast
  <2> SUFFICES ASSUME MediaInv, mediaClosed \/ contentClosed \/ ~lease
               PROVE  Quiet /\ unsettled = {}
    BY DEF MediaInv, CloseInv, LeaseIsReleasedLast
  <2>1. Quiet /\ pending = None
    BY DEF MediaInv, CloseInv
  <2>2. ASSUME NEW p \in unsettled PROVE FALSE
    BY <2>1, <2>2, MediaConstants
       DEF Quiet, MediaInv, MediaTypeOK, KeptInv, UnsettledPageIsKept
  <2> QED  BY <2>1, <2>2
<1> QED  BY <1>1, MediaInvariance, PTL

\* A publish button is clicked only while no submit is UNKNOWN: the form was
\* opened with the fence down, and whoever raises it holds the lock.
THEOREM NoBlindRetry == MediaSpec => NoRetryAfterUnknown
<1>1. MediaInv /\ [Next]_vars => [clicked' # clicked => unknown = {}]_vars
  <2> SUFFICES ASSUME MediaInv, Next, clicked' # clicked PROVE unknown = {}
    OBVIOUS
  <2>1. PICK h \in Handlers : Click(h)
    BY DEF Next, Client, HandlerStep, CloseStep, Connect, Request, Hangup, Enter, Refuse,
           StartCore, EndCore, Open, FailBeforeClick, Settle, EndUnknown, ReadAfter,
           Verified, Finish, Challenge, Reconcile, StartClose, StopLoop, CloseSocket,
           Join, Release
  <2> QED  BY <2>1 DEF Click, MediaInv, FenceInv
<1> QED  BY <1>1, MediaInvariance, PTL DEF MediaSpec, NoRetryAfterUnknown

---------------------------------------------------------------------------
(* The composition with the verifier.                                      *)

\* Every step of the composition is one of MediaRuntime, or leaves its
\* variables alone while the verifier works.
THEOREM ComposesRuntime == CreateSpec => MediaSpec
<1>1. CreateInit => Init
  BY DEF CreateInit
<1>2. [CreateNext]_allVars => [Next]_vars
  <2> SUFFICES ASSUME CreateNext PROVE Next \/ UNCHANGED vars
    BY DEF allVars
  <2>1. CASE \E h \in Handlers : Client(h) /\ UNCHANGED verifier
    BY <2>1 DEF Next
  <2>2. CASE \E h \in Handlers : OtherStep(h) \/ Verify(h) \/ TakeVerdict(h)
    <3>1. PICK h \in Handlers : OtherStep(h) \/ Verify(h) \/ TakeVerdict(h)
      BY <2>2
    <3>2. HandlerStep(h)
      BY <3>1 DEF OtherStep, Verify, TakeVerdict, HandlerStep
    <3> QED  BY <3>2 DEF Next
  <2>3. CASE (Finish \/ Challenge \/ Reconcile \/ StartClose) /\ UNCHANGED verifier
    BY <2>3 DEF Next
  <2>4. CASE Closing
    BY <2>4 DEF Closing, Next
  <2>5. CASE Passing
    BY <2>5 DEF Passing
  <2>6. CASE WorkerStep /\ UNCHANGED vars
    BY <2>6
  <2> QED  BY <2>1, <2>2, <2>3, <2>4, <2>5, <2>6, Zenon DEF CreateNext
<1> QED  BY <1>1, <1>2, PTL DEF CreateSpec, MediaSpec

\* While images are being verified too, unsettled pages are kept, nobody writes
\* beside them, and the runtimes and the lease go last.
THEOREM ComposedRuntimeIsSafe ==
    CreateSpec => [](UnsettledPageIsKept /\ NoWriteBesideUnsettled /\ LeaseIsReleasedLast)
BY ComposesRuntime, UnsettledPagesAreKept, UnsettledSubmitIsAlone, LeaseGoesLast, PTL

-----------------------------------------------------------------------------
(* The verifier.                                                           *)

InLoop == {"none", "starting", "listing", "images", "sleeping"}

\* What a verdict rests on: a result is in the pipe only when the loop is
\* over; a look in progress began before now and is not one too many; "last"
\* is the duration of the look that "looked" tells of.
VerdictInv ==
    /\ VerifierTypeOK
    /\ worker \in InLoop => sent = "nothing" /\ attempt < MaxAttempts
    /\ worker \in {"listing", "images"} => mark <= now
    /\ last # NoLook /\ sent # "confirmed" => looked = "differed"
    /\ sent = "confirmed" => looked = "matched"
    /\ sent = "mismatch" => last # NoLook /\ Left <= last + Reserve

\* Both places where the loop may end, and go on, keep it.
LEMMA BeginLookKeeps ==
    ASSUME VerdictInv, worker \in {"starting", "sleeping"}, BeginLook
    PROVE  VerdictInv'
BY VerifierConstants DEF VerdictInv, VerifierTypeOK, InLoop, BeginLook, Send, Left

LEMMA ContinueKeeps ==
    ASSUME VerdictInv, worker \in {"listing", "images"}, NEW took, Continue(took),
           \/ took = now - mark /\ looked' = "differed"
           \/ took = NoLook /\ looked' = "failed"
    PROVE  VerdictInv'
<1> USE VerifierConstants DEF VerdictInv, VerifierTypeOK, InLoop
<1>1. /\ took \in (0..Budget) \union {NoLook}
      /\ now' = now /\ last' = took /\ attempt' = attempt + 1
  BY DEF Continue
<1>2. CASE attempt' = MaxAttempts
  BY <1>1, <1>2 DEF Continue, Send, Standing, Left
<1>3. CASE attempt' # MaxAttempts
  BY <1>1, <1>3 DEF Continue, Send, Standing, Left
<1> QED  BY <1>2, <1>3

LEMMA WorkerKeeps == ASSUME VerdictInv, WorkerStep PROVE VerdictInv'
<1> USE VerifierConstants DEF VerdictInv, VerifierTypeOK, InLoop, Left
<1>1. CASE SourcesFail
  BY <1>1 DEF SourcesFail, Send
<1>2. CASE ReadSources \/ Awake
  BY <1>2, BeginLookKeeps DEF ReadSources, Awake
<1>3. CASE ReadListing
  BY <1>3 DEF ReadListing, Send, Standing
<1>4. CASE SeeDifference \/ LookFails
  BY <1>4, ContinueKeeps DEF SeeDifference, LookFails
<1>5. CASE SeeMatch
  BY <1>5 DEF SeeMatch, Send
<1>6. CASE LookTimesOut
  BY <1>6 DEF LookTimesOut, Send, Standing
<1>7. CASE Exit \/ Die
  BY <1>7 DEF Exit, Die, Running
<1> QED  BY <1>1, <1>2, <1>3, <1>4, <1>5, <1>6, <1>7 DEF WorkerStep

LEMMA VerifierKeeps == VerdictInv /\ [CreateNext]_allVars => VerdictInv'
<1> SUFFICES ASSUME VerdictInv, [CreateNext]_allVars PROVE VerdictInv'
  OBVIOUS
<1> USE VerifierConstants
<1>1. CASE UNCHANGED verifier
  BY <1>1 DEF VerdictInv, VerifierTypeOK, InLoop, Left, verifier
<1>2. CASE WorkerStep
  BY <1>2, WorkerKeeps
<1>3. CASE StartWorker
  BY <1>3 DEF VerdictInv, VerifierTypeOK, InLoop, Left, StartWorker
<1>4. CASE Return
  BY <1>4 DEF VerdictInv, VerifierTypeOK, InLoop, Left, Return
<1>5. CASE Tick
  BY <1>5 DEF VerdictInv, VerifierTypeOK, InLoop, Left, Tick, Running
<1> QED
  BY <1>1, <1>2, <1>3, <1>4, <1>5
  DEF CreateNext, OtherStep, Verify, TakeVerdict, Closing, Passing, allVars

\* Every verdict of the verifier is what it has seen: it confirms only what the
\* last look has shown, and it reports a difference only if the last look saw
\* one and the time for another such look is over, however the budget, the
\* pause, the reserve and the number of attempts are chosen.
THEOREM VerdictsAreSound == CreateSpec => []VerdictIsSound
<1>1. CreateInit => VerdictInv
  BY VerifierConstants DEF CreateInit, AtRest, VerdictInv, VerifierTypeOK, InLoop, Left
<1>2. VerdictInv => VerdictIsSound
  BY DEF VerdictInv, VerdictIsSound, Verdict
<1> QED  BY <1>1, <1>2, VerifierKeeps, PTL DEF CreateSpec

\* The worker, its result and its clock keep their types.
THEOREM VerifierTypeCorrect == CreateSpec => []VerifierTypeOK
<1>1. CreateInit => VerdictInv
  BY VerifierConstants DEF CreateInit, AtRest, VerdictInv, VerifierTypeOK, InLoop, Left
<1>2. VerdictInv => VerifierTypeOK
  BY DEF VerdictInv
<1> QED  BY <1>1, <1>2, VerifierKeeps, PTL DEF CreateSpec
=============================================================================
