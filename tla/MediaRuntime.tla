---------------------------- MODULE MediaRuntime ----------------------------
(***************************************************************************)
(* The private-Web product around one browser tab: PrivateWebMediaCreate-  *)
(* Runtime, which publishes ads with images, the fence it puts before all  *)
(* other writes while the outcome of a submit is unknown, reconciliation,  *)
(* and the shutdown of PrivateWebWriteApiRuntime, which owns the media     *)
(* runtime, the content runtime and the lease on the store.                *)
(*                                                                         *)
(* Every page object of the program drives the same tab: the CDP client    *)
(* accepts exactly one page target.  A submit settles when the tab reaches *)
(* the management page after it.  Nobody but the program and the submitted *)
(* form navigates the tab (a human only solves challenges in it).          *)
(***************************************************************************)
EXTENDS FiniteSets

CONSTANTS
    Handlers,   \* request handler threads
    Pages,      \* the CdpPrivateWebMediaPage objects that are ever made
    None

ASSUME MediaConstants == None \notin Handlers \union Pages

VARIABLES
    opLock,     \* operation_lock: a handler, or None
    pc,         \* the handler threads
    page,       \* page[h]: the media page that h works with, or None
    life,       \* life[p]: "unused", "open" or "closed"
    unsettled,  \* the pages whose _media_submit_unsettled is set
    pending,    \* _pending_page
    fenced,     \* _submit_unknown_fenced
    mediaClosed, contentClosed,   \* _closed of the two runtimes
    serving,    \* does the serve loop accept requests?
    drained,    \* _server_closed: server_close has joined the handlers
    closer,     \* close(): "idle", or how far it has come
    cleanupFailed, closed,        \* of PrivateWebWriteApiRuntime
    callFailed, \* cleanup_failed, the local of the running close()
    lease,      \* is the lease on the store held?
    tab,        \* what the tab shows: "form", "management" or "other"
    owner,      \* the page whose form the tab still holds, or None
    clicked,    \* history: the pages whose publish button was clicked
    finished,   \* history: the pages whose submitted form ran to its end
    unknown     \* history: the pages that ended as UNKNOWN and were not
                \* reconciled

threads == <<opLock, pc, page>>
runtime == <<life, unsettled, pending, fenced>>
server  == <<serving, drained, closer, callFailed, lease>>
ends    == <<mediaClosed, contentClosed, cleanupFailed, closed>>
browser == <<tab, owner, finished>>
vars == <<threads, runtime, server, ends, browser, clicked, unknown>>

Init ==
    /\ opLock = None
    /\ pc = [h \in Handlers |-> "idle"]
    /\ page = [h \in Handlers |-> None]
    /\ life = [p \in Pages |-> "unused"]
    /\ unsettled = {} /\ pending = None /\ fenced = FALSE
    /\ mediaClosed = FALSE /\ contentClosed = FALSE
    /\ serving = TRUE /\ drained = FALSE /\ closer = "idle"
    /\ callFailed = FALSE /\ cleanupFailed = FALSE /\ closed = FALSE /\ lease = TRUE
    /\ tab = "other" /\ owner = None
    /\ clicked = {} /\ finished = {} /\ unknown = {}

-----------------------------------------------------------------------------
(* Handler threads.  The serialized services run one whole operation under *)
(* operation_lock.                                                         *)

Goto(h, label) == pc' = [pc EXCEPT ![h] = label]

\* The operation ends and the lock is released.
Leave(h) ==
    /\ Goto(h, "idle")
    /\ opLock' = None
    /\ page' = [page EXCEPT ![h] = None]

\* The serve loop accepts a client and starts a handler for it, which waits
\* for the request.
Connect(h) ==
    /\ pc[h] = "idle"
    /\ serving
    /\ Goto(h, "connected")
    /\ UNCHANGED <<opLock, page, runtime, server, ends, browser, clicked, unknown>>

\* The client sends a request that one of the services is to execute: a
\* media create (Open), or any write without images (StartCore).
Request(h) ==
    /\ pc[h] = "connected"
    /\ Goto(h, "queued")
    /\ UNCHANGED <<opLock, page, runtime, server, ends, browser, clicked, unknown>>

\* It goes away, its body is late, or the request is refused or answered
\* without a service.
Hangup(h) ==
    /\ pc[h] = "connected"
    /\ Goto(h, "idle")
    /\ UNCHANGED <<opLock, page, runtime, server, ends, browser, clicked, unknown>>

Enter(h) ==
    /\ pc[h] = "queued"
    /\ opLock = None
    /\ opLock' = h
    /\ Goto(h, "entered")
    /\ UNCHANGED <<page, runtime, server, ends, browser, clicked, unknown>>

\* Refused by a fence, or any other end before the tab is touched: images
\* that cannot be resolved or copied, a read that fails, a closed runtime, no
\* page.
Refuse(h) ==
    /\ pc[h] = "entered"
    /\ Leave(h)
    /\ UNCHANGED <<runtime, server, ends, browser, clicked, unknown>>

\* Variant: only media creates are fenced.
StartCoreUnfenced(h) ==
    /\ pc[h] = "entered"
    /\ ~contentClosed
    /\ tab' \in {"other", "management"} /\ owner' = None
    /\ Goto(h, "writing")
    /\ UNCHANGED <<opLock, page, runtime, server, ends, finished, clicked, unknown>>

\* A write without images navigates the tab to an editor, to the create
\* form or to the management page.
StartCore(h) ==
    /\ pc[h] = "entered"
    /\ pending = None
    /\ ~contentClosed
    /\ tab' \in {"other", "management"} /\ owner' = None
    /\ Goto(h, "writing")
    /\ UNCHANGED <<opLock, page, runtime, server, ends, finished, clicked, unknown>>

EndCore(h) ==
    /\ pc[h] = "writing"
    /\ tab' \in {"other", "management"} /\ owner' = None
    /\ Leave(h)
    /\ UNCHANGED <<runtime, server, ends, finished, clicked, unknown>>

\* Variant: an UNKNOWN outcome does not forbid the next create.
OpenDespiteFence(h, p) ==
    /\ pc[h] = "entered"
    /\ pending = None
    /\ ~mediaClosed
    /\ life[p] = "unused"
    /\ life' = [life EXCEPT ![p] = "open"]
    /\ page' = [page EXCEPT ![h] = p]
    /\ tab' = "form" /\ owner' = p
    /\ Goto(h, "form")
    /\ UNCHANGED <<opLock, unsettled, pending, fenced, server, ends, finished,
                   clicked, unknown>>

\* A media create opens the form on a page of its own and fills it.
Open(h, p) ==
    /\ pc[h] = "entered"
    /\ pending = None
    /\ ~fenced
    /\ ~mediaClosed
    /\ life[p] = "unused"
    /\ life' = [life EXCEPT ![p] = "open"]
    /\ page' = [page EXCEPT ![h] = p]
    /\ tab' = "form" /\ owner' = p
    /\ Goto(h, "form")
    /\ UNCHANGED <<opLock, unsettled, pending, fenced, server, ends, finished,
                   clicked, unknown>>

\* _close_after_writer_outcome: a page refuses to close while its submit is
\* unsettled, and is then kept as the pending page.
ClosePage(p) ==
    IF p \in unsettled'
    THEN pending' = p /\ UNCHANGED life
    ELSE life' = [life EXCEPT ![p] = "closed"] /\ UNCHANGED pending

\* An error before the click.  If nothing was attempted the operation is
\* over; if the file selection is unknown the reads follow; an unmarked
\* error of the submit, or a cancellation, also sets the fence.
FailBeforeClick(h) ==
    /\ pc[h] = "form"
    /\ UNCHANGED unsettled
    /\ ClosePage(page[h])
    /\ \/ /\ UNCHANGED <<fenced, unknown>>
          /\ \/ Leave(h)
             \/ Goto(h, "reading") /\ UNCHANGED <<opLock, page>>
       \/ /\ fenced' = TRUE
          /\ unknown' = unknown \union {page[h]}
          /\ \/ Leave(h)
             \/ Goto(h, "reading") /\ UNCHANGED <<opLock, page>>
    /\ UNCHANGED <<server, ends, browser, clicked>>

\* submit_create_media arms the page and clicks.
Click(h) ==
    /\ pc[h] = "form"
    /\ unsettled' = unsettled \union {page[h]}
    /\ clicked' = clicked \union {page[h]}
    /\ Goto(h, "sent")
    /\ UNCHANGED <<opLock, page, life, pending, fenced, server, ends, browser,
                   unknown>>

\* The wait sees the management page: settled.  The cleanup of the writer's
\* own files may still fail, which counts as UNKNOWN.
Settle(h) ==
    /\ pc[h] = "sent"
    /\ tab = "management"
    /\ unsettled' = unsettled \ {page[h]}
    /\ ClosePage(page[h])
    /\ \/ UNCHANGED <<fenced, unknown>>
       \/ fenced' = TRUE /\ unknown' = unknown \union {page[h]}
    /\ Goto(h, "reading")
    /\ UNCHANGED <<opLock, page, server, ends, browser, clicked>>

\* The click fails, the wait times out or sees another page: UNKNOWN.  A
\* cancellation ends the operation at once.
EndUnknown(h) ==
    /\ pc[h] = "sent"
    /\ UNCHANGED unsettled
    /\ fenced' = TRUE
    /\ unknown' = unknown \union {page[h]}
    /\ ClosePage(page[h])
    /\ \/ Leave(h)
       \/ Goto(h, "reading") /\ UNCHANGED <<opLock, page>>
    /\ UNCHANGED <<server, ends, browser, clicked>>

\* The reads of the orchestrator after the attempt.  If the inventories show
\* one new ad, the content read opens its editor in the tab; if that confirms
\* the create, its images are verified.
ReadAfter(h) ==
    /\ pc[h] = "reading"
    /\ \/ UNCHANGED <<tab, owner>> /\ Leave(h)
       \/ /\ tab' = "other" /\ owner' = None
          /\ \/ Leave(h)
             \/ Goto(h, "verifying") /\ UNCHANGED <<opLock, page>>
    /\ UNCHANGED <<runtime, server, ends, finished, clicked, unknown>>

\* The verifier has answered, and the receipt is stored.
Verified(h) ==
    /\ pc[h] = "verifying"
    /\ Leave(h)
    /\ UNCHANGED <<runtime, server, ends, browser, clicked, unknown>>

-----------------------------------------------------------------------------
(* The tab after a click, as far as the page is still in it.               *)

\* The submitted form runs to its end.
Finish ==
    /\ owner \in clicked
    /\ owner \notin finished
    /\ tab' = "management"
    /\ finished' = finished \union {owner}
    /\ UNCHANGED <<threads, runtime, server, ends, owner, clicked, unknown>>

\* It shows a login or a challenge, or the form again once that is solved.
Challenge ==
    /\ owner \in clicked \ finished
    /\ tab' \in {"form", "other"}
    /\ UNCHANGED <<threads, runtime, server, ends, owner, finished, clicked, unknown>>

-----------------------------------------------------------------------------
(* The thread that owns the runtime.                                       *)

\* reconcile_media_submit: only looks at the tab.  If it does not see the
\* management page it raises and changes nothing.
Reconcile ==
    /\ pending # None
    /\ opLock = None
    /\ ~closed /\ ~mediaClosed
    /\ tab = "management"
    /\ unsettled' = unsettled \ {pending}
    /\ life' = [life EXCEPT ![pending] = "closed"]
    /\ pending' = None
    /\ fenced' = FALSE
    /\ unknown' = {}
    /\ UNCHANGED <<threads, server, ends, browser, clicked>>

\* close(): a call goes through these steps, each of which a later call
\* skips once it has succeeded.
StartClose ==
    /\ closer = "idle"
    /\ ~closed
    /\ closer' = "stopping"
    /\ callFailed' = cleanupFailed
    /\ UNCHANGED <<threads, runtime, serving, drained, lease, ends, browser, clicked,
                   unknown>>

\* shutdown(), which may raise, and the join of the serve loop.
StopLoop ==
    /\ closer = "stopping"
    /\ \/ /\ serving' = FALSE /\ closer' = "draining"
          /\ callFailed' \in IF serving THEN {callFailed, TRUE} ELSE {callFailed}
       \/ serving /\ closer' = "idle" /\ UNCHANGED <<serving, callFailed>>
    /\ UNCHANGED <<threads, runtime, drained, lease, ends, browser, clicked, unknown>>

Quiet == \A h \in Handlers : pc[h] = "idle"

\* server_close() closes the socket, which may raise; it is skipped once it
\* has succeeded.
CloseSocket ==
    /\ closer = "draining"
    /\ \/ drained /\ closer' = "releasing"
       \/ ~drained /\ closer' \in {"joining", "idle"}
    /\ UNCHANGED <<threads, runtime, serving, drained, callFailed, lease, ends, browser,
                   clicked, unknown>>

\* Variant: the handlers are joined while the lock they need is held.
JoinUnderLock ==
    /\ closer = "joining"
    /\ IF opLock = "closer"
       THEN /\ Quiet
            /\ drained' = TRUE
            /\ opLock' = None
            /\ closer' = "releasing"
       ELSE /\ opLock = None
            /\ opLock' = "closer"
            /\ UNCHANGED <<drained, closer>>
    /\ UNCHANGED <<pc, page, runtime, serving, callFailed, lease, ends, browser,
                   clicked, unknown>>

\* Then it joins the handlers, without a deadline: also one whose client has
\* not sent its request head.
Join ==
    /\ closer = "joining"
    /\ Quiet
    /\ drained' = TRUE
    /\ closer' = "releasing"
    /\ UNCHANGED <<threads, runtime, serving, callFailed, lease, ends, browser, clicked,
                   unknown>>

\* Variant: an unsettled submit is one more cleanup that failed.
ReleaseDespitePending ==
    /\ closer = "releasing"
    /\ opLock = None
    /\ closer' = "idle"
    /\ mediaClosed' = (pending = None) /\ contentClosed' = TRUE
    /\ closed' = TRUE /\ lease' = FALSE
    /\ UNCHANGED <<threads, runtime, serving, drained, callFailed, cleanupFailed, browser,
                   clicked, unknown>>

\* The runtimes are closed and then, if nothing failed in this call, the
\* lease is given back, unless the media runtime refuses to close.  A runtime
\* whose cleanup failed has failed for good.
Release ==
    /\ closer = "releasing"
    /\ opLock = None
    /\ closer' = "idle"
    /\ IF pending # None
       THEN UNCHANGED <<ends, lease>>
       ELSE /\ mediaClosed' = TRUE /\ contentClosed' = TRUE
            /\ cleanupFailed' \in {cleanupFailed, TRUE}
            /\ IF callFailed \/ cleanupFailed'
               THEN UNCHANGED <<closed, lease>>
               ELSE closed' = TRUE /\ lease' = FALSE
    /\ UNCHANGED <<threads, runtime, serving, drained, callFailed, browser, clicked,
                   unknown>>

-----------------------------------------------------------------------------
HandlerStep(h) ==
    \/ Enter(h) \/ Refuse(h) \/ StartCore(h) \/ EndCore(h)
    \/ \E p \in Pages : Open(h, p)
    \/ FailBeforeClick(h) \/ Click(h) \/ Settle(h) \/ EndUnknown(h) \/ ReadAfter(h)
    \/ Verified(h)

\* What the client of a handler does, for which nobody can wait.
Client(h) == Connect(h) \/ Request(h) \/ Hangup(h)

CloseStep == StopLoop \/ CloseSocket \/ Join \/ Release

Next ==
    \/ \E h \in Handlers : Client(h) \/ HandlerStep(h)
    \/ Finish \/ Challenge \/ Reconcile \/ StartClose \/ CloseStep

MediaSpec == Init /\ [][Next]_vars
-----------------------------------------------------------------------------
(* Properties.                                                             *)

Busy == {"entered", "writing", "form", "sent", "reading", "verifying"}

\* Types of the lock, the handlers, the pages and the shutdown.
MediaTypeOK ==
    /\ opLock \in Handlers \union {None}
    /\ pc \in [Handlers -> {"idle", "connected", "queued"} \union Busy]
    /\ page \in [Handlers -> Pages \union {None}]
    /\ life \in [Pages -> {"unused", "open", "closed"}]
    /\ unsettled \subseteq clicked /\ clicked \subseteq Pages
    /\ finished \subseteq clicked /\ unknown \subseteq Pages
    /\ pending \in Pages \union {None} /\ owner \in Pages \union {None}
    /\ tab \in {"form", "management", "other"}
    /\ closer \in {"idle", "stopping", "draining", "joining", "releasing"}
    /\ {fenced, mediaClosed, contentClosed, serving, drained, callFailed, cleanupFailed,
        closed, lease} \subseteq BOOLEAN
    /\ \A h \in Handlers : pc[h] \in Busy <=> opLock = h

\* A page whose submit is unsettled is never dropped: it is in use, or kept
\* for reconciliation, and it is still open.
UnsettledPageIsKept ==
    \A p \in unsettled :
        /\ life[p] = "open"
        /\ p = pending \/ \E h \in Handlers : page[h] = p /\ pc[h] = "sent"

\* The private copies of the images are deleted when their page closes.  No
\* page is closed whose submitted form may still be consuming them.
FilesOutliveSubmit ==
    \A p \in clicked : life[p] = "closed" => p \in finished

\* While a submit is unsettled no other write touches the tab.
NoWriteBesideUnsettled ==
    \A h \in Handlers :
        pc[h] \in {"writing", "form", "sent"} => unsettled \subseteq {page[h]}

\* No publish button is clicked after an UNKNOWN outcome, until the program
\* has seen that submit settle.
NoRetryAfterUnknown == [][clicked' # clicked => unknown = {}]_vars

\* The runtimes and the lease outlive every handler and every unsettled
\* submit, whatever fails during shutdown and however often it is repeated.
LeaseIsReleasedLast ==
    /\ mediaClosed \/ contentClosed \/ ~lease => Quiet /\ unsettled = {}
    /\ ~lease => mediaClosed /\ contentClosed

\* close() returns or raises: it does not wait for itself, and the handlers it
\* joins come to their end.  Only a client that never sends its request can
\* hold it.
CloseReturns ==
    \/ \E h \in Handlers : <>[](pc[h] = "connected")
    \/ (closer # "idle") ~> (closer = "idle")

\* A pending submit stays reconcilable: the tab shows that it has settled, or
\* still holds its form, so that a later look can see it settle.
PendingIsReconcilable == pending # None => tab = "management" \/ owner = pending
=============================================================================
