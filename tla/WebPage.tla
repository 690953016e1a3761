------------------------------ MODULE WebPage ------------------------------
(***************************************************************************)
(* The writers of private_web.py, each driving the browser's only tab      *)
(* through a CdpPrivateWebPage: content, state and deletion of an ad, and  *)
(* the publication of a new one.  Every call of the DevTools protocol is a *)
(* step of its own.  Between two calls the tab goes on living: a           *)
(* navigation ordered earlier arrives late, the site renders the list      *)
(* anew, a challenge appears, a person types into the form.  A control can *)
(* only be clicked by its coordinates; what lies there when the click      *)
(* arrives is what the click hits.                                         *)
(*                                                                         *)
(* One operation runs at a time (MediaRuntime shows why), each with a page *)
(* object of its own in the same tab.                                      *)
(***************************************************************************)
EXTENDS Naturals, Sequences, FiniteSets

CONSTANTS
    Ads,        \* the ads of the owner
    Targets,    \* the ads that operations are asked for
    OnPage,     \* the page of the list that shows an ad, 0 if none does
    LastPage,   \* the last page of the list
    MaxPages,   \* _MANAGEMENT_MAX_PAGES
    None,
    MaxOps,     \* bound: operations in a behaviour
    MaxMoves    \* bound: changes by others, typed texts and challenges

ASSUME WebPageConstants ==
    /\ None \notin Ads /\ Targets \subseteq Ads
    /\ LastPage \in Nat \ {0} /\ OnPage \in [Ads -> 0 .. LastPage]
    /\ MaxPages \in Nat \ {0} /\ MaxOps \in Nat /\ MaxMoves \in Nat

VARIABLES
    ads,       \* the platform: state, title and text of each ad
    inflight,  \* clicks on their way through the page to the platform
    doc,       \* the document in the tab
    coming,    \* navigations that were ordered and have not arrived
    op, step,  \* the running operation, and how far it has come
    snap,      \* the page object's last snapshot, or None
    expect,    \* the form that shall be submitted, or None
    prior, seen,    \* fingerprints of list pages: the last, and all
    aim,       \* the control whose coordinates were asked for, or None
    steady,    \* has the document stayed as it was since then?
    outcome,   \* of the last operation, as the orchestrator sees it
    ops, moves,
    sent,      \* history: the submitting controls this operation has hit
    astray,    \* history: has it clicked on a document that had moved?
    held,      \* history: has its goal held since it began?
    texts      \* history: the texts its ad has had since it began

platform == <<ads, inflight>>
tab      == <<doc, coming>>
driver   == <<op, step, snap, expect, prior, seen, aim, outcome>>
history  == <<sent, astray, held, texts>>
vars == <<platform, tab, driver, steady, ops, moves, history>>

Operation ==
    [kind : {"update", "delete"}, ad : Targets, goal : {"none"}]
    \union [kind : {"state"}, ad : Targets, goal : {"active", "paused"}]
    \union {[kind |-> "create", ad |-> None, goal |-> "none"]}

Form(title, text) == [title |-> title, text |-> text]
Requested == Form("new", "new")   \* what a create publishes

\* Everything on a page that can be clicked and is of interest here.
Control(kind, ad, goal, form) ==
    [kind |-> kind, ad |-> ad, goal |-> goal, form |-> form]
NextControl == Control("next", None, "none", Form("", ""))
DialogControl(a) == Control("dialog", a, "none", Form("", ""))

ASSUME NoneIsNoControl == None # NextControl /\ \A a \in Ads : None # DialogControl(a)

-----------------------------------------------------------------------------
(* The site.                                                               *)

Plain(place) ==
    [place |-> place, ad |-> None, form |-> Form("", ""), page |-> 0, asked |-> 0,
     shown |-> [a \in Ads |-> "gone"], dialog |-> None, old |-> FALSE]

Shown(p) == [a \in Ads |-> IF OnPage[a] = p THEN ads[a].state ELSE "gone"]

ListPage(p) == [Plain("list") EXCEPT !.page = p, !.asked = p, !.shown = Shown(p)]

Editor(a) ==
    IF ads[a].state = "gone" THEN Plain("elsewhere")
    ELSE [Plain("editor") EXCEPT !.ad = a, !.form = Form(ads[a].title, ads[a].text)]

Served(n) ==
    CASE n.place = "editor" -> Editor(n.ad)
      [] n.place = "list"   -> ListPage(1)
      [] OTHER              -> Plain(n.place)

Listed(d) == {a \in Ads : d.shown[a] # "gone"}

Controls(d) ==
    CASE d.place = "editor" -> {Control("save", d.ad, "none", d.form)}
      [] d.place = "form"   -> {Control("publish", None, "none", d.form)}
      [] d.place = "list" /\ d.dialog # None ->
            {Control("delete", d.dialog, "none", Form("", ""))}
      [] d.place = "list" /\ d.dialog = None ->
            {NextControl}
            \union {DialogControl(a) : a \in Listed(d)}
            \union {Control("toggle", a, IF d.shown[a] = "active" THEN "paused" ELSE "active",
                            Form("", "")) : a \in Listed(d)}
      [] OTHER -> {}

Idle == step = "idle"

Holds(o, all) ==
    CASE o.kind = "update" -> all[o.ad].title = "new"
      [] o.kind = "state"  -> all[o.ad].state = o.goal
      [] OTHER             -> FALSE

\* The histories follow the ad of the running operation.
Observe ==
    /\ held' = (held \/ (~Idle /\ Holds(op, ads')))
    /\ texts' = IF Idle \/ op.ad = None THEN texts
                ELSE texts \union {ads'[op.ad].text}

Moved == steady' = FALSE

\* The platform carries out what a click asked for, or refuses it.
Process(c) ==
    /\ c \in inflight
    /\ inflight' = inflight \ {c}
    /\ \/ UNCHANGED <<ads, doc, coming, steady>>
       \/ /\ c.kind = "save" /\ ads[c.ad].state # "gone"
          /\ ads' = [ads EXCEPT ![c.ad].title = c.form.title, ![c.ad].text = c.form.text]
          /\ coming' = coming \union {[place |-> "list", ad |-> None]}
          /\ UNCHANGED <<doc, steady>>
       \/ /\ c.kind = "toggle" /\ ads[c.ad].state # "gone"
          /\ ads' = [ads EXCEPT ![c.ad].state = c.goal]
          /\ UNCHANGED <<doc, coming, steady>>
       \/ /\ c.kind = "delete"
          /\ ads' = [ads EXCEPT ![c.ad].state = "gone"]
          /\ doc' = [doc EXCEPT !.dialog = None] /\ Moved
          /\ UNCHANGED coming
       \/ /\ c.kind = "publish"
          /\ doc' = IF doc.place = "form" THEN Plain("elsewhere") ELSE doc
          /\ Moved
          /\ UNCHANGED <<ads, coming>>
    /\ UNCHANGED <<driver, ops, moves, sent, astray>>
    /\ Observe

\* Someone changes an ad on another device.
ElsewhereChange(a) ==
    /\ moves < MaxMoves /\ moves' = moves + 1
    /\ ads[a].state # "gone"
    /\ \/ \E s \in {"active", "paused", "gone"} \ {ads[a].state} :
            ads' = [ads EXCEPT ![a].state = s]
       \/ ads' = [ads EXCEPT ![a].text = "other"]
    /\ Observe
    /\ UNCHANGED <<inflight, tab, driver, steady, ops, sent, astray>>

Arrive(n) ==
    /\ n \in coming
    /\ coming' = coming \ {n}
    /\ doc' = Served(n)
    /\ Moved
    /\ UNCHANGED <<platform, driver, ops, moves, history>>

\* The list is rendered: the page that was asked for, as the ads are now; a
\* dialog is gone.
Render ==
    /\ doc.place = "list"
    /\ doc' = [ListPage(doc.asked) EXCEPT !.old = doc.old]
    /\ doc' # doc
    /\ Moved
    /\ UNCHANGED <<platform, coming, driver, ops, moves, history>>

\* Something else appears and shifts the layout.
Shift ==
    /\ steady /\ Moved
    /\ UNCHANGED <<platform, tab, driver, ops, moves, history>>

\* A person types into the open form, or a challenge is put before the page.
Interfere ==
    /\ moves < MaxMoves /\ moves' = moves + 1
    /\ \/ doc.place \in {"editor", "form"} /\ doc' = [doc EXCEPT !.form.text = "typed"]
       \/ doc.place # "gate" /\ doc' = [Plain("gate") EXCEPT !.old = doc.old]
    /\ Moved
    /\ UNCHANGED <<platform, coming, driver, ops, history>>

-----------------------------------------------------------------------------
(* Beginning and ending an operation.                                      *)

FirstPlace(o) ==
    CASE o.kind = "update" -> [place |-> "editor", ad |-> o.ad]
      [] o.kind = "create" -> [place |-> "choose", ad |-> None]
      [] OTHER             -> [place |-> "list", ad |-> None]

\* open_*: everything an earlier operation bound is forgotten, the document
\* is marked, and a new one is ordered.
Begin(o) ==
    /\ Idle /\ ops < MaxOps /\ ops' = ops + 1
    /\ op' = o /\ step' = "opening" /\ outcome' = "none"
    /\ snap' = None /\ expect' = None /\ aim' = None
    /\ prior' = {} /\ seen' = {}
    /\ doc' = [doc EXCEPT !.old = TRUE]
    /\ coming' = coming \union {FirstPlace(o)}
    /\ sent' = <<>> /\ astray' = FALSE
    /\ held' = Holds(o, ads)
    /\ texts' = IF o.ad = None THEN {} ELSE {ads[o.ad].text}
    /\ UNCHANGED <<platform, steady, moves>>

\* The page object goes with its operation.
EndAs(result) ==
    /\ outcome' = result
    /\ step' = "idle"
    /\ snap' = None /\ expect' = None /\ aim' = None
    /\ prior' = {} /\ seen' = {}
    /\ UNCHANGED op

\* A call failed, or a deadline passed, before anything could be submitted.
\* The content writer does not know of WriteNotAttemptedError.
EarlyFailure == IF op.kind = "update" THEN "unknown" ELSE "not_attempted"

Page == <<platform, tab, steady, ops, moves, history>>

-----------------------------------------------------------------------------
(* What the expressions evaluated in the page tell the driver.             *)

Ready(data) == [state |-> "ready", data |-> data]
NotReady == [state |-> "unknown", data |-> None]

\* read_editor, and what a bound editor must be.
EditorSnapshot ==
    IF doc.place = "editor" /\ doc.ad = op.ad THEN Ready(doc.form) ELSE NotReady

CreateSnapshot == IF doc.place = "form" THEN Ready(doc.form) ELSE NotReady

\* The control next to the link to the editor of the ad names the ad's state.
StateSnapshot ==
    IF doc.place = "list" /\ doc.dialog = None /\ doc.shown[op.ad] # "gone"
    THEN Ready(doc.shown[op.ad]) ELSE NotReady

DeleteSnapshot ==
    IF doc.place = "list" /\ doc.dialog = None /\ doc.shown[op.ad] # "gone"
    THEN Ready(op.ad) ELSE NotReady

\* The dialog does not say which ad it is about.
ConfirmationSnapshot ==
    IF doc.place = "list" /\ doc.dialog # None THEN Ready(op.ad) ELSE NotReady

Snapshot ==
    CASE op.kind = "update" -> EditorSnapshot
      [] op.kind = "create" -> CreateSnapshot
      [] op.kind = "state"  -> StateSnapshot
      [] OTHER              -> DeleteSnapshot

Fingerprint == Listed(doc)

TargetAbsent ==
    /\ doc.place = "list" /\ doc.dialog = None
    /\ Fingerprint # {} /\ op.ad \notin Fingerprint

-----------------------------------------------------------------------------
(* Opening.                                                                *)

\* Variant: the mark of the old document is not looked at.
OpenedOnOldDocument ==
    /\ step \in {"opening", "continued"}
    /\ Snapshot.state = "ready" \/ doc.place = "gate"
    /\ step' = "opened"
    /\ UNCHANGED <<Page, op, snap, expect, prior, seen, aim, outcome>>

\* open_editor, and the end of the three others: the new document is there
\* and ready, or it shows a challenge.
Opened ==
    /\ \/ step = "opening" /\ op.kind # "create" /\ ~doc.old
       \/ step = "continued"
    /\ Snapshot.state = "ready" \/ doc.place = "gate"
    /\ step' = "opened"
    /\ UNCHANGED <<Page, op, snap, expect, prior, seen, aim, outcome>>

\* Variant: pages that were seen before are not recognised.
SeekNextPageForever ==
    /\ step = "opening" /\ op.kind \in {"state", "delete"} /\ ~doc.old
    /\ TargetAbsent /\ Fingerprint # prior
    /\ prior' = Fingerprint
    /\ step' = "aimed" /\ aim' = NextControl /\ steady' = TRUE
    /\ UNCHANGED <<platform, tab, ops, moves, history, op, snap, expect, seen, outcome>>

\* The ad is not on this page of the list: the control for the next page is
\* asked for its coordinates.
SeekNextPage ==
    /\ step = "opening" /\ op.kind \in {"state", "delete"} /\ ~doc.old
    /\ TargetAbsent /\ Fingerprint # prior
    /\ IF Fingerprint \in seen \/ Cardinality(seen \union {Fingerprint}) >= MaxPages
       THEN EndAs("not_attempted") /\ UNCHANGED steady
       ELSE /\ seen' = seen \union {Fingerprint} /\ prior' = Fingerprint
            /\ step' = "aimed" /\ aim' = NextControl /\ steady' = TRUE
            /\ UNCHANGED <<op, snap, expect, outcome>>
    /\ UNCHANGED <<platform, tab, ops, moves, history>>

\* open_create_form clicks through the category and on "Weiter".  When that
\* click fails, the form is waited for all the same.
ChooseCategory ==
    /\ step = "opening" /\ op.kind = "create" /\ ~doc.old
    /\ doc.place = "choose"
    /\ step' = "continued"
    /\ \/ coming' = coming \union {[place |-> "form", ad |-> None]}
       \/ UNCHANGED coming
    /\ UNCHANGED <<platform, doc, steady, ops, moves, history,
                   op, snap, expect, prior, seen, aim, outcome>>

-----------------------------------------------------------------------------
(* Reading and filling.                                                    *)

\* The form that an update or a create wants to submit.
Wanted(form) ==
    CASE op.kind = "update" -> Form("new", form.text)
      [] op.kind = "create" -> Requested
      [] OTHER              -> None

NothingToDo(data) ==
    CASE op.kind = "update" -> data.title = "new"
      [] op.kind = "state"  -> data = op.goal
      [] OTHER              -> FALSE

\* The first reading of the opened page.
ReadBefore ==
    /\ step = "opened"
    /\ LET now == Snapshot IN
        IF now.state # "ready" THEN EndAs("not_attempted")
        ELSE IF NothingToDo(now.data) THEN EndAs("done")
        ELSE /\ snap' = now
             /\ expect' = Wanted(now.data)
             /\ step' = IF op.kind \in {"update", "create"} THEN "filling" ELSE "read"
             /\ UNCHANGED <<op, prior, seen, aim, outcome>>
    /\ UNCHANGED Page

\* replace_*: one field is set, if the form is still the one of the snapshot.
\* The reply can get lost after that.
FillField(f) ==
    /\ step = "filling" /\ snap.data[f] # expect[f]
    /\ f = "text" => snap.data.title = expect.title
    /\ IF Snapshot = snap
       THEN /\ doc' = [doc EXCEPT !.form[f] = expect[f]]
            /\ Moved
            /\ \/ /\ snap' = [snap EXCEPT !.data[f] = expect[f]]
                  /\ UNCHANGED <<op, step, expect, prior, seen, aim, outcome>>
               \/ EndAs(EarlyFailure)
       ELSE /\ EndAs(EarlyFailure)
            /\ UNCHANGED <<doc, steady>>
    /\ UNCHANGED <<platform, coming, ops, moves, history>>

\* The reading right before the submit: the form must hold what is wanted,
\* the ad must still be in the other state.
ReadBeforeSubmit ==
    /\ \/ step = "filling" /\ snap.data = expect
       \/ step = "read" /\ op.kind = "state"
    /\ LET now == Snapshot IN
        IF now.state # "ready" THEN EndAs("not_attempted")
        ELSE IF op.kind = "state" /\ now.data = op.goal THEN EndAs("done")
        ELSE IF op.kind # "state" /\ now.data # expect THEN EndAs("not_attempted")
        ELSE /\ snap' = now
             /\ step' = "checked"
             /\ UNCHANGED <<op, expect, prior, seen, aim, outcome>>
    /\ UNCHANGED Page

\* A call fails before anything was submitted, or a deadline of open_* passes.
FailsEarly ==
    /\ step \in {"opening", "continued", "opened", "filling", "read",
                 "confirming", "checked"}
    /\ EndAs(EarlyFailure)
    /\ UNCHANGED Page

-----------------------------------------------------------------------------
(* Aiming and clicking.  The expression that returns the coordinates of a  *)
(* control checks the page once more, in the same evaluation.              *)

\* Variant: the control is found again, the page is not checked again.
SubmitControlUnchecked ==
    CASE op.kind = "update" /\ doc.place = "editor" -> Control("save", doc.ad, "none", doc.form)
      [] op.kind = "create" /\ doc.place = "form" -> Control("publish", None, "none", doc.form)
      [] op.kind = "state" /\ Snapshot = snap -> Control("toggle", op.ad, op.goal, Form("", ""))
      [] op.kind = "delete" /\ ConfirmationSnapshot.state = "ready" ->
            Control("delete", doc.dialog, "none", Form("", ""))
      [] OTHER -> None

SubmitControl ==
    CASE op.kind = "update" /\ Snapshot = snap -> Control("save", op.ad, "none", snap.data)
      [] op.kind = "create" /\ Snapshot = snap -> Control("publish", None, "none", snap.data)
      [] op.kind = "state" /\ Snapshot = snap  -> Control("toggle", op.ad, op.goal, Form("", ""))
      [] op.kind = "delete" /\ ConfirmationSnapshot.state = "ready" ->
            Control("delete", doc.dialog, "none", Form("", ""))
      [] OTHER -> None

AimAtSubmit ==
    /\ step = "checked"
    /\ IF SubmitControl = None
       THEN EndAs(EarlyFailure) /\ UNCHANGED steady
       ELSE /\ aim' = SubmitControl /\ step' = "aimed" /\ steady' = TRUE
            /\ snap' = None
            /\ UNCHANGED <<op, expect, prior, seen, outcome>>
    /\ UNCHANGED <<platform, tab, ops, moves, history>>

\* open_delete_confirmation asks for the control that opens the dialog.
AimAtDialog ==
    /\ step = "read" /\ op.kind = "delete"
    /\ IF Snapshot.state # "ready"
       THEN EndAs("not_attempted") /\ UNCHANGED steady
       ELSE /\ aim' = DialogControl(op.ad)
            /\ step' = "aimed" /\ steady' = TRUE
            /\ snap' = None
            /\ UNCHANGED <<op, expect, prior, seen, outcome>>
    /\ UNCHANGED <<platform, tab, ops, moves, history>>

Submitting == {"save", "publish", "toggle", "delete"}

\* What a click does at once to the document; the rest the platform does.
Hit(c) ==
    CASE c = None -> UNCHANGED <<doc, inflight, sent>>
      [] c # None /\ c.kind = "next" ->
            /\ doc' = [doc EXCEPT !.asked = IF @ < LastPage THEN @ + 1 ELSE 1]
            /\ UNCHANGED <<inflight, sent>>
      [] c # None /\ c.kind = "dialog" ->
            /\ doc' = [doc EXCEPT !.dialog = c.ad]
            /\ UNCHANGED <<inflight, sent>>
      [] OTHER ->
            /\ inflight' = inflight \union {c}
            /\ sent' = Append(sent, c)
            /\ UNCHANGED doc

\* On a document that has moved a click hits whatever lies there.
Target == IF steady THEN {aim} ELSE Controls(doc) \union {None}

AfterClick ==
    CASE aim.kind = "next"    -> "opening"
      [] aim.kind = "dialog"  -> "waiting"
      [] OTHER                -> "clicked"

\* Variant: no reply to a click means no click.
ClickFailedSafely == "not_attempted"

ClickFailed == IF aim.kind = "next" THEN "not_attempted" ELSE "unknown"

\* _dispatch_browser_click: press and release.  A create does not wait for
\* what comes of it.
Click ==
    /\ step = "aimed"
    /\ \E c \in Target : Hit(c)
    /\ astray' = (astray \/ ~steady)
    /\ Moved
    /\ IF aim.kind = "publish" THEN EndAs("done")
       ELSE /\ step' = AfterClick /\ aim' = None
            /\ UNCHANGED <<op, snap, expect, prior, seen, outcome>>
    /\ UNCHANGED <<ads, coming, ops, moves, held, texts>>

\* The press or the release fails; the click may have happened.
ClickFails ==
    /\ step = "aimed"
    /\ \E c \in Target \union {None} : Hit(c)
    /\ astray' = (astray \/ ~steady)
    /\ Moved
    /\ EndAs(ClickFailed)
    /\ UNCHANGED <<ads, coming, ops, moves, held, texts>>

-----------------------------------------------------------------------------
(* Waiting for what comes of a click.                                      *)

DialogSeen ==
    /\ step = "waiting"
    /\ ConfirmationSnapshot.state = "ready"
    /\ step' = "confirming"
    /\ UNCHANGED <<Page, op, snap, expect, prior, seen, aim, outcome>>

\* read_delete_confirmation
ReadConfirmation ==
    /\ step = "confirming"
    /\ IF ConfirmationSnapshot.state = "ready"
       THEN /\ snap' = ConfirmationSnapshot /\ step' = "checked"
            /\ UNCHANGED <<op, expect, prior, seen, aim, outcome>>
       ELSE EndAs("not_attempted")
    /\ UNCHANGED Page

\* Variant: any rendered list will do.
SettledAnywhere ==
    CASE op.kind = "update" -> doc.place = "list"
      [] op.kind = "state"  -> StateSnapshot.state = "ready"
      [] OTHER              -> doc.dialog = None

Settled ==
    CASE op.kind = "update" -> doc.place = "list"
      [] op.kind = "state"  -> StateSnapshot = Ready(op.goal)
      [] OTHER              -> doc.dialog = None

Settles ==
    /\ step = "clicked" /\ Settled
    /\ EndAs("done")
    /\ UNCHANGED Page

\* The deadline passes; the content page also gives up at once on a failed
\* call and on any other place.
DoesNotSettle ==
    /\ step \in {"waiting", "clicked"}
    /\ EndAs("unknown")
    /\ UNCHANGED Page

-----------------------------------------------------------------------------

Init ==
    /\ ads = [a \in Ads |-> [state |-> "active", title |-> "old", text |-> "old"]]
    /\ inflight = {}
    /\ doc = Plain("elsewhere") /\ coming = {}
    /\ op = None /\ step = "idle" /\ snap = None /\ expect = None
    /\ prior = {} /\ seen = {} /\ aim = None /\ steady = FALSE
    /\ outcome = "none"
    /\ ops = 0 /\ moves = 0
    /\ sent = <<>> /\ astray = FALSE /\ held = FALSE /\ texts = {}

Drive ==
    \/ Opened \/ SeekNextPage \/ ChooseCategory
    \/ ReadBefore \/ (\E f \in {"title", "text"} : FillField(f)) \/ ReadBeforeSubmit
    \/ AimAtSubmit \/ AimAtDialog \/ Click \/ ClickFails
    \/ DialogSeen \/ ReadConfirmation \/ Settles
    \/ FailsEarly \/ DoesNotSettle

Surroundings ==
    \/ \E c \in inflight : Process(c)
    \/ \E a \in Ads : ElsewhereChange(a)
    \/ \E n \in coming : Arrive(n)
    \/ Render \/ Shift \/ Interfere

Next == Drive \/ Surroundings \/ \E o \in Operation : Begin(o)

PageSpec == Init /\ [][Next]_vars

\* A call returns or times out, and a loop that waits looks at its deadline.
PageFairSpec == PageSpec /\ WF_vars(Drive)

-----------------------------------------------------------------------------
(* Properties                                                              *)

\* Types of the platform, the tab and the two operations in it.
PageTypeOK ==
    /\ ads \in [Ads -> [state : {"active", "paused", "gone"}, title : {"old", "new"},
                        text : {"old", "new", "other", "typed"}]]
    /\ step \in {"idle", "opening", "continued", "opened", "filling", "read",
                 "confirming", "checked", "aimed", "waiting", "clicked"}
    /\ op # None => op \in Operation
    /\ aim # None <=> step = "aimed"
    /\ snap # None => step \in {"filling", "read", "checked"}
    /\ outcome \in {"none", "done", "not_attempted", "unknown"}
    /\ outcome = "none" \/ Idle
    /\ doc.dialog # None => doc.place = "list"
    /\ ops \in 0 .. MaxOps /\ moves \in 0 .. MaxMoves

Attempted ==
    IF astray THEN "astray"
    ELSE IF sent = <<>> THEN "none"
    ELSE IF Len(sent) = 1 THEN "submitted" ELSE "repeated"

Attempt == INSTANCE WriteAttempt WITH running <- ~Idle, attempt <- Attempted

\* Each operation implements WriteAttempt: it submits once at most, and says
\* "not_attempted" only if it did not.  Polling, paging and filling submit
\* nothing, and no failure after the submit is taken for one before it.
MakesOneAttempt == Attempt!Spec

\* What is submitted is what was asked for, at the ad it was asked for, with
\* the form as it was checked, unless the document moved between the look at
\* it and the click.
SubmitsWhatItChecked ==
    ~astray => \A i \in DOMAIN sent :
        /\ sent[i].ad = op.ad
        /\ CASE op.kind = "update" -> sent[i].kind = "save" /\ sent[i].form.title = "new"
             [] op.kind = "create" -> sent[i].kind = "publish" /\ sent[i].form = Requested
             [] op.kind = "state"  -> sent[i].kind = "toggle" /\ sent[i].goal = op.goal
             [] OTHER              -> sent[i].kind = "delete"

\* A content update writes the whole form.  The text it was not asked to
\* change is one that the ad has had since the update began, or that a person
\* typed into the form: never one left over from an earlier document.
SavesNoStaleText ==
    ~astray => \A i \in DOMAIN sent :
        sent[i].kind = "save" => sent[i].form.text \in texts \union {"typed"}

\* "done" is the truth when the writer found nothing to do, and for a state
\* also after its click: the goal has held at some time since it began.
DoneWasTrue ==
    /\ outcome = "done"
    /\ \/ op.kind = "state"
       \/ op.kind = "update" /\ sent = <<>> /\ ~astray
    => held

\* Every operation comes to an end, although each page of the list gets a
\* deadline of its own and a broken pager may lead in circles.
OperationEnds == ~Idle ~> Idle
=============================================================================
