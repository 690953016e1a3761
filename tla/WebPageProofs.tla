--------------------------- MODULE WebPageProofs ---------------------------
(***************************************************************************)
(* Proofs about WebPage, for any ads, any placement of them on the list,   *)
(* and any number of operations and of changes by others.                  *)
(*                                                                         *)
(* AttemptInv is enough to show that an operation implements WriteAttempt. *)
(* PageInv also says what the driver knows of the document at each step:   *)
(* the document is a new one, the form and the dialog in it are those of   *)
(* its ad, and what it is about to click is what it was asked for.         *)
(***************************************************************************)
EXTENDS WebPage, TLAPS

\* Before the click of the submit control nothing was submitted.
AttemptInv ==
    /\ ~Idle => outcome = "none"
    /\ ~astray =>
          /\ step \notin {"idle", "clicked"} => sent = <<>>
          /\ sent = <<>> \/ sent = <<sent[1]>>

-----------------------------------------------------------------------------
(* What there is in the tab.                                               *)

Titles == {"", "old", "new"}
Texts == {"", "old", "new", "other", "typed"}
Forms == [title : Titles, text : Texts]
EditorForms == [title : {"old", "new"}, text : {"old", "new", "other", "typed"}]

Documents ==
    [place : {"elsewhere", "list", "editor", "form", "choose", "gate"},
     ad : Ads \union {None}, form : Forms, page : Nat, asked : Nat,
     shown : [Ads -> {"active", "paused", "gone"}], dialog : Ads \union {None},
     old : BOOLEAN]

Navigations ==
    [place : {"list", "choose", "form"}, ad : {None}]
    \union [place : {"editor"}, ad : Ads]

Clicks ==
    [kind : {"save"}, ad : Ads, goal : {"none"}, form : EditorForms]
    \union [kind : {"publish"}, ad : {None}, goal : {"none"}, form : Forms]
    \union [kind : {"toggle"}, ad : Ads, goal : {"active", "paused"}, form : Forms]
    \union [kind : {"delete"}, ad : Ads, goal : {"none"}, form : Forms]

TabInv ==
    /\ ads \in [Ads -> [state : {"active", "paused", "gone"}, title : {"old", "new"},
                        text : {"old", "new", "other", "typed"}]]
    /\ inflight \subseteq Clicks
    /\ doc \in Documents
    /\ doc.place = "editor" => doc.ad \in Ads /\ doc.form \in EditorForms
    /\ coming \subseteq Navigations
    /\ steady \in BOOLEAN /\ astray \in BOOLEAN /\ held \in BOOLEAN

-----------------------------------------------------------------------------
(* What the driver has come to.                                            *)

\* The control is one for what the operation wants; its ad is another matter.
Asked(c) ==
    CASE op.kind = "update" -> c.kind = "save" /\ c.ad = op.ad /\ c.form.title = "new"
      [] op.kind = "create" -> c.kind = "publish" /\ c.ad = op.ad /\ c.form = Requested
      [] op.kind = "state"  -> c.kind = "toggle" /\ c.ad = op.ad /\ c.goal = op.goal
      [] OTHER              -> c.kind = "delete"

\* The form that is to be submitted is one the operation may submit.
ExpectsRightForm ==
    /\ op.kind \in {"update", "create"}
    /\ expect \in EditorForms
    /\ op.kind = "update" => expect.title = "new" /\ expect.text \in texts \union {"typed"}
    /\ op.kind = "create" => expect = Requested

AimsRight ==
    \/ aim = NextControl /\ op.kind \in {"state", "delete"}
    \/ aim = DialogControl(op.ad) /\ op.kind = "delete"
    \/ /\ aim \in Clicks /\ aim # None /\ Asked(aim)
       /\ ~astray => aim.ad = op.ad
       /\ aim.kind = "save" => aim.form.text \in texts \union {"typed"}

StepInv ==
    /\ ~Idle => op \in Operation
    /\ step = "continued" => op.kind = "create"
    /\ step = "filling" => ExpectsRightForm /\ snap \in [state : {"ready"}, data : Forms]
    /\ step = "read" => op.kind \in {"state", "delete"}
    /\ step \in {"confirming", "waiting"} => op.kind = "delete"
    /\ step = "checked" /\ op.kind \in {"update", "create"} =>
          ExpectsRightForm /\ snap = Ready(expect)
    /\ step = "aimed" => AimsRight

\* The driver works on a document that its own operation has opened.
FreshInv == step \notin {"idle", "opening"} => ~doc.old

\* No dialog is open but the one for the ad that shall be deleted.
DialogInv ==
    ~astray /\ step \in {"waiting", "confirming", "checked"} /\ op.kind = "delete" =>
        doc.dialog \in {None, op.ad}

OwnEditor == doc.place = "editor" /\ doc.ad = op.ad /\ ~doc.old

\* A text in the editor is one that the ad has had, or was typed.
TextInv ==
    ~Idle /\ op.kind = "update" =>
        /\ ads[op.ad].text \in texts
        /\ OwnEditor => doc.form.text \in texts \union {"typed"}

\* What the new document shows of the goal was true of the platform.
HeldInv ==
    ~Idle =>
        /\ Holds(op, ads) => held
        /\ op.kind = "update" /\ step \in {"opening", "opened"} /\ OwnEditor
              => (doc.form.title = "new" => held)
        /\ op.kind = "state" /\ doc.place = "list" /\ ~doc.old
              => (doc.shown[op.ad] = op.goal => held)

\* What was submitted, when no click went astray.
SentInv ==
    ~astray =>
        /\ step = "clicked" => sent # <<>>
        /\ sent # <<>> =>
              /\ Asked(sent[1])
              /\ sent[1].ad = op.ad
              /\ sent[1].kind = "save" => sent[1].form.text \in texts \union {"typed"}

Knows == TabInv /\ StepInv /\ FreshInv /\ DialogInv /\ TextInv /\ HeldInv

PageInv == AttemptInv /\ Knows /\ SentInv /\ DoneWasTrue

-----------------------------------------------------------------------------
(* One attempt.                                                            *)

\* An operation goes on without a click.
GoesOn == step \notin {"idle", "clicked"} /\ ~Idle' /\ step' # "clicked"
          /\ UNCHANGED <<sent, astray, outcome>>

\* It keeps AttemptInv, and nothing of it is seen from outside.
LEMMA GoingOn ==
  ASSUME AttemptInv, GoesOn
  PROVE  AttemptInv' /\ [Attempt!Next]_(Attempt!attemptVars)
<1>1. UNCHANGED Attempt!attemptVars
  BY DEF GoesOn, Idle, Attempted, Attempt!attemptVars
<1>. QED
  BY <1>1 DEF GoesOn, AttemptInv, Idle

\* Without a click an operation ends as it may: "not_attempted" only before
\* the submit control was clicked.
LEMMA EndingQuietly ==
  ASSUME AttemptInv, ~Idle, UNCHANGED <<sent, astray>>, NEW result, EndAs(result),
         result \in {"done", "unknown"} \/ (result = "not_attempted" /\ step # "clicked")
  PROVE  AttemptInv' /\ [Attempt!Next]_(Attempt!attemptVars)
<1>1. Attempted' = Attempted /\ Idle'
  BY DEF EndAs, Attempted, Idle
<1>2. result = "not_attempted" => Attempted # "submitted"
  BY DEF AttemptInv, Attempted, Idle
<1>3. Attempt!End
  BY <1>1, <1>2 DEF EndAs, Attempt!End, Attempt!Click
<1>. QED
  BY <1>1, <1>3 DEF EndAs, AttemptInv, Attempt!Next, Idle

\* A click: the first one, or one that goes astray.
LEMMA Clicking ==
  ASSUME AttemptInv, step = "aimed", NEW c, Hit(c), c \in Target \/ c = None,
         astray' = (astray \/ ~steady)
  PROVE  /\ ~astray' => /\ sent' = <<>> \/ sent' = <<sent'[1]>>
                        /\ aim.kind \in {"next", "dialog"} => sent' = <<>>
         /\ Attempt!Click
         /\ aim.kind = "next" => Attempted' # "submitted"
<1>1. CASE astray'
  BY <1>1 DEF Attempted, Attempt!Click
<1>2. CASE ~astray'
  <2>1. sent = <<>> /\ c \in {aim, None} /\ ~astray
    BY <1>2 DEF AttemptInv, Target
  <2>2. sent' = <<>> \/ (sent' = <<c>> /\ c.kind \notin {"next", "dialog"})
    BY <2>1 DEF Hit
  <2>3. aim.kind \in {"next", "dialog"} => sent' = <<>>
    BY <2>1, <2>2 DEF Hit
  <2>. QED
    BY <1>2, <2>1, <2>2, <2>3 DEF Attempted, Attempt!Click
<1>. QED
  BY <1>1, <1>2

LEMMA AttemptStep ==
  ASSUME AttemptInv, [Next]_vars
  PROVE  AttemptInv' /\ [Attempt!Next]_(Attempt!attemptVars)
<1> USE DEF Page, history, Idle
<1>1. CASE Opened
  BY <1>1, GoingOn DEF Opened, GoesOn
<1>2. CASE SeekNextPage
  <2>1. GoesOn \/ EndAs("not_attempted")
    BY <1>2 DEF SeekNextPage, GoesOn
  <2>. QED
    BY <1>2, <2>1, GoingOn, EndingQuietly DEF SeekNextPage
<1>3. CASE ChooseCategory
  BY <1>3, GoingOn DEF ChooseCategory, GoesOn
<1>4. CASE ReadBefore
  <2>1. GoesOn \/ EndAs("not_attempted") \/ EndAs("done")
    BY <1>4 DEF ReadBefore, GoesOn
  <2>. QED
    BY <1>4, <2>1, GoingOn, EndingQuietly DEF ReadBefore
<1>5. ASSUME NEW f \in {"title", "text"}, FillField(f)
      PROVE  AttemptInv' /\ [Attempt!Next]_(Attempt!attemptVars)
  <2>1. GoesOn \/ EndAs("not_attempted") \/ EndAs("unknown")
    BY <1>5 DEF FillField, GoesOn, EarlyFailure
  <2>. QED
    BY <1>5, <2>1, GoingOn, EndingQuietly DEF FillField
<1>6. CASE ReadBeforeSubmit
  <2>1. GoesOn \/ EndAs("not_attempted") \/ EndAs("done")
    BY <1>6 DEF ReadBeforeSubmit, GoesOn
  <2>. QED
    BY <1>6, <2>1, GoingOn, EndingQuietly DEF ReadBeforeSubmit
<1>7. CASE AimAtSubmit
  <2>1. GoesOn \/ EndAs("not_attempted") \/ EndAs("unknown")
    BY <1>7 DEF AimAtSubmit, GoesOn, EarlyFailure
  <2>. QED
    BY <1>7, <2>1, GoingOn, EndingQuietly DEF AimAtSubmit
<1>8. CASE AimAtDialog
  <2>1. GoesOn \/ EndAs("not_attempted")
    BY <1>8 DEF AimAtDialog, GoesOn
  <2>. QED
    BY <1>8, <2>1, GoingOn, EndingQuietly DEF AimAtDialog
<1>9. CASE Click
  <2>1. PICK c \in Target : Hit(c)
    BY <1>9 DEF Click
  <2>2. step = "aimed" /\ astray' = (astray \/ ~steady)
    BY <1>9 DEF Click
  <2>3. /\ ~astray' => /\ sent' = <<>> \/ sent' = <<sent'[1]>>
                       /\ aim.kind \in {"next", "dialog"} => sent' = <<>>
        /\ Attempt!Click
    BY <2>1, <2>2, Clicking
  <2>4. CASE aim.kind = "publish"
    <3>1. step' = "idle" /\ outcome' = "done"
      BY <1>9, <2>4 DEF Click, EndAs
    <3>2. Attempt!End
      BY <2>2, <2>3, <3>1 DEF Attempt!End
    <3>. QED
      BY <2>3, <3>1, <3>2 DEF Attempt!Next, AttemptInv
  <2>5. CASE aim.kind # "publish"
    <3>1. step' = AfterClick /\ UNCHANGED outcome
      BY <1>9, <2>5 DEF Click
    <3>2. ~Idle' /\ (aim.kind \in {"next", "dialog"} \/ step' = "clicked")
      BY <3>1 DEF AfterClick
    <3>3. Attempt!Act
      BY <2>2, <2>3, <3>1, <3>2 DEF Attempt!Act
    <3>. QED
      BY <2>2, <2>3, <3>1, <3>2, <3>3 DEF Attempt!Next, AttemptInv
  <2>. QED
    BY <2>4, <2>5
<1>10. CASE ClickFails
  <2>1. PICK c \in Target \union {None} : Hit(c)
    BY <1>10 DEF ClickFails
  <2>2. /\ step = "aimed" /\ astray' = (astray \/ ~steady)
        /\ step' = "idle" /\ outcome' = ClickFailed
    BY <1>10 DEF ClickFails, EndAs
  <2>3. /\ ~astray' => sent' = <<>> \/ sent' = <<sent'[1]>>
        /\ Attempt!Click
        /\ aim.kind = "next" => Attempted' # "submitted"
    BY <2>1, <2>2, Clicking
  <2>4. Attempt!End
    BY <2>2, <2>3 DEF Attempt!End, ClickFailed
  <2>. QED
    BY <2>2, <2>3, <2>4 DEF Attempt!Next, AttemptInv
<1>11. CASE DialogSeen
  BY <1>11, GoingOn DEF DialogSeen, GoesOn
<1>12. CASE ReadConfirmation
  <2>1. GoesOn \/ EndAs("not_attempted")
    BY <1>12 DEF ReadConfirmation, GoesOn
  <2>. QED
    BY <1>12, <2>1, GoingOn, EndingQuietly DEF ReadConfirmation
<1>13. CASE Settles
  BY <1>13, EndingQuietly DEF Settles
<1>14. CASE FailsEarly
  <2>1. EndAs("not_attempted") \/ EndAs("unknown")
    BY <1>14 DEF FailsEarly, EarlyFailure
  <2>. QED
    BY <1>14, <2>1, EndingQuietly DEF FailsEarly
<1>15. CASE DoesNotSettle
  BY <1>15, EndingQuietly DEF DoesNotSettle
<1>16. CASE Surroundings \/ UNCHANGED vars
  <2>1. UNCHANGED <<step, outcome, sent, astray>>
    BY <1>16 DEF Surroundings, Process, ElsewhereChange, Arrive, Render, Shift, Interfere,
       driver, vars
  <2>. QED
    BY <2>1 DEF AttemptInv, Attempted, Attempt!attemptVars
<1>17. ASSUME NEW o \in Operation, Begin(o)
       PROVE  AttemptInv' /\ [Attempt!Next]_(Attempt!attemptVars)
  <2>1. /\ step = "idle" /\ step' = "opening" /\ outcome' = "none"
        /\ sent' = <<>> /\ astray' = FALSE
    BY <1>17 DEF Begin
  <2>2. Attempt!Begin
    BY <2>1 DEF Attempt!Begin, Attempted
  <2>. QED
    BY <2>1, <2>2 DEF Attempt!Next, AttemptInv
<1>. QED
  BY <1>1, <1>2, <1>3, <1>4, <1>5, <1>6, <1>7, <1>8, <1>9, <1>10, <1>11, <1>12, <1>13,
     <1>14, <1>15, <1>16, <1>17 DEF Next, Drive

\* Every operation of a writer implements WriteAttempt: it submits at most
\* once, and no failure after the submit is reported as "not_attempted",
\* for any number of ads, operations and changes by others.
THEOREM OneAttempt == PageSpec => MakesOneAttempt
<1>1. Init => AttemptInv /\ Attempt!Init
  BY DEF Init, AttemptInv, Attempt!Init, Attempted, Idle
<1>. QED
  BY <1>1, AttemptStep, PTL DEF PageSpec, MakesOneAttempt, Attempt!Spec

-----------------------------------------------------------------------------
(* The documents that the site serves, and what the driver reads in them.  *)

LEMMA PlainDoc ==
  ASSUME NEW place \in {"elsewhere", "list", "editor", "form", "choose", "gate"}
  PROVE  /\ Plain(place) \in Documents
         /\ Plain(place).place = place /\ Plain(place).dialog = None
         /\ Plain(place).old = FALSE
BY DEF Plain, Documents, Form, Forms, Titles, Texts

LEMMA ListDoc ==
  ASSUME TabInv, NEW p \in Nat
  PROVE  /\ ListPage(p) \in Documents
         /\ ListPage(p).place = "list" /\ ListPage(p).dialog = None
         /\ ListPage(p).old = FALSE
         /\ \A a \in Ads : ListPage(p).shown[a] \in {ads[a].state, "gone"}
<1>1. Shown(p) \in [Ads -> {"active", "paused", "gone"}]
  BY DEF TabInv, Shown
<1>2. \A a \in Ads : Shown(p)[a] \in {ads[a].state, "gone"}
  BY DEF Shown
<1>3. Plain("list") \in Documents /\ Plain("list").place = "list"
      /\ Plain("list").dialog = None /\ Plain("list").old = FALSE
  BY PlainDoc
<1>4. /\ ListPage(p) \in Documents
      /\ ListPage(p).place = "list" /\ ListPage(p).dialog = None
      /\ ListPage(p).old = FALSE /\ ListPage(p).shown = Shown(p)
  BY <1>1, <1>3 DEF ListPage, Documents
<1>. QED
  BY <1>2, <1>4

LEMMA EditorDoc ==
  ASSUME TabInv, NEW a \in Ads
  PROVE  /\ Editor(a) \in Documents
         /\ Editor(a).place \in {"editor", "elsewhere"} /\ Editor(a).dialog = None
         /\ Editor(a).old = FALSE
         /\ Editor(a).place = "editor" =>
               /\ Editor(a).ad = a
               /\ Editor(a).form = Form(ads[a].title, ads[a].text)
               /\ Editor(a).form \in EditorForms
<1>1. CASE ads[a].state = "gone"
  BY <1>1, PlainDoc DEF Editor
<1>2. CASE ads[a].state # "gone"
  <2>1. Editor(a) = [place |-> "editor", ad |-> a, form |-> Form(ads[a].title, ads[a].text),
                     page |-> 0, asked |-> 0, shown |-> [b \in Ads |-> "gone"],
                     dialog |-> None, old |-> FALSE]
    BY <1>2 DEF Editor, Plain
  <2>2. Form(ads[a].title, ads[a].text) \in EditorForms
    BY DEF TabInv, EditorForms, Form
  <2>3. EditorForms \subseteq Forms
    BY DEF EditorForms, Forms, Titles, Texts
  <2>4. [b \in Ads |-> "gone"] \in [Ads -> {"active", "paused", "gone"}]
    OBVIOUS
  <2>. QED
    BY <2>1, <2>2, <2>3, <2>4 DEF Documents
<1>. QED
  BY <1>1, <1>2

\* A navigation that arrives.
LEMMA ServedDoc ==
  ASSUME TabInv, NEW n \in Navigations
  PROVE  /\ Served(n) \in Documents
         /\ Served(n).dialog = None /\ Served(n).old = FALSE
         /\ Served(n).place = "editor" =>
               /\ Served(n).ad \in Ads
               /\ Served(n).form = Form(ads[Served(n).ad].title, ads[Served(n).ad].text)
               /\ Served(n).form \in EditorForms
         /\ Served(n).place = "list" =>
               \A a \in Ads : Served(n).shown[a] \in {ads[a].state, "gone"}
<1>1. CASE n.place = "editor"
  <2>1. n.ad \in Ads /\ Served(n) = Editor(n.ad)
    BY <1>1 DEF Navigations, Served
  <2>. QED
    BY <2>1, EditorDoc
<1>2. CASE n.place = "list"
  <2>1. Served(n) = ListPage(1) /\ 1 \in Nat
    BY <1>2 DEF Served
  <2>2. /\ ListPage(1) \in Documents
        /\ ListPage(1).place = "list" /\ ListPage(1).dialog = None
        /\ ListPage(1).old = FALSE
        /\ \A a \in Ads : ListPage(1).shown[a] \in {ads[a].state, "gone"}
    BY <2>1, ListDoc
  <2>. QED
    BY <2>1, <2>2
<1>3. CASE n.place \in {"choose", "form"}
  <2>1. Served(n) = Plain(n.place)
    BY <1>3 DEF Served
  <2>. QED
    BY <1>3, <2>1, PlainDoc
<1>. QED
  BY <1>1, <1>2, <1>3 DEF Navigations

LEMMA ControlKinds ==
  /\ NextControl.kind = "next"
  /\ \A a : DialogControl(a).kind = "dialog" /\ DialogControl(a).ad = a
  /\ \A c \in Clicks : c.kind \in Submitting
BY DEF NextControl, DialogControl, Control, Clicks, Submitting

LEMMA OperationFacts ==
  ASSUME NEW o \in Operation
  PROVE  /\ o.kind \in {"update", "delete", "state", "create"}
         /\ o.kind # "create" => o.ad \in Ads
         /\ o.kind = "create" => o.ad = None
         /\ o.kind = "state" => o.goal \in {"active", "paused"}
BY WebPageConstants DEF Operation

LEMMA SnapshotFacts ==
  ASSUME TabInv, op \in Operation
  PROVE  /\ Snapshot.state # "ready" => Snapshot = NotReady
         /\ Snapshot.state = "ready" =>
               /\ op.kind = "update" =>
                     /\ doc.place = "editor" /\ doc.ad = op.ad
                     /\ doc.form \in EditorForms /\ Snapshot = Ready(doc.form)
               /\ op.kind = "create" =>
                     /\ doc.place = "form"
                     /\ doc.form \in Forms /\ Snapshot = Ready(doc.form)
               /\ op.kind = "state" =>
                     /\ doc.place = "list" /\ Snapshot = Ready(doc.shown[op.ad])
               /\ op.kind = "delete" => doc.dialog = None /\ Snapshot = Ready(op.ad)
<1>1. op.kind \in {"update", "delete", "state", "create"} /\ doc.form \in Forms
  BY OperationFacts DEF TabInv, Documents
<1>. QED
  BY <1>1 DEF Snapshot, EditorSnapshot, CreateSnapshot, StateSnapshot, DeleteSnapshot,
     Ready, NotReady, TabInv

\* The control that the page returns for the submit is the right one.
LEMMA SubmitControlFacts ==
  ASSUME TabInv, StepInv, DialogInv, step = "checked", SubmitControl # None
  PROVE  /\ SubmitControl \in Clicks /\ Asked(SubmitControl)
         /\ ~astray => SubmitControl.ad = op.ad
         /\ SubmitControl.kind = "save" => SubmitControl.form.text \in texts \union {"typed"}
<1>1. op \in Operation
  BY DEF StepInv, Idle
<1> USE DEF Clicks, Asked, Control, Form, Forms, Titles, Texts
<1>2. CASE op.kind = "update"
  <2>1. ExpectsRightForm /\ snap = Ready(expect) /\ op.ad \in Ads
    BY <1>1, <1>2, OperationFacts DEF StepInv
  <2>2. SubmitControl = Control("save", op.ad, "none", expect)
    BY <1>2, <2>1 DEF SubmitControl, Ready
  <2>. QED
    BY <1>2, <2>1, <2>2 DEF ExpectsRightForm
<1>3. CASE op.kind = "create"
  <2>1. ExpectsRightForm /\ snap = Ready(expect) /\ op.ad = None
    BY <1>1, <1>3, OperationFacts DEF StepInv
  <2>2. SubmitControl = Control("publish", None, "none", Requested)
    BY <1>3, <2>1 DEF SubmitControl, Ready, ExpectsRightForm
  <2>. QED
    BY <1>3, <2>1, <2>2 DEF Requested
<1>4. CASE op.kind = "state"
  <2>1. op.ad \in Ads /\ op.goal \in {"active", "paused"}
    BY <1>1, <1>4, OperationFacts
  <2>2. SubmitControl = Control("toggle", op.ad, op.goal, Form("", ""))
    BY <1>4 DEF SubmitControl
  <2>. QED
    BY <1>4, <2>1, <2>2
<1>5. CASE op.kind = "delete"
  <2>1. SubmitControl = Control("delete", doc.dialog, "none", Form("", ""))
        /\ doc.dialog # None
    BY <1>5 DEF SubmitControl, ConfirmationSnapshot, Ready, NotReady
  <2>2. doc.dialog \in Ads
    BY <2>1 DEF TabInv, Documents
  <2>3. ~astray => doc.dialog = op.ad
    BY <1>5, <2>1 DEF DialogInv
  <2>. QED
    BY <1>5, <2>1, <2>2, <2>3
<1>. QED
  BY <1>1, <1>2, <1>3, <1>4, <1>5, OperationFacts

-----------------------------------------------------------------------------
(* Clicks and the tab.                                                     *)

\* Whatever a click hits, the document stays the same one.
LEMMA HitFacts ==
  ASSUME TabInv, StepInv, step = "aimed", NEW c \in Target \union {None}, Hit(c)
  PROVE  /\ doc' \in Documents /\ inflight' \subseteq Clicks
         /\ doc'.place = doc.place /\ doc'.ad = doc.ad /\ doc'.form = doc.form
         /\ doc'.shown = doc.shown /\ doc'.old = doc.old
         /\ c # None /\ c.kind = "dialog" => doc'.dialog = c.ad
<1>1. AimsRight /\ op \in Operation
  BY DEF StepInv, Idle
<1>2. op.kind = "delete" => op.ad \in Ads
  BY <1>1, OperationFacts
<1>3. c \in Controls(doc) \union {None} =>
        \/ c \in Clicks \union {None, NextControl}
        \/ \E a \in Ads : c = DialogControl(a)
  <2>1. ASSUME c \in Controls(doc), doc.place = "editor"
        PROVE  c \in Clicks
    BY <2>1 DEF Controls, Clicks, Control, DialogControl, TabInv
  <2>2. ASSUME c \in Controls(doc), doc.place = "form"
        PROVE  c \in Clicks
    BY <2>2 DEF Controls, Clicks, Control, DialogControl, TabInv, Documents
  <2>3. ASSUME c \in Controls(doc), doc.place = "list", doc.dialog # None
        PROVE  c \in Clicks
    <3>1. c = Control("delete", doc.dialog, "none", Form("", "")) /\ doc.dialog \in Ads
      BY <2>3 DEF Controls, TabInv, Documents
    <3>. QED
      BY <3>1 DEF Clicks, Control, DialogControl, Form, Forms, Titles, Texts
  <2>4. ASSUME c \in Controls(doc), doc.place = "list", doc.dialog = None
        PROVE  \/ c \in Clicks \union {NextControl}
               \/ \E a \in Ads : c = DialogControl(a)
    <3>1. \/ c = NextControl
          \/ \E a \in Ads : c = DialogControl(a)
          \/ \E a \in Ads, goal \in {"active", "paused"} :
                c = Control("toggle", a, goal, Form("", ""))
      BY <2>4 DEF Controls, Listed
    <3>2. \A a \in Ads, goal \in {"active", "paused"} :
             Control("toggle", a, goal, Form("", "")) \in Clicks
      BY DEF Clicks, Control, DialogControl, Form, Forms, Titles, Texts
    <3>. QED
      BY <3>1, <3>2
  <2>5. c \in Controls(doc) => doc.place \in {"editor", "form", "list"}
    BY DEF Controls
  <2>. QED
    BY <2>1, <2>2, <2>3, <2>4, <2>5
<1>4. \/ c \in Clicks \union {None, NextControl}
      \/ \E a \in Ads : c = DialogControl(a)
  BY <1>1, <1>2, <1>3 DEF AimsRight, Target
<1>5. CASE c = None
  BY <1>5 DEF Hit, TabInv
<1>6. CASE c # None /\ c = NextControl
  <2>1. c.kind = "next"
    BY <1>6 DEF NextControl, Control, DialogControl
  <2>2. doc' = [doc EXCEPT !.asked = IF @ < LastPage THEN @ + 1 ELSE 1]
        /\ inflight' = inflight
    BY <1>6, <2>1 DEF Hit
  <2>. QED
    BY <2>1, <2>2, WebPageConstants DEF TabInv, Documents
<1>7. ASSUME c # None, NEW a \in Ads, c = DialogControl(a)
      PROVE  /\ doc' \in Documents /\ inflight' \subseteq Clicks
             /\ doc'.place = doc.place /\ doc'.ad = doc.ad /\ doc'.form = doc.form
             /\ doc'.shown = doc.shown /\ doc'.old = doc.old
             /\ doc'.dialog = c.ad
  <2>1. c.kind = "dialog" /\ c.ad \in Ads
    BY <1>7 DEF Control, DialogControl
  <2>2. doc' = [doc EXCEPT !.dialog = c.ad] /\ inflight' = inflight
    BY <1>7, <2>1 DEF Hit
  <2>. QED
    BY <2>1, <2>2 DEF TabInv, Documents
<1>8. CASE c # None /\ c \in Clicks
  <2>1. c.kind \notin {"next", "dialog"}
    BY <1>8 DEF Clicks
  <2>2. inflight' = inflight \union {c} /\ doc' = doc
    BY <1>8, <2>1 DEF Hit
  <2>. QED
    BY <1>8, <2>1, <2>2 DEF TabInv
<1>. QED
  BY <1>4, <1>5, <1>6, <1>7, <1>8

\* What others do leaves the driver alone and only adds to its histories.
LEMMA SurroundingsFacts ==
  ASSUME TabInv, Surroundings
  PROVE  /\ UNCHANGED <<driver, sent, astray>>
         /\ texts \subseteq texts' /\ (held => held')
         /\ Idle => UNCHANGED <<texts, held>>
         /\ ~Idle => /\ op.ad # None => ads'[op.ad].text \in texts' \/ UNCHANGED <<ads, texts>>
                     /\ Holds(op, ads') => held' \/ UNCHANGED <<ads, held>>
BY DEF Surroundings, Process, ElsewhereChange, Arrive, Render, Shift, Interfere, Observe,
   platform, history, driver, TabInv, Idle

LEMMA TabStep ==
  ASSUME TabInv, StepInv, [Next]_vars
  PROVE  TabInv'
<1> USE DEF Page, history, tab, platform
<1>1. ASSUME NEW c \in inflight, Process(c) PROVE TabInv'
  <2>1. c \in Clicks
    BY DEF TabInv
  <2>2. ads' \in [Ads -> [state : {"active", "paused", "gone"}, title : {"old", "new"},
                         text : {"old", "new", "other", "typed"}]]
    BY <1>1, <2>1 DEF Process, TabInv, Clicks, EditorForms
  <2>3. coming' \subseteq Navigations
    BY <1>1 DEF Process, TabInv, Navigations
  <2>4. doc' \in Documents /\ (doc'.place = "editor" => doc'.ad \in Ads /\ doc'.form \in EditorForms)
    <3>1. doc' = doc \/ doc' = [doc EXCEPT !.dialog = None] \/ doc' = Plain("elsewhere")
      BY <1>1 DEF Process
    <3>2. Plain("elsewhere") \in Documents /\ Plain("elsewhere").place = "elsewhere"
      BY PlainDoc
    <3>. QED
      BY <3>1, <3>2 DEF TabInv, Documents
  <2>. QED
    BY <1>1, <2>2, <2>3, <2>4 DEF Process, Moved, Observe, TabInv, Holds
<1>2. ASSUME NEW a \in Ads, ElsewhereChange(a) PROVE TabInv'
  BY <1>2 DEF ElsewhereChange, Observe, Holds, TabInv
<1>3. ASSUME NEW n \in coming, Arrive(n) PROVE TabInv'
  <2>1. n \in Navigations
    BY DEF TabInv
  <2>. QED
    BY <1>3, <2>1, ServedDoc DEF Arrive, Moved, TabInv
<1>4. CASE Render
  <2>1. doc.asked \in Nat /\ doc.old \in BOOLEAN
    BY DEF TabInv, Documents
  <2>2. ListPage(doc.asked) \in Documents /\ ListPage(doc.asked).place = "list"
    BY <2>1, ListDoc
  <2>. QED
    BY <1>4, <2>1, <2>2 DEF Render, Moved, TabInv, Documents
<1>5. CASE Shift
  BY <1>5 DEF Shift, Moved, TabInv
<1>6. CASE Interfere
  <2>1. CASE doc.place \in {"editor", "form"} /\ doc' = [doc EXCEPT !.form.text = "typed"]
    <3>1. doc.form \in Forms /\ [doc.form EXCEPT !.text = "typed"] \in Forms
          /\ (doc.form \in EditorForms => [doc.form EXCEPT !.text = "typed"] \in EditorForms)
      BY DEF TabInv, Documents, Forms, Titles, Texts, EditorForms
    <3>. QED
      BY <1>6, <2>1, <3>1 DEF Interfere, Moved, TabInv, Documents
  <2>2. CASE doc' = [Plain("gate") EXCEPT !.old = doc.old]
    <3>1. Plain("gate") \in Documents /\ Plain("gate").place = "gate"
      BY PlainDoc
    <3>. QED
      BY <1>6, <2>2, <3>1 DEF Interfere, Moved, TabInv, Documents
  <2>. QED
    BY <1>6, <2>1, <2>2 DEF Interfere
<1>7. ASSUME NEW o \in Operation, Begin(o) PROVE TabInv'
  <2>1. FirstPlace(o) \in Navigations
    BY OperationFacts DEF FirstPlace, Navigations
  <2>. QED
    BY <1>7, <2>1 DEF Begin, Holds, TabInv, Documents
<1>8. ASSUME NEW f \in {"title", "text"}, FillField(f) PROVE TabInv'
  <2>1. CASE UNCHANGED <<doc, steady>>
    BY <1>8, <2>1 DEF FillField, TabInv
  <2>2. CASE Snapshot = snap /\ doc' = [doc EXCEPT !.form[f] = expect[f]] /\ Moved
    <3>1. expect \in EditorForms /\ doc.form \in Forms
      BY <1>8 DEF FillField, StepInv, ExpectsRightForm, TabInv, Documents
    <3>2. [doc.form EXCEPT ![f] = expect[f]] \in Forms
          /\ (doc.form \in EditorForms => [doc.form EXCEPT ![f] = expect[f]] \in EditorForms)
      BY <3>1 DEF Forms, EditorForms, Titles, Texts
    <3>3. doc' = [doc EXCEPT !.form = [doc.form EXCEPT ![f] = expect[f]]]
      BY <2>2
    <3>. QED
      BY <1>8, <2>2, <3>2, <3>3 DEF FillField, Moved, TabInv, Documents
  <2>. QED
    BY <1>8, <2>1, <2>2 DEF FillField
<1>9. CASE Click
  <2>1. PICK c \in Target : Hit(c)
    BY <1>9 DEF Click
  <2>. QED
    BY <1>9, <2>1, HitFacts DEF Click, Moved, TabInv
<1>10. CASE ClickFails
  <2>1. PICK c \in Target \union {None} : Hit(c)
    BY <1>10 DEF ClickFails
  <2>. QED
    BY <1>10, <2>1, HitFacts DEF ClickFails, Moved, TabInv
<1>11. CASE ChooseCategory
  BY <1>11 DEF ChooseCategory, TabInv, Navigations
<1>12. CASE \/ Opened \/ SeekNextPage \/ ReadBefore \/ ReadBeforeSubmit \/ AimAtSubmit
           \/ AimAtDialog \/ DialogSeen \/ ReadConfirmation \/ Settles \/ FailsEarly
           \/ DoesNotSettle \/ UNCHANGED vars
  <2>1. UNCHANGED <<ads, inflight, doc, coming, astray, held>> /\ steady' \in {steady, TRUE}
    BY <1>12 DEF Opened, SeekNextPage, ReadBefore, ReadBeforeSubmit, AimAtSubmit, AimAtDialog,
       DialogSeen, ReadConfirmation, Settles, FailsEarly, DoesNotSettle, vars
  <2>. QED
    BY <2>1 DEF TabInv
<1>. QED
  BY <1>1, <1>2, <1>3, <1>4, <1>5, <1>6, <1>7, <1>8, <1>9, <1>10, <1>11, <1>12
     DEF Next, Drive, Surroundings

-----------------------------------------------------------------------------
(* The driver.                                                             *)

\* What others do to the document.
LEMMA SurroundingsDoc ==
  ASSUME TabInv, Surroundings
  PROVE  /\ doc'.old => doc.old
         /\ doc'.dialog \in {doc.dialog, None}
         /\ doc'.place = "editor" =>
               \/ /\ doc.place = "editor" /\ doc'.ad = doc.ad /\ doc'.old = doc.old
                  /\ doc'.form.title = doc.form.title
                  /\ doc'.form.text \in {doc.form.text, "typed"}
               \/ doc'.form = Form(ads[doc'.ad].title, ads[doc'.ad].text) /\ UNCHANGED ads
         /\ doc'.place = "list" =>
               \/ doc.place = "list" /\ doc'.shown = doc.shown /\ doc'.old = doc.old
               \/ (\A a \in Ads : doc'.shown[a] \in {ads[a].state, "gone"}) /\ UNCHANGED ads
<1>1. CASE doc' = doc
  BY <1>1
<1>2. CASE doc' = [doc EXCEPT !.dialog = None]
  BY <1>2 DEF TabInv, Documents
<1>3. CASE doc' = Plain("elsewhere")
  BY <1>3, PlainDoc
<1>4. ASSUME NEW n \in coming, Arrive(n)
      PROVE  /\ doc'.old = FALSE /\ doc'.dialog = None
             /\ doc'.place = "editor" =>
                   doc'.form = Form(ads[doc'.ad].title, ads[doc'.ad].text)
             /\ doc'.place = "list" => \A a \in Ads : doc'.shown[a] \in {ads[a].state, "gone"}
             /\ UNCHANGED ads
  <2>1. n \in Navigations /\ doc' = Served(n) /\ UNCHANGED ads
    BY <1>4 DEF Arrive, platform, TabInv
  <2>. QED
    BY <2>1, ServedDoc
<1>5. CASE Render
  <2>1. doc.asked \in Nat /\ doc.old \in BOOLEAN
    BY DEF TabInv, Documents
  <2>2. doc' = [ListPage(doc.asked) EXCEPT !.old = doc.old] /\ doc.place = "list"
        /\ UNCHANGED ads
    BY <1>5 DEF Render, platform
  <2>3. /\ ListPage(doc.asked) \in Documents
        /\ ListPage(doc.asked).place = "list" /\ ListPage(doc.asked).dialog = None
        /\ \A a \in Ads : ListPage(doc.asked).shown[a] \in {ads[a].state, "gone"}
    BY <2>1, ListDoc
  <2>. QED
    BY <2>1, <2>2, <2>3 DEF Documents
<1>6. CASE Interfere
  <2>1. CASE doc.place \in {"editor", "form"} /\ doc' = [doc EXCEPT !.form.text = "typed"]
    <3>1. doc.form \in Forms /\ [doc.form EXCEPT !.text = "typed"].title = doc.form.title
          /\ [doc.form EXCEPT !.text = "typed"].text = "typed"
      BY DEF TabInv, Documents, Forms
    <3>. QED
      BY <2>1, <3>1 DEF TabInv, Documents
  <2>2. CASE doc' = [Plain("gate") EXCEPT !.old = doc.old]
    <3>1. Plain("gate") \in Documents /\ Plain("gate").place = "gate"
          /\ Plain("gate").dialog = None
      BY PlainDoc
    <3>. QED
      BY <2>2, <3>1 DEF Documents
  <2>. QED
    BY <1>6, <2>1, <2>2 DEF Interfere
<1>. QED
  BY <1>1, <1>2, <1>3, <1>4, <1>5, <1>6 DEF Surroundings, Process, ElsewhereChange, Shift, tab

\* An operation that has ended leaves nothing to know.
LEMMA Ended ==
  ASSUME Idle'
  PROVE  (StepInv /\ FreshInv /\ DialogInv /\ TextInv /\ HeldInv)'
BY DEF Idle, StepInv, FreshInv, DialogInv, TextInv, HeldInv

Driven == (StepInv /\ FreshInv /\ DialogInv /\ TextInv /\ HeldInv)'

LEMMA SurroundingsKeepKnowledge ==
  ASSUME Knows, Surroundings
  PROVE  Driven
<1> USE DEF Knows, Idle
<1>1. /\ UNCHANGED <<step, op, snap, expect, aim, astray>>
      /\ texts \subseteq texts' /\ (held => held')
  BY SurroundingsFacts DEF driver
<1>2. StepInv'
  BY <1>1 DEF StepInv, AimsRight, Asked, ExpectsRightForm
<1>3. FreshInv'
  BY <1>1, SurroundingsDoc DEF FreshInv
<1>4. DialogInv'
  BY <1>1, SurroundingsDoc DEF DialogInv
<1>5. ASSUME step # "idle" PROVE op \in Operation /\ (op.kind # "create" => op.ad \in Ads)
                                /\ (op.kind = "state" => op.goal \in {"active", "paused"})
  BY <1>5, OperationFacts DEF StepInv
<1>6. TextInv'
  <2>1. SUFFICES ASSUME step # "idle", op.kind = "update"
                 PROVE  /\ ads'[op.ad].text \in texts'
                        /\ OwnEditor' => doc'.form.text \in texts' \union {"typed"}
    BY <1>1 DEF TextInv
  <2>2. op.ad \in Ads /\ op.ad # None
    BY <1>5, <2>1, WebPageConstants
  <2>3. ads'[op.ad].text \in texts'
    BY <2>1, <2>2, SurroundingsFacts DEF TextInv
  <2>4. ASSUME OwnEditor' PROVE doc'.form.text \in texts' \union {"typed"}
    <3>1. CASE /\ doc.place = "editor" /\ doc'.ad = doc.ad /\ doc'.old = doc.old
               /\ doc'.form.text \in {doc.form.text, "typed"}
      BY <1>1, <2>1, <2>4, <3>1 DEF OwnEditor, TextInv
    <3>2. CASE doc'.form = Form(ads[doc'.ad].title, ads[doc'.ad].text)
      <4>1. doc'.form.text = ads[op.ad].text
        BY <1>1, <2>4, <3>2 DEF OwnEditor, Form
      <4>. QED
        BY <1>1, <2>1, <4>1 DEF TextInv
    <3>. QED
      BY <2>4, <3>1, <3>2, SurroundingsDoc DEF OwnEditor
  <2>. QED
    BY <2>3, <2>4
<1>7. HeldInv'
  <2>1. SUFFICES ASSUME step # "idle"
                 PROVE  /\ Holds(op, ads') => held'
                        /\ op.kind = "update" /\ step \in {"opening", "opened"} /\ OwnEditor'
                              => (doc'.form.title = "new" => held')
                        /\ op.kind = "state" /\ doc'.place = "list" /\ ~doc'.old
                              => (doc'.shown[op.ad] = op.goal => held')
    BY <1>1 DEF HeldInv, Holds
  <2>2. Holds(op, ads') => held'
    BY <2>1, SurroundingsFacts DEF HeldInv
  <2>3. ASSUME op.kind = "update", step \in {"opening", "opened"}, OwnEditor',
               doc'.form.title = "new"
        PROVE  held'
    <3>1. CASE /\ doc.place = "editor" /\ doc'.ad = doc.ad /\ doc'.old = doc.old
               /\ doc'.form.title = doc.form.title
      BY <1>1, <2>1, <2>3, <3>1 DEF OwnEditor, HeldInv
    <3>2. CASE doc'.form = Form(ads[doc'.ad].title, ads[doc'.ad].text)
      BY <1>1, <2>1, <2>3, <3>2 DEF OwnEditor, Form, HeldInv, Holds
    <3>. QED
      BY <2>3, <3>1, <3>2, SurroundingsDoc DEF OwnEditor
  <2>4. ASSUME op.kind = "state", doc'.place = "list", ~doc'.old, doc'.shown[op.ad] = op.goal
        PROVE  held'
    <3>1. op.ad \in Ads /\ op.goal # "gone"
      BY <1>5, <2>1, <2>4
    <3>2. CASE doc.place = "list" /\ doc'.shown = doc.shown /\ doc'.old = doc.old
      BY <1>1, <2>1, <2>4, <3>2 DEF HeldInv
    <3>3. CASE \A a \in Ads : doc'.shown[a] \in {ads[a].state, "gone"}
      BY <1>1, <2>1, <2>4, <3>1, <3>3 DEF HeldInv, Holds
    <3>. QED
      BY <2>4, <3>2, <3>3, SurroundingsDoc
  <2>. QED
    BY <2>2, <2>3, <2>4
<1>. QED
  BY <1>2, <1>3, <1>4, <1>6, <1>7 DEF Driven

\* Steps after which the document, and what is known of it, are as before.
LEMMA SameDocument ==
  ASSUME Knows, ~Idle, UNCHANGED <<doc, ads, op, astray, held, texts>>,
         step' \in {"opening", "opened"} => step \in {"opening", "opened", "continued"},
         step' = "opening" \/ ~doc.old,
         step' \in {"confirming", "waiting", "checked"} =>
             \/ step \in {"confirming", "waiting", "checked"} \/ op.kind # "delete"
  PROVE  (FreshInv /\ DialogInv /\ TextInv /\ HeldInv)'
<1> USE DEF Knows, Idle
<1>1. FreshInv' /\ DialogInv'
  BY DEF FreshInv, DialogInv
<1>2. TextInv'
  BY DEF TextInv, OwnEditor
<1>3. HeldInv'
  BY DEF HeldInv, OwnEditor, Holds, StepInv
<1>. QED
  BY <1>1, <1>2, <1>3

LEMMA BeginKeepsKnowledge ==
  ASSUME Knows, NEW o \in Operation, Begin(o)
  PROVE  Driven
<1>1. /\ step' = "opening" /\ op' = o /\ doc'.old = TRUE /\ ads' = ads
      /\ held' = Holds(o, ads)
      /\ texts' = IF o.ad = None THEN {} ELSE {ads[o.ad].text}
  BY DEF Begin, platform, Knows, TabInv, Documents
<1>2. o.kind = "update" => o.ad # None
  BY OperationFacts, WebPageConstants
<1>3. StepInv' /\ FreshInv' /\ DialogInv'
  BY <1>1 DEF StepInv, FreshInv, DialogInv, Idle
<1>4. TextInv'
  BY <1>1, <1>2 DEF TextInv, OwnEditor, Idle
<1>5. HeldInv'
  BY <1>1 DEF HeldInv, OwnEditor, Idle, Holds
<1>. QED
  BY <1>3, <1>4, <1>5 DEF Driven

LEMMA DriveKeepsKnowledge ==
  ASSUME Knows, Drive
  PROVE  Driven
<1> USE DEF Page, history, tab, platform, Idle
<1>0. ASSUME ~Idle PROVE op \in Operation /\ (op.kind # "create" => op.ad \in Ads)
                       /\ op.kind \in {"update", "delete", "state", "create"}
  BY <1>0, OperationFacts DEF Knows, StepInv
<1>1. CASE Opened
  <2>1. StepInv'
    BY <1>1 DEF Opened, Knows, StepInv
  <2>. QED
    BY <1>1, <2>1, SameDocument DEF Opened, Driven, Knows, FreshInv
<1>2. CASE SeekNextPage
  <2>1. CASE Idle'
    BY <2>1, Ended DEF Driven
  <2>2. CASE ~Idle'
    <3>1. step' = "aimed" /\ aim' = NextControl /\ op' = op
      BY <1>2, <2>2 DEF SeekNextPage, EndAs
    <3>2. StepInv'
      BY <1>2, <3>1 DEF SeekNextPage, Knows, StepInv, AimsRight
    <3>. QED
      BY <1>2, <3>1, <3>2, SameDocument DEF SeekNextPage, Driven
  <2>. QED
    BY <2>1, <2>2
<1>3. CASE ChooseCategory
  <2>1. StepInv'
    BY <1>3 DEF ChooseCategory, Knows, StepInv
  <2>. QED
    BY <1>3, <2>1, SameDocument DEF ChooseCategory, Driven
<1>4. CASE ReadBefore
  <2>1. CASE Idle'
    BY <2>1, Ended DEF Driven
  <2>2. CASE ~Idle'
    <3>1. /\ Snapshot.state = "ready" /\ snap' = Snapshot /\ expect' = Wanted(Snapshot.data)
          /\ step' = IF op.kind \in {"update", "create"} THEN "filling" ELSE "read"
          /\ UNCHANGED <<op, aim, Page>> /\ step = "opened"
      BY <1>4, <2>2 DEF ReadBefore, EndAs
    <3>2. StepInv'
      <4>1. CASE op.kind = "update"
        <5>1. /\ Snapshot = Ready(doc.form) /\ doc.form \in EditorForms
              /\ doc.place = "editor" /\ doc.ad = op.ad /\ ~doc.old
          BY <1>0, <3>1, <4>1, SnapshotFacts DEF Knows, FreshInv
        <5>2. expect' = Form("new", doc.form.text) /\ snap'.data = doc.form
              /\ snap' = [state |-> "ready", data |-> doc.form]
          BY <3>1, <4>1, <5>1 DEF Wanted, Ready
        <5>3. doc.form.text \in texts \union {"typed"}
          BY <3>1, <4>1, <5>1 DEF Knows, TextInv, OwnEditor
        <5>4. ExpectsRightForm'
          BY <3>1, <4>1, <5>1, <5>2, <5>3 DEF ExpectsRightForm, EditorForms, Form
        <5>5. snap' \in [state : {"ready"}, data : Forms]
          BY <5>1, <5>2 DEF EditorForms, Forms, Titles, Texts
        <5>. QED
          BY <1>0, <3>1, <4>1, <5>4, <5>5 DEF StepInv
      <4>2. CASE op.kind = "create"
        <5>1. Snapshot = Ready(doc.form) /\ doc.form \in Forms
          BY <1>0, <3>1, <4>2, SnapshotFacts DEF Knows
        <5>2. expect' = Requested /\ snap' \in [state : {"ready"}, data : Forms]
          BY <3>1, <4>2, <5>1 DEF Wanted, Ready
        <5>3. ExpectsRightForm'
          BY <3>1, <4>2, <5>2 DEF ExpectsRightForm, Requested, EditorForms, Form
        <5>. QED
          BY <1>0, <3>1, <4>2, <5>2, <5>3 DEF StepInv
      <4>3. CASE op.kind \in {"state", "delete"}
        BY <1>0, <3>1, <4>3 DEF StepInv
      <4>. QED
        BY <1>0, <3>1, <4>1, <4>2, <4>3
    <3>. QED
      BY <3>1, <3>2, SameDocument DEF Driven, Knows, FreshInv
  <2>. QED
    BY <2>1, <2>2
<1>5. ASSUME NEW f \in {"title", "text"}, FillField(f) PROVE Driven
  <2>1. CASE Idle'
    BY <2>1, Ended DEF Driven
  <2>2. CASE ~Idle'
    <3>1. /\ step = "filling" /\ Snapshot = snap /\ snap' = [snap EXCEPT !.data[f] = expect[f]]
          /\ doc' = [doc EXCEPT !.form[f] = expect[f]]
          /\ UNCHANGED <<op, step, expect, aim, ads, astray, held, texts>>
      BY <1>5, <2>2 DEF FillField, EndAs
    <3>2. ExpectsRightForm /\ snap \in [state : {"ready"}, data : Forms]
      BY <3>1 DEF Knows, StepInv
    <3>3. expect \in EditorForms /\ expect[f] \in Titles \union Texts
      BY <3>2 DEF ExpectsRightForm, EditorForms, Titles, Texts
    <3>4. [snap.data EXCEPT ![f] = expect[f]] \in Forms
      BY <3>2, <3>3 DEF Forms, EditorForms, Titles, Texts
    <3>5. StepInv'
      BY <3>1, <3>2, <3>4 DEF Knows, StepInv, ExpectsRightForm
    <3>6. /\ doc'.place = doc.place /\ doc'.ad = doc.ad /\ doc'.old = doc.old
          /\ doc'.shown = doc.shown /\ doc'.form = [doc.form EXCEPT ![f] = expect[f]]
      BY <3>1 DEF Knows, TabInv, Documents
    <3>7. doc'.form.text \in {doc.form.text, expect.text}
      BY <3>6 DEF Knows, TabInv, Documents, Forms
    <3>8. FreshInv' /\ DialogInv'
      BY <3>1, <3>6 DEF Knows, FreshInv, DialogInv
    <3>9. TextInv'
      BY <3>1, <3>2, <3>6, <3>7 DEF Knows, TextInv, OwnEditor, ExpectsRightForm
    <3>10. HeldInv'
      BY <3>1, <3>6 DEF Knows, HeldInv, OwnEditor, Holds
    <3>. QED
      BY <3>5, <3>8, <3>9, <3>10 DEF Driven
  <2>. QED
    BY <2>1, <2>2
<1>6. CASE ReadBeforeSubmit
  <2>1. CASE Idle'
    BY <2>1, Ended DEF Driven
  <2>2. CASE ~Idle'
    <3>1. /\ Snapshot.state = "ready" /\ snap' = Snapshot /\ step' = "checked"
          /\ op.kind # "state" => Snapshot.data = expect
          /\ UNCHANGED <<op, expect, aim, Page>>
          /\ (step = "filling" \/ (step = "read" /\ op.kind = "state"))
      BY <1>6, <2>2 DEF ReadBeforeSubmit, EndAs
    <3>2. step = "filling" => ExpectsRightForm
      BY DEF Knows, StepInv
    <3>3. op.kind # "state" => snap' = Ready(expect)
      BY <1>0, <3>1, <3>2, SnapshotFacts DEF Knows, Ready, ExpectsRightForm
    <3>4. StepInv'
      BY <1>0, <3>1, <3>2, <3>3 DEF StepInv, ExpectsRightForm, Ready
    <3>. QED
      BY <3>1, <3>2, <3>4, SameDocument DEF Driven, Knows, FreshInv, ExpectsRightForm
  <2>. QED
    BY <2>1, <2>2
<1>7. CASE AimAtSubmit
  <2>1. CASE Idle'
    BY <2>1, Ended DEF Driven
  <2>2. CASE ~Idle'
    <3>1. /\ step = "checked" /\ SubmitControl # None /\ aim' = SubmitControl
          /\ step' = "aimed" /\ UNCHANGED <<op, platform, tab, history>>
      BY <1>7, <2>2 DEF AimAtSubmit, EndAs
    <3>2. AimsRight'
      BY <3>1, SubmitControlFacts DEF Knows, AimsRight, Asked
    <3>3. StepInv'
      BY <1>0, <3>1, <3>2 DEF StepInv
    <3>. QED
      BY <3>1, <3>3, SameDocument DEF Driven, Knows, FreshInv
  <2>. QED
    BY <2>1, <2>2
<1>8. CASE AimAtDialog
  <2>1. CASE Idle'
    BY <2>1, Ended DEF Driven
  <2>2. CASE ~Idle'
    <3>1. /\ step = "read" /\ op.kind = "delete"
          /\ aim' = DialogControl(op.ad)
          /\ step' = "aimed" /\ UNCHANGED <<op, platform, tab, history>>
      BY <1>8, <2>2 DEF AimAtDialog, EndAs
    <3>2. StepInv'
      BY <1>0, <3>1 DEF StepInv, AimsRight
    <3>. QED
      BY <3>1, <3>2, SameDocument DEF Driven, Knows, FreshInv
  <2>. QED
    BY <2>1, <2>2
<1>9. CASE Click
  <2>1. CASE Idle'
    BY <2>1, Ended DEF Driven
  <2>2. CASE ~Idle'
    <3>1. PICK c \in Target : Hit(c)
      BY <1>9 DEF Click
    <3>2. /\ step = "aimed" /\ astray' = (astray \/ ~steady) /\ step' = AfterClick
          /\ UNCHANGED <<op, ads, held, texts>>
      BY <1>9, <2>2 DEF Click, EndAs
    <3>3. AimsRight /\ ~doc.old
      BY <3>2 DEF Knows, StepInv, FreshInv
    <3>4. /\ doc'.place = doc.place /\ doc'.ad = doc.ad /\ doc'.form = doc.form
          /\ doc'.shown = doc.shown /\ doc'.old = doc.old
          /\ c # None /\ c.kind = "dialog" => doc'.dialog = c.ad
      BY <3>1, <3>2, HitFacts DEF Knows
    <3>5. step' = "waiting" => aim = DialogControl(op.ad) /\ op.kind = "delete"
      BY <3>2, <3>3, ControlKinds DEF AfterClick, AimsRight, Submitting
    <3>6. step' = "opening" => op.kind \in {"state", "delete"}
      BY <3>2, <3>3, ControlKinds DEF AfterClick, AimsRight, Submitting
    <3>7. step' \in {"opening", "waiting", "clicked"}
      BY <3>2 DEF AfterClick
    <3>8. StepInv' /\ FreshInv'
      BY <1>0, <3>2, <3>3, <3>4, <3>5, <3>7 DEF StepInv, FreshInv
    <3>9. DialogInv'
      <4>1. SUFFICES ASSUME ~astray', step' = "waiting" PROVE doc'.dialog = op.ad
        BY <3>2, <3>7 DEF DialogInv
      <4>2. c = aim /\ c.kind = "dialog" /\ c.ad = op.ad
        <5>1. c = aim
          BY <3>1, <3>2, <4>1 DEF Target
        <5>2. aim.kind = "dialog" /\ aim.ad = op.ad
          BY <3>5, <4>1, ControlKinds
        <5>. QED
          BY <5>1, <5>2
      <4>3. c # None
        BY <1>0, <3>2, <3>5, <4>1, <4>2, NoneIsNoControl
      <4>. QED
        BY <3>4, <4>2, <4>3
    <3>10. TextInv'
      BY <3>2, <3>4 DEF Knows, TextInv, OwnEditor
    <3>11. HeldInv'
      BY <3>2, <3>4, <3>6, <3>7 DEF Knows, HeldInv, OwnEditor, Holds
    <3>. QED
      BY <3>8, <3>9, <3>10, <3>11 DEF Driven
  <2>. QED
    BY <2>1, <2>2
<1>10. CASE DialogSeen
  <2>1. StepInv'
    BY <1>10 DEF DialogSeen, Knows, StepInv
  <2>. QED
    BY <1>10, <2>1, SameDocument DEF DialogSeen, Driven, Knows, FreshInv
<1>11. CASE ReadConfirmation
  <2>1. CASE Idle'
    BY <2>1, Ended DEF Driven
  <2>2. CASE ~Idle'
    <3>1. step = "confirming" /\ step' = "checked" /\ UNCHANGED <<op, Page>>
      BY <1>11, <2>2 DEF ReadConfirmation, EndAs
    <3>2. op.kind = "delete"
      BY <3>1 DEF Knows, StepInv
    <3>3. StepInv'
      BY <1>0, <3>1, <3>2 DEF StepInv
    <3>. QED
      BY <3>1, <3>3, SameDocument DEF Driven, Knows, FreshInv
  <2>. QED
    BY <2>1, <2>2
<1>12. CASE ClickFails \/ Settles \/ FailsEarly \/ DoesNotSettle
  BY <1>12, Ended DEF ClickFails, Settles, FailsEarly, DoesNotSettle, EndAs, Driven
<1>. QED
  BY <1>1, <1>2, <1>3, <1>4, <1>5, <1>6, <1>7, <1>8, <1>9, <1>10, <1>11, <1>12 DEF Drive

-----------------------------------------------------------------------------
(* What was submitted, and what "done" says.                               *)

\* A click that does not go astray submits at most what was aimed at.
LEMMA SteadyClick ==
  ASSUME AttemptInv, StepInv, step = "aimed", NEW c \in Target \union {None}, Hit(c),
         ~(astray \/ ~steady)
  PROVE  \/ sent' = <<>> /\ (c # aim \/ aim.kind \notin Submitting)
         \/ /\ sent' = <<aim>> /\ aim \in Clicks /\ Asked(aim) /\ aim.ad = op.ad
            /\ aim.kind = "save" => aim.form.text \in texts \union {"typed"}
<1>1. sent = <<>> /\ c \in {aim, None} /\ AimsRight
  BY DEF AttemptInv, StepInv, Target
<1>2. CASE c = None
  BY <1>1, <1>2, ControlKinds, NoneIsNoControl DEF Hit, AimsRight, Submitting
<1>3. CASE c # None /\ aim \notin Clicks
  BY <1>1, <1>3, ControlKinds DEF Hit, AimsRight, Submitting
<1>4. CASE c # None /\ aim \in Clicks
  <2>1. aim.kind \in Submitting /\ c = aim
    BY <1>1, <1>4, ControlKinds
  <2>2. sent' = Append(sent, aim)
    BY <1>4, <2>1 DEF Hit, Submitting
  <2>3. /\ Asked(aim) /\ aim.ad = op.ad
        /\ aim.kind = "save" => aim.form.text \in texts \union {"typed"}
    BY <1>1, <2>1, ControlKinds DEF AimsRight, Submitting
  <2>. QED
    BY <1>1, <1>4, <2>2, <2>3
<1>. QED
  BY <1>2, <1>3, <1>4

LEMMA SentStep ==
  ASSUME AttemptInv, Knows, SentInv, [Next]_vars
  PROVE  SentInv'
<1> USE DEF Knows, Page, history, driver
<1>1. ASSUME UNCHANGED <<op, sent, astray>>, texts \subseteq texts',
             step' = "clicked" => step = "clicked"
      PROVE  SentInv'
  BY <1>1 DEF SentInv, Asked
<1>2. CASE Surroundings
  BY <1>1, <1>2, SurroundingsFacts
<1>3. ASSUME NEW o \in Operation, Begin(o) PROVE SentInv'
  BY <1>3 DEF Begin, SentInv
<1>4. ASSUME NEW c \in Target \union {None}, Hit(c), step = "aimed",
             astray' = (astray \/ ~steady), UNCHANGED <<op, texts>>,
             step' = "clicked" => c \in Target /\ aim.kind \notin {"next", "dialog"}
      PROVE  SentInv'
  <2>1. SUFFICES ASSUME ~astray' PROVE SentInv'
    BY DEF SentInv
  <2>2. ~(astray \/ ~steady)
    BY <1>4, <2>1
  <2>3. CASE sent' = <<>> /\ (c # aim \/ aim.kind \notin Submitting)
    <3>1. step' # "clicked"
      <4>1. SUFFICES ASSUME step' = "clicked" PROVE FALSE
        OBVIOUS
      <4>2. c = aim /\ aim.kind \notin {"next", "dialog"}
        BY <1>4, <2>2, <4>1 DEF Target
      <4>3. AimsRight
        BY <1>4 DEF StepInv
      <4>4. aim \in Clicks
        BY <4>2, <4>3, ControlKinds DEF AimsRight
      <4>. QED
        BY <2>3, <4>2, <4>4, ControlKinds
    <3>. QED
      BY <2>3, <3>1 DEF SentInv
  <2>4. CASE /\ sent' = <<aim>> /\ aim \in Clicks /\ Asked(aim) /\ aim.ad = op.ad
             /\ aim.kind = "save" => aim.form.text \in texts \union {"typed"}
    <3>1. sent'[1] = aim /\ sent' # <<>>
      BY <2>4
    <3>2. Asked(sent[1])' /\ sent'[1].ad = op.ad
      BY <1>4, <2>4, <3>1 DEF Asked
    <3>3. sent'[1].kind = "save" => sent'[1].form.text \in texts \union {"typed"}
      BY <2>4, <3>1
    <3>. QED
      BY <1>4, <3>1, <3>2, <3>3 DEF SentInv
  <2>. QED
    BY <1>4, <2>2, <2>3, <2>4, SteadyClick
<1>6. CASE Click
  <2>1. PICK c \in Target : Hit(c)
    BY <1>6 DEF Click
  <2>2. /\ step = "aimed" /\ astray' = (astray \/ ~steady) /\ UNCHANGED <<op, texts>>
        /\ step' = "clicked" => aim.kind \notin {"next", "dialog"}
    BY <1>6 DEF Click, EndAs, AfterClick
  <2>. QED
    BY <1>4, <2>1, <2>2
<1>7. CASE ClickFails
  <2>1. PICK c \in Target \union {None} : Hit(c)
    BY <1>7 DEF ClickFails
  <2>2. /\ step = "aimed" /\ astray' = (astray \/ ~steady) /\ UNCHANGED <<op, texts>>
        /\ step' # "clicked"
    BY <1>7 DEF ClickFails, EndAs
  <2>. QED
    BY <1>4, <2>1, <2>2
<1>5. CASE \/ Opened \/ SeekNextPage \/ ChooseCategory \/ ReadBefore \/ ReadBeforeSubmit
          \/ AimAtSubmit \/ AimAtDialog \/ DialogSeen \/ ReadConfirmation \/ Settles
          \/ FailsEarly \/ DoesNotSettle \/ UNCHANGED vars
          \/ \E f \in {"title", "text"} : FillField(f)
  <2>1. UNCHANGED <<op, sent, astray, texts>> /\ (step' = "clicked" => step = "clicked")
    BY <1>5 DEF Opened, SeekNextPage, ChooseCategory, ReadBefore, FillField, ReadBeforeSubmit,
       AimAtSubmit, AimAtDialog, DialogSeen, ReadConfirmation, Settles, FailsEarly,
       DoesNotSettle, EndAs, vars
  <2>. QED
    BY <1>1, <2>1
<1>. QED
  BY <1>2, <1>3, <1>5, <1>6, <1>7 DEF Next, Drive

\* What a new document shows of the goal has held.
LEMMA ShownHasHeld ==
  ASSUME Knows, ~Idle, step # "opening"
  PROVE  /\ op.kind = "update" /\ step = "opened" /\ EditorSnapshot.state = "ready"
               => (EditorSnapshot.data.title = "new" => held)
         /\ op.kind = "state" /\ StateSnapshot.state = "ready"
               => (StateSnapshot.data = op.goal => held)
<1>1. ~doc.old
  BY DEF Knows, FreshInv, Idle
<1>. QED
  BY <1>1 DEF Knows, HeldInv, OwnEditor, EditorSnapshot, StateSnapshot, Ready, NotReady, Idle

LEMMA DoneStep ==
  ASSUME AttemptInv, Knows, SentInv, DoneWasTrue, [Next]_vars
  PROVE  DoneWasTrue'
<1> USE DEF Page, history, driver, Idle
<1>0. ASSUME ~Idle PROVE outcome = "none" /\ op \in Operation
                        /\ op.kind \in {"update", "delete", "state", "create"}
  BY <1>0, OperationFacts DEF AttemptInv, Knows, StepInv
<1>1. CASE Surroundings
  BY <1>1, SurroundingsFacts DEF DoneWasTrue, Knows
<1>2. ASSUME outcome' # "done" PROVE DoneWasTrue'
  BY <1>2 DEF DoneWasTrue
<1>3. CASE ReadBefore
  <2>1. SUFFICES ASSUME outcome' = "done" PROVE DoneWasTrue'
    BY <1>2
  <2>2. /\ step = "opened" /\ Snapshot.state = "ready" /\ NothingToDo(Snapshot.data)
        /\ UNCHANGED <<op, held, sent, astray>>
    BY <1>0, <1>3, <2>1 DEF ReadBefore, EndAs
  <2>. QED
    BY <1>0, <2>2, ShownHasHeld DEF NothingToDo, Snapshot, DoneWasTrue
<1>4. CASE ReadBeforeSubmit
  <2>1. SUFFICES ASSUME outcome' = "done" PROVE DoneWasTrue'
    BY <1>2
  <2>2. /\ step \in {"filling", "read"} /\ op.kind = "state" /\ Snapshot.state = "ready"
        /\ Snapshot.data = op.goal /\ UNCHANGED <<op, held, sent, astray>>
    BY <1>0, <1>4, <2>1 DEF ReadBeforeSubmit, EndAs
  <2>. QED
    BY <1>0, <2>2, ShownHasHeld DEF Snapshot, DoneWasTrue
<1>5. CASE Click
  <2>1. SUFFICES ASSUME outcome' = "done" PROVE DoneWasTrue'
    BY <1>2
  <2>2. step = "aimed" /\ aim.kind = "publish" /\ UNCHANGED op
    BY <1>0, <1>5, <2>1 DEF Click, EndAs
  <2>3. Asked(aim)
    BY <2>2, ControlKinds DEF Knows, StepInv, AimsRight
  <2>. QED
    BY <1>0, <2>2, <2>3 DEF Asked, DoneWasTrue
<1>6. CASE Settles
  <2>1. /\ step = "clicked" /\ Settled /\ UNCHANGED <<op, held, sent, astray>>
    BY <1>6 DEF Settles, EndAs
  <2>2. CASE op.kind = "state"
    <3>1. StateSnapshot = Ready(op.goal)
      BY <2>1, <2>2 DEF Settled
    <3>. QED
      BY <1>0, <2>1, <2>2, <3>1, ShownHasHeld DEF Ready, DoneWasTrue
  <2>3. CASE op.kind # "state"
    BY <2>1, <2>3 DEF SentInv, DoneWasTrue
  <2>. QED
    BY <2>2, <2>3
<1>7. CASE \/ Opened \/ SeekNextPage \/ ChooseCategory \/ AimAtSubmit \/ AimAtDialog
          \/ ClickFails \/ DialogSeen \/ ReadConfirmation \/ FailsEarly \/ DoesNotSettle
          \/ (\E f \in {"title", "text"} : FillField(f))
          \/ (\E o \in Operation : Begin(o))
  <2>1. outcome' # "done"
    BY <1>0, <1>7 DEF Opened, SeekNextPage, ChooseCategory, FillField, AimAtSubmit, AimAtDialog,
       ClickFails, ClickFailed, DialogSeen, ReadConfirmation, FailsEarly, DoesNotSettle,
       EarlyFailure, EndAs, Begin
  <2>. QED
    BY <1>2, <2>1
<1>8. CASE UNCHANGED vars
  BY <1>8 DEF vars, DoneWasTrue
<1>. QED
  BY <1>1, <1>3, <1>4, <1>5, <1>6, <1>7, <1>8 DEF Next, Drive

\* PageInv is an invariant.
LEMMA PageInvariance == PageSpec => []PageInv
<1>1. Init => PageInv
  <2> SUFFICES ASSUME Init PROVE PageInv
    OBVIOUS
  <2>1. TabInv
    BY PlainDoc DEF Init, TabInv
  <2>. QED
    BY <2>1 DEF Init, PageInv, Knows, AttemptInv, StepInv, FreshInv, DialogInv, TextInv, HeldInv,
       SentInv, DoneWasTrue, Idle
<1>2. PageInv /\ [Next]_vars => PageInv'
  <2> SUFFICES ASSUME PageInv, [Next]_vars PROVE PageInv'
    OBVIOUS
  <2>1. AttemptInv' /\ SentInv' /\ DoneWasTrue'
    BY AttemptStep, SentStep, DoneStep DEF PageInv
  <2>2. TabInv'
    BY TabStep DEF PageInv, Knows
  <2>3. CASE UNCHANGED vars
    BY <2>1, <2>3 DEF PageInv, Knows, vars, platform, tab, driver, history, TabInv, StepInv,
       AimsRight, Asked, ExpectsRightForm, FreshInv, DialogInv, TextInv, OwnEditor, HeldInv,
       Holds, Idle
  <2>4. CASE Next
    <3>1. Driven
      BY <2>4, DriveKeepsKnowledge, SurroundingsKeepKnowledge, BeginKeepsKnowledge
         DEF Next, PageInv
    <3>. QED
      BY <2>1, <2>2, <3>1 DEF Driven, PageInv, Knows
  <2>. QED
    BY <2>3, <2>4
<1>. QED
  BY <1>1, <1>2, PTL DEF PageSpec

\* What an operation submits is what it was asked for, at the ad it was asked
\* for, with the form as it was checked, unless the document moved before the
\* click.
THEOREM SubmitsAreTheOnesAskedFor == PageSpec => []SubmitsWhatItChecked
<1>1. PageInv => SubmitsWhatItChecked
  <2> SUFFICES ASSUME PageInv, ~astray, NEW i \in DOMAIN sent
               PROVE  /\ sent[i].ad = op.ad /\ Asked(sent[i])
    BY DEF SubmitsWhatItChecked, Asked
  <2>1. sent = <<sent[1]>> /\ i = 1
    BY DEF PageInv, AttemptInv
  <2>. QED
    BY <2>1 DEF PageInv, SentInv
<1>. QED
  BY <1>1, PageInvariance, PTL

\* A content update never saves a text that its ad has not had since it began
\* and that nobody typed.
THEOREM NoStaleTextIsSaved == PageSpec => []SavesNoStaleText
<1>1. PageInv => SavesNoStaleText
  <2> SUFFICES ASSUME PageInv, ~astray, NEW i \in DOMAIN sent, sent[i].kind = "save"
               PROVE  sent[i].form.text \in texts \union {"typed"}
    BY DEF SavesNoStaleText
  <2>1. sent = <<sent[1]>> /\ i = 1
    BY DEF PageInv, AttemptInv
  <2>. QED
    BY <2>1 DEF PageInv, SentInv
<1>. QED
  BY <1>1, PageInvariance, PTL

\* When a writer says "done" because there was nothing to do, or because a
\* state has become the wanted one, the goal has held on the platform.
THEOREM DoneIsTrue == PageSpec => []DoneWasTrue
BY PageInvariance, PTL DEF PageInv

-----------------------------------------------------------------------------
(* Types.                                                                  *)

Steps == {"idle", "opening", "continued", "opened", "filling", "read",
          "confirming", "checked", "aimed", "waiting", "clicked"}

\* What the driver's variables hold at each step.
DriverInv ==
    /\ step \in Steps
    /\ op # None => op \in Operation
    /\ aim # None <=> step = "aimed"
    /\ snap # None => step \in {"filling", "read", "checked"}
    /\ outcome \in {"none", "done", "not_attempted", "unknown"}
    /\ ops \in 0 .. MaxOps /\ moves \in 0 .. MaxMoves

\* A dialog is open in a list, and its control was looked for there.
PlaceInv ==
    /\ doc.dialog # None => doc.place = "list"
    /\ steady /\ aim # None /\ aim.kind = "dialog" => doc.place = "list"

LEMMA DriverStep ==
  ASSUME Knows, DriverInv, [Next]_vars
  PROVE  DriverInv'
<1>0. TabInv /\ StepInv /\ MaxOps \in Nat /\ MaxMoves \in Nat
  BY WebPageConstants DEF Knows
<1>1. CASE Surroundings
  <2>1. UNCHANGED <<step, op, aim, snap, outcome>>
    BY <1>0, <1>1, SurroundingsFacts DEF driver
  <2>2. ops' = ops /\ (moves' = moves \/ (moves < MaxMoves /\ moves' = moves + 1))
    BY <1>1 DEF Surroundings, Process, ElsewhereChange, Arrive, Render, Shift, Interfere
  <2>. QED
    BY <1>0, <2>1, <2>2 DEF DriverInv
<1>2. ASSUME NEW o \in Operation, Begin(o) PROVE DriverInv'
  BY <1>0, <1>2 DEF Begin, DriverInv, Steps
<1>3. ASSUME NEW result \in {"done", "not_attempted", "unknown"}, EndAs(result),
             UNCHANGED <<ops, moves>>
      PROVE  DriverInv'
  BY <1>3 DEF EndAs, DriverInv, Steps
<1>4. EarlyFailure \in {"not_attempted", "unknown"} /\ ClickFailed \in {"not_attempted", "unknown"}
  BY DEF EarlyFailure, ClickFailed
<1>5. CASE Opened \/ ChooseCategory \/ DialogSeen
  BY <1>5 DEF Opened, ChooseCategory, DialogSeen, Page, DriverInv, Steps
<1>6. CASE SeekNextPage \/ AimAtSubmit \/ AimAtDialog
  <2>1. CASE \E result \in {"done", "not_attempted", "unknown"} : EndAs(result)
    BY <1>3, <1>6, <2>1 DEF SeekNextPage, AimAtSubmit, AimAtDialog
  <2>2. CASE ~\E result \in {"done", "not_attempted", "unknown"} : EndAs(result)
    <3>1. /\ step' = "aimed" /\ UNCHANGED <<op, outcome, ops, moves>> /\ snap' \in {None, snap}
          /\ SeekNextPage => snap' = snap /\ step = "opening"
          /\ ~SeekNextPage => snap' = None
      BY <1>4, <1>6, <2>2 DEF SeekNextPage, AimAtSubmit, AimAtDialog
    <3>2. AimAtDialog => op.ad \in Ads
      <4>1. AimAtDialog => op \in Operation /\ op.kind = "delete"
        BY <1>0 DEF AimAtDialog, StepInv, Idle
      <4>. QED
        BY <4>1, OperationFacts
    <3>3. aim' # None
      BY <1>4, <1>6, <2>2, <3>2, NoneIsNoControl DEF SeekNextPage, AimAtSubmit, AimAtDialog
    <3>4. snap' = None
      BY <3>1 DEF DriverInv
    <3>. QED
      BY <3>1, <3>3, <3>4 DEF DriverInv, Steps
  <2>. QED
    BY <2>1, <2>2
<1>7. CASE ReadBefore \/ ReadBeforeSubmit \/ ReadConfirmation
  <2>1. CASE \E result \in {"done", "not_attempted", "unknown"} : EndAs(result)
    BY <1>3, <1>7, <2>1 DEF ReadBefore, ReadBeforeSubmit, ReadConfirmation, Page
  <2>2. CASE ~\E result \in {"done", "not_attempted", "unknown"} : EndAs(result)
    <3>1. step' \in {"filling", "read", "checked"} /\ UNCHANGED <<op, aim, outcome, ops, moves>>
      BY <1>7, <2>2 DEF ReadBefore, ReadBeforeSubmit, ReadConfirmation, Page
    <3>2. step # "aimed"
      BY <1>7 DEF ReadBefore, ReadBeforeSubmit, ReadConfirmation
    <3>. QED
      BY <3>1, <3>2 DEF DriverInv, Steps
  <2>. QED
    BY <2>1, <2>2
<1>8. ASSUME NEW f \in {"title", "text"}, FillField(f) PROVE DriverInv'
  <2>1. CASE EndAs(EarlyFailure)
    BY <1>3, <1>4, <1>8, <2>1 DEF FillField
  <2>2. CASE UNCHANGED <<op, step, expect, prior, seen, aim, outcome>>
    BY <1>8, <2>2 DEF FillField, DriverInv
  <2>. QED
    BY <1>8, <2>1, <2>2 DEF FillField
<1>9. CASE Click
  <2>1. CASE EndAs("done")
    BY <1>3, <1>9, <2>1 DEF Click
  <2>2. CASE ~EndAs("done")
    <3>1. /\ step = "aimed" /\ step' \in {"opening", "waiting", "clicked"} /\ aim' = None
          /\ UNCHANGED <<op, snap, outcome, ops, moves>>
      BY <1>9, <2>2 DEF Click, AfterClick
    <3>. QED
      BY <3>1 DEF DriverInv, Steps
  <2>. QED
    BY <2>1, <2>2
<1>10. CASE ClickFails \/ FailsEarly \/ Settles \/ DoesNotSettle
  BY <1>3, <1>4, <1>10 DEF ClickFails, FailsEarly, Settles, DoesNotSettle, Page
<1>11. CASE UNCHANGED vars
  BY <1>11 DEF vars, driver, DriverInv
<1>. QED
  BY <1>1, <1>2, <1>5, <1>6, <1>7, <1>8, <1>9, <1>10, <1>11 DEF Next, Drive

LEMMA PlaceStep ==
  ASSUME Knows, DriverInv, PlaceInv, [Next]_vars
  PROVE  PlaceInv'
<1>0. TabInv /\ StepInv /\ doc \in Documents /\ coming \subseteq Navigations /\ None \notin Ads
  BY WebPageConstants DEF Knows, TabInv
<1>1. ASSUME ~steady', doc'.dialog # None => doc'.place = "list" PROVE PlaceInv'
  BY <1>1 DEF PlaceInv
<1>2. ASSUME UNCHANGED doc, aim' = None \/ UNCHANGED <<aim, steady>> PROVE PlaceInv'
  BY <1>2 DEF PlaceInv
<1>3. ASSUME NEW c \in inflight, Process(c) PROVE PlaceInv'
  <2>1. CASE UNCHANGED doc
    <3>1. (~steady' \/ UNCHANGED steady) /\ aim' = aim
      BY <1>3 DEF Process, Moved, driver
    <3>. QED
      BY <2>1, <3>1 DEF PlaceInv
  <2>2. CASE doc' # doc
    <3>1. /\ ~steady'
          /\ doc' = [doc EXCEPT !.dialog = None] \/ doc' = Plain("elsewhere")
      BY <1>3, <2>2 DEF Process, Moved
    <3>2. doc'.dialog = None
      BY <1>0, <3>1, PlainDoc DEF Documents
    <3>. QED
      BY <1>1, <3>1, <3>2
  <2>. QED
    BY <2>1, <2>2
<1>4. ASSUME NEW n \in coming, Arrive(n) PROVE PlaceInv'
  <2>1. doc' = Served(n) /\ ~steady' /\ n \in Navigations
    BY <1>0, <1>4 DEF Arrive, Moved
  <2>. QED
    BY <1>0, <1>1, <2>1, ServedDoc
<1>5. CASE Render
  <2>1. /\ doc' = [ListPage(doc.asked) EXCEPT !.old = doc.old] /\ ~steady' /\ doc.asked \in Nat
    BY <1>0, <1>5 DEF Render, Moved, Documents
  <2>2. ListPage(doc.asked) \in Documents /\ ListPage(doc.asked).place = "list"
    BY <1>0, <2>1, ListDoc
  <2>3. doc'.place = "list"
    BY <2>1, <2>2 DEF Documents
  <2>. QED
    BY <1>1, <2>1, <2>3
<1>6. CASE Interfere
  <2>1. /\ ~steady'
        /\ \/ doc.place \in {"editor", "form"} /\ doc' = [doc EXCEPT !.form.text = "typed"]
           \/ doc' = [Plain("gate") EXCEPT !.old = doc.old]
    BY <1>6 DEF Interfere, Moved
  <2>2. doc' = [doc EXCEPT !.form.text = "typed"] => doc'.dialog = doc.dialog /\ doc'.place = doc.place
    BY <1>0 DEF Documents
  <2>3. doc' = [Plain("gate") EXCEPT !.old = doc.old] => doc'.dialog = None
    BY PlainDoc DEF Documents
  <2>. QED
    BY <1>1, <2>1, <2>2, <2>3 DEF PlaceInv
<1>7. CASE Shift \/ (\E a \in Ads : ElsewhereChange(a))
  <2>1. UNCHANGED <<doc, aim>> /\ (~steady' \/ UNCHANGED steady)
    BY <1>7 DEF Shift, ElsewhereChange, Moved, tab, driver
  <2>. QED
    BY <2>1 DEF PlaceInv
<1>8. ASSUME NEW o \in Operation, Begin(o) PROVE PlaceInv'
  <2>1. doc' = [doc EXCEPT !.old = TRUE] /\ aim' = None
    BY <1>8 DEF Begin
  <2>2. doc'.dialog = doc.dialog /\ doc'.place = doc.place
    BY <1>0, <2>1 DEF Documents
  <2>. QED
    BY <2>1, <2>2 DEF PlaceInv
<1>9. ASSUME NEW f \in {"title", "text"}, FillField(f) PROVE PlaceInv'
  <2>1. \/ ~steady' /\ doc' = [doc EXCEPT !.form[f] = expect[f]]
        \/ UNCHANGED doc /\ aim' = None
    BY <1>9 DEF FillField, Moved, EndAs
  <2>2. doc' = [doc EXCEPT !.form[f] = expect[f]] => doc'.dialog = doc.dialog /\ doc'.place = doc.place
    BY <1>0 DEF Documents
  <2>. QED
    BY <1>1, <1>2, <2>1, <2>2 DEF PlaceInv
<1>10. CASE Click \/ ClickFails
  <2>1. ~steady' /\ step = "aimed"
    BY <1>10 DEF Click, ClickFails, Moved
  <2>2. PICK c \in Target \union {None} : Hit(c)
    BY <1>10 DEF Click, ClickFails
  <2>3. /\ doc' \in Documents /\ doc'.place = doc.place
        /\ c # None /\ c.kind = "dialog" => doc'.dialog = c.ad
    BY <1>0, <2>1, <2>2, HitFacts
  <2>4. CASE c # None /\ c.kind = "dialog"
    <3>1. CASE steady
      BY <2>1, <2>2, <2>3, <2>4, <3>1, <1>1 DEF Target, PlaceInv
    <3>2. CASE ~steady
      <4>1. c \in Controls(doc)
        BY <2>2, <2>4, <3>2 DEF Target
      <4>2. doc.place = "list"
        <5>1. doc.place = "editor" => c.kind = "save"
          BY <4>1 DEF Controls, Control
        <5>2. doc.place = "form" => c.kind = "publish"
          BY <4>1 DEF Controls, Control
        <5>3. doc.place \in {"editor", "form", "list"}
          BY <4>1 DEF Controls
        <5>. QED
          BY <2>4, <5>1, <5>2, <5>3
      <4>. QED
        BY <1>1, <2>1, <2>3, <4>2
    <3>. QED
      BY <3>1, <3>2
  <2>5. CASE ~(c # None /\ c.kind = "dialog")
    <3>1. doc' = doc \/ doc' = [doc EXCEPT !.asked = IF @ < LastPage THEN @ + 1 ELSE 1]
      BY <2>2, <2>5 DEF Hit
    <3>2. doc'.dialog = doc.dialog
      BY <1>0, <3>1 DEF Documents
    <3>. QED
      BY <1>1, <2>1, <2>3, <3>2 DEF PlaceInv
  <2>. QED
    BY <2>4, <2>5
<1>11. CASE SeekNextPage \/ AimAtSubmit \/ AimAtDialog
  <2>1. UNCHANGED doc
    BY <1>11 DEF SeekNextPage, AimAtSubmit, AimAtDialog, tab
  <2>2. \/ aim' = None
        \/ aim' = NextControl
        \/ aim' = SubmitControl /\ SubmitControl # None /\ step = "checked"
        \/ aim' = DialogControl(op.ad) /\ AimAtDialog /\ Snapshot.state = "ready"
    BY <1>11 DEF SeekNextPage, AimAtSubmit, AimAtDialog, EndAs
  <2>3. CASE aim' = SubmitControl /\ SubmitControl # None /\ step = "checked"
    <3>1. SubmitControl.kind \in Submitting
      BY <1>0, <2>3, SubmitControlFacts, ControlKinds DEF Knows
    <3>2. aim'.kind # "dialog"
      BY <2>3, <3>1 DEF Submitting
    <3>. QED
      BY <2>1, <3>2 DEF PlaceInv
  <2>4. CASE aim' = DialogControl(op.ad) /\ AimAtDialog /\ Snapshot.state = "ready"
    <3>1. doc.place = "list"
      BY <2>4 DEF AimAtDialog, Snapshot, DeleteSnapshot, NotReady
    <3>. QED
      BY <2>1, <3>1 DEF PlaceInv
  <2>. QED
    BY <2>1, <2>2, <2>3, <2>4, ControlKinds DEF PlaceInv
<1>12. CASE \/ Opened \/ ChooseCategory \/ ReadBefore \/ ReadBeforeSubmit \/ DialogSeen
            \/ ReadConfirmation \/ Settles \/ FailsEarly \/ DoesNotSettle
  <2>1. UNCHANGED <<doc, steady>> /\ (aim' = None \/ aim' = aim)
    BY <1>12 DEF Opened, ChooseCategory, ReadBefore, ReadBeforeSubmit, DialogSeen,
       ReadConfirmation, Settles, FailsEarly, DoesNotSettle, EndAs, Page, tab
  <2>. QED
    BY <2>1 DEF PlaceInv
<1>13. CASE UNCHANGED vars
  BY <1>13 DEF vars, tab, driver, PlaceInv
<1>. QED
  BY <1>3, <1>4, <1>5, <1>6, <1>7, <1>8, <1>9, <1>10, <1>11, <1>12, <1>13
     DEF Next, Drive, Surroundings

\* The platform, the tab and the two operations keep their types: a control is
\* aimed at in one step only, a snapshot is kept only while it is used, and a
\* dialog is open only in a list.
THEOREM PageTypeCorrect == PageSpec => []PageTypeOK
<1>1. Init => DriverInv /\ PlaceInv
  <2> SUFFICES ASSUME Init PROVE DriverInv /\ PlaceInv
    OBVIOUS
  <2>1. doc.dialog = None /\ aim = None
    BY PlainDoc DEF Init
  <2>. QED
    BY <2>1, WebPageConstants DEF Init, DriverInv, PlaceInv, Steps
<1>2. PageInv /\ DriverInv /\ PlaceInv /\ [Next]_vars => (DriverInv /\ PlaceInv)'
  BY DriverStep, PlaceStep DEF PageInv
<1>3. PageInv /\ DriverInv /\ PlaceInv => PageTypeOK
  BY DEF PageInv, AttemptInv, Knows, TabInv, DriverInv, PlaceInv, PageTypeOK, Steps, Idle
<1>. QED
  BY <1>1, <1>2, <1>3, PageInvariance, PTL DEF PageSpec

=============================================================================
