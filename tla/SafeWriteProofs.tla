-------------------------- MODULE SafeWriteProofs --------------------------
(***************************************************************************)
(* Proofs about SafeWrite, for any number of ids, operations, foreign      *)
(* changes and reads that miss an ad.                                      *)
(***************************************************************************)
EXTENDS SafeWrite, TLAPS

Submitting == {"gate", "confirm_pre", "open", "submit"}

\* Receipts belong to finished operations, submits to begun ones.
SubmitInv ==
    /\ \A n \in submitted : n <= count
    /\ \A r \in receipts : r.op \in Nat /\ r.op <= count
    /\ step # "idle" => \A r \in receipts : r.op # count
    /\ step \in Submitting => count \notin submitted
    /\ NotAttemptedMeansUntouched

-----------------------------------------------------------------------------
(* What a receipt says about the platform.                                 *)

CountInv == count \in Nat /\ submitted \subseteq Nat

\* A receipt may deny the attempt only while nothing was submitted.
LEMMA ReportKeepsSubmits ==
  ASSUME CountInv, SubmitInv, NEW outcome, NEW id, Report(outcome, id), step # "idle",
         outcome = "precondition_failed" => step \in Submitting
  PROVE  (CountInv /\ SubmitInv)'
<1> DEFINE r == [op |-> count, kind |-> op.kind, id |-> id, outcome |-> outcome,
                 old |-> old, held |-> held]
<1>1. r.op = count /\ r.outcome = outcome
  OBVIOUS
<1>2. receipts' = receipts \union {r} /\ step' = "idle" /\ UNCHANGED <<count, submitted>>
  BY DEF Report, Return
<1> HIDE DEF r
<1>. QED
  BY <1>1, <1>2 DEF CountInv, SubmitInv, Submitting, NotAttemptedMeansUntouched

\* An operation that goes on does not return to a step before the submit.
LEMMA GoingOnKeepsSubmits ==
  ASSUME CountInv, SubmitInv, NEW next, GoOn(next), step # "idle",
         next \in Submitting => step \in Submitting
  PROVE  (CountInv /\ SubmitInv)'
BY DEF GoOn, history, CountInv, SubmitInv, Submitting, NotAttemptedMeansUntouched

\* Every step keeps receipts and submits apart.
LEMMA SubmitStep ==
  ASSUME CountInv, SubmitInv, [Next]_vars
  PROVE  (CountInv /\ SubmitInv)'
<1> USE SafeWriteConstants DEF platform
<1>1. ASSUME NEW o \in Operations, Begin(o) PROVE (CountInv /\ SubmitInv)'
  BY <1>1 DEF Begin, reads, CountInv, SubmitInv, Submitting, NotAttemptedMeansUntouched
<1>2. CASE Reject
  BY <1>2, ReportKeepsSubmits DEF Reject, NotAttempted, Submitting
<1>3. CASE ReadBefore
  <2>1. GoOn("confirm_pre") \/ GoOn("open") \/ Report("precondition_failed", None)
    BY <1>3 DEF ReadBefore, NotAttempted
  <2>. QED
    BY <1>3, <2>1, GoingOnKeepsSubmits, ReportKeepsSubmits DEF ReadBefore, Submitting
<1>4. CASE ConfirmBefore
  BY <1>4, GoingOnKeepsSubmits DEF ConfirmBefore, Submitting
<1>5. CASE Open
  <2>1. GoOn("post") \/ GoOn("submit")
    BY <1>5 DEF Open
  <2>. QED
    BY <1>5, <2>1, GoingOnKeepsSubmits DEF Open, Submitting
<1>6. CASE PageNotReady
  BY <1>6, ReportKeepsSubmits DEF PageNotReady, NotAttempted, Submitting
<1>7. CASE PageErrorIsAmbiguous
  BY <1>7, GoingOnKeepsSubmits DEF PageErrorIsAmbiguous, Submitting
<1>8. CASE Submit
  BY <1>8 DEF Submit, reads, CountInv, SubmitInv, Submitting, NotAttemptedMeansUntouched
<1>9. CASE ReadAfter
  <2>1. Report("confirmed", op.id) \/ Report("ambiguous", None)
    BY <1>9 DEF ReadAfter, Ambiguous
  <2>. QED
    BY <1>9, <2>1, ReportKeepsSubmits DEF ReadAfter, Submitting
<1>10. CASE ReadFirstAfter
  BY <1>10, GoingOnKeepsSubmits DEF ReadFirstAfter, Submitting
<1>11. CASE ConfirmDelete
  <2>1. Report("confirmed", op.id) \/ Report("ambiguous", None)
    BY <1>11 DEF ConfirmDelete, Ambiguous
  <2>. QED
    BY <1>11, <2>1, ReportKeepsSubmits DEF ConfirmDelete, Submitting
<1>12. CASE MatchInventories
  <2>1. GoOn("content") \/ Report("ambiguous", None)
    BY <1>12 DEF MatchInventories, Ambiguous
  <2>. QED
    BY <1>12, <2>1, GoingOnKeepsSubmits, ReportKeepsSubmits DEF MatchInventories, Submitting
<1>13. CASE ReadContent
  <2>1. Report("confirmed", candidate) \/ Report("ambiguous", None)
    BY <1>13 DEF ReadContent, Ambiguous
  <2>. QED
    BY <1>13, <2>1, ReportKeepsSubmits DEF ReadContent, Submitting
<1>14. CASE ReadAfterFails
  <2>1. Report("confirmed", op.id) \/ Report("ambiguous", None)
    BY <1>14 DEF ReadAfterFails, Ambiguous
  <2>. QED
    BY <1>14, <2>1, ReportKeepsSubmits DEF ReadAfterFails, Submitting
<1>15. CASE Abandon
  BY <1>15 DEF Abandon, Return, history, CountInv, SubmitInv, Submitting, NotAttemptedMeansUntouched
<1>16. CASE Land
  BY <1>16 DEF Land, history, reads, CountInv, SubmitInv, Submitting, NotAttemptedMeansUntouched
<1>17. CASE Lose
  BY <1>17 DEF Lose, history, reads, CountInv, SubmitInv, Submitting, NotAttemptedMeansUntouched
<1>18. CASE ForeignChange
  BY <1>18 DEF ForeignChange, history, reads, CountInv, SubmitInv, Submitting, NotAttemptedMeansUntouched
<1>19. CASE UNCHANGED vars
  BY <1>19 DEF vars, reads, history, CountInv, SubmitInv, Submitting, NotAttemptedMeansUntouched
<1>. QED
  BY <1>1, <1>2, <1>3, <1>4, <1>5, <1>6, <1>7, <1>8, <1>9, <1>10, <1>11, <1>12,
     <1>13, <1>14, <1>15, <1>16, <1>17, <1>18, <1>19 DEF Next

\* A receipt that denies the attempt is true and stays true: for any number
\* of operations, late effects and foreign changes, the operation submitted
\* nothing.
THEOREM DenialsAreTrue == SafeWriteSpec => []NotAttemptedMeansUntouched
<1>1. Init => CountInv /\ SubmitInv
  BY DEF Init, CountInv, SubmitInv, NotAttemptedMeansUntouched
<1>2. CountInv /\ SubmitInv /\ [Next]_vars => (CountInv /\ SubmitInv)'
  BY SubmitStep
<1>3. SubmitInv => NotAttemptedMeansUntouched
  BY DEF SubmitInv
<1>. QED
  BY <1>1, <1>2, <1>3, PTL DEF SafeWriteSpec

-----------------------------------------------------------------------------
(* The types.                                                              *)

Forms == [title : Titles, text : Texts]

\* A running operation is one, and has a number; what is submitted is a form.
RunTypes ==
    /\ step # "idle" => op \in Operations /\ count >= 1
    /\ step = "submit" => form \in Forms

PlatformTypes ==
    /\ ads \in [Ids -> Ad \union {None}]
    /\ used \subseteq Ids
    /\ inflight \subseteq Submits
    /\ foreign \in 0..MaxForeign

TypeInv == SafeWriteTypeOK /\ RunTypes

\* What a read returns is what is there, without at most one ad.
LEMMA ReadMayMiss ==
  ASSUME NEW view \in Views, ads \in [Ids -> Ad \union {None}], misses \in 0..MaxMisses
  PROVE  /\ view \in [Ids -> Ad \union {None}]
         /\ \A i \in Ids : view[i] = ads[i] \/ view[i] = None
         /\ Saw(view) => misses' \in 0..MaxMisses
         /\ Saw(view) => (view = ads /\ misses' = misses) \/ misses = misses' - 1
<1>1. CASE view = ads
  BY <1>1 DEF Saw
<1>2. CASE view # ads
  <2>1. misses < MaxMisses /\ \E i \in Ids : view = [ads EXCEPT ![i] = None]
    BY <1>2 DEF Views, Present
  <2>. QED
    BY <1>2, <2>1, SafeWriteConstants DEF Saw
<1>. QED
  BY <1>1, <1>2

\* The end of an operation.
LEMMA ReturnTypes ==
  ASSUME TypeInv, Return, UNCHANGED <<platform, count, submitted>>
  PROVE  TypeInv'
<1>1. PlatformTypes' /\ count' \in 0..MaxOps /\ submitted' \subseteq 1..MaxOps
  BY DEF TypeInv, SafeWriteTypeOK, PlatformTypes, platform
<1>2. step' = "idle" /\ op' \in Operations \union {None} /\ post' = None /\ candidate' = None
  BY DEF Return
<1>3. pre' \subseteq Ids /\ confirmPre' \subseteq Ids /\ old' \subseteq Ids /\ held' \in BOOLEAN
  BY DEF Return
<1>4. misses' \in 0..MaxMisses
  BY SafeWriteConstants DEF Return
<1>. QED
  BY <1>1, <1>2, <1>3, <1>4 DEF TypeInv, SafeWriteTypeOK, RunTypes, PlatformTypes

LEMMA ReportTypes ==
  ASSUME TypeInv, NEW outcome, NEW id, Report(outcome, id)
  PROVE  TypeInv'
BY ReturnTypes DEF Report

\* An operation that goes on: what it has read must be typed.
LEMMA GoOnTypes ==
  ASSUME TypeInv, NEW next, GoOn(next), step # "idle",
         next \in {"gate", "confirm_pre", "open", "submit", "post", "confirm_post", "content"},
         pre' \subseteq Ids, confirmPre' \subseteq Ids,
         post' \in [Ids -> Ad \union {None}] \union {None},
         candidate' \in Ids \union {None}, misses' \in 0..MaxMisses,
         next = "submit" => form' \in Forms
  PROVE  TypeInv'
BY DEF TypeInv, SafeWriteTypeOK, RunTypes, GoOn, platform, history

\* What others do, and forms that take effect, leave the operation alone.
LEMMA PlatformStepTypes ==
  ASSUME TypeInv, PlatformTypes', UNCHANGED <<step, op, form, reads, old, history>>,
         held' \in BOOLEAN
  PROVE  TypeInv'
BY DEF TypeInv, SafeWriteTypeOK, RunTypes, PlatformTypes, reads, history

\* Every action keeps the types.
LEMMA TypeStep ==
  ASSUME TypeInv, [Next]_vars
  PROVE  TypeInv'
<1>. USE SafeWriteConstants
<1>0. /\ ads \in [Ids -> Ad \union {None}] /\ misses \in 0..MaxMisses
      /\ pre \subseteq Ids /\ confirmPre \subseteq Ids
      /\ post \in [Ids -> Ad \union {None}] \union {None} /\ candidate \in Ids \union {None}
  BY DEF TypeInv, SafeWriteTypeOK
<1>1. ASSUME NEW o \in Operations, Begin(o) PROVE TypeInv'
  <2>1. count' \in 0..MaxOps /\ count' >= 1 /\ submitted' \subseteq 1..MaxOps
    BY <1>1 DEF Begin, TypeInv, SafeWriteTypeOK
  <2>2. held' \in BOOLEAN
    BY <1>1 DEF Begin, Goal
  <2>3. /\ op' \in Operations /\ step' = "gate" /\ old' \subseteq Ids
        /\ UNCHANGED <<platform, form, reads>>
    BY <1>1 DEF Begin, TypeInv, SafeWriteTypeOK
  <2>. QED
    BY <2>1, <2>2, <2>3 DEF TypeInv, SafeWriteTypeOK, RunTypes, platform, reads
<1>2. CASE Reject \/ PageNotReady \/ ReadAfter \/ ConfirmDelete \/ ReadContent \/ ReadAfterFails
  <2>1. \E outcome, id : Report(outcome, id)
    BY <1>2 DEF Reject, PageNotReady, ReadAfter, ConfirmDelete, ReadContent, ReadAfterFails,
       NotAttempted, Ambiguous
  <2>. QED
    BY <2>1, ReportTypes
<1>3. CASE ReadBefore
  <2>1. PICK view \in Views :
          \/ /\ pre' = Present(view)
             /\ Saw(view) /\ GoOn("confirm_pre")
             /\ UNCHANGED <<confirmPre, post, candidate>>
          \/ Saw(view) /\ GoOn("open") /\ UNCHANGED <<pre, confirmPre, post, candidate>>
          \/ Report("precondition_failed", None)
    BY <1>3 DEF ReadBefore, NotAttempted
  <2>2. CASE Report("precondition_failed", None)
    BY <2>2, ReportTypes
  <2>3. CASE ~Report("precondition_failed", None)
    <3>1. misses' \in 0..MaxMisses /\ pre' \subseteq Ids
      BY <1>0, <2>1, <2>3, ReadMayMiss DEF Present
    <3>. QED
      BY <1>0, <1>3, <2>1, <2>3, <3>1, GoOnTypes DEF ReadBefore
  <2>. QED
    BY <2>2, <2>3
<1>4. CASE ConfirmBefore
  <2>1. misses' \in 0..MaxMisses /\ confirmPre' \subseteq Ids
    BY <1>0, <1>4, ReadMayMiss DEF ConfirmBefore, Present
  <2>. QED
    BY <1>0, <1>4, <2>1, GoOnTypes DEF ConfirmBefore
<1>5. CASE Open
  <2>1. GoOn("post") \/ (GoOn("submit") /\ form' \in Forms)
    <3>1. CASE GoOn("submit") /\ ~GoOn("post")
      <4>1. op \in Operations /\ (op.kind # "create" => op.id \in Ids /\ ads[op.id] \in Ad)
        BY <1>0, <1>5 DEF Open, TypeInv, RunTypes, Operations
      <4>2. form' = [title |-> IF op.title = None THEN ads[op.id].title ELSE op.title,
                     text  |-> IF op.text = None THEN ads[op.id].text ELSE op.text]
        BY <1>5, <3>1 DEF Open
      <4>3. CASE op.kind = "create"
        <5>1. op.title \in Titles /\ op.text \in Texts
          BY <4>1, <4>3 DEF Operations
        <5>. QED
          BY <3>1, <4>2, <5>1 DEF Forms
      <4>4. CASE op.kind # "create"
        <5>1. op.title \in Titles \union {None} /\ op.text \in Texts \union {None}
          BY <4>1 DEF Operations
        <5>2. ads[op.id].title \in Titles /\ ads[op.id].text \in Texts
          BY <4>1, <4>4 DEF Ad
        <5>. QED
          BY <4>2, <5>1, <5>2, <3>1 DEF Forms
      <4>. QED
        BY <4>3, <4>4
    <3>. QED
      BY <1>5, <3>1 DEF Open
  <2>2. step # "idle" /\ UNCHANGED reads
    BY <1>5 DEF Open
  <2>. QED
    BY <1>0, <2>1, <2>2, GoOnTypes DEF reads
<1>6. CASE PageErrorIsAmbiguous
  BY <1>0, <1>6, GoOnTypes DEF PageErrorIsAmbiguous, reads
<1>7. CASE Submit
  <2>1. op \in Operations /\ form \in Forms /\ count \in 1..MaxOps
    BY <1>7 DEF Submit, TypeInv, RunTypes, SafeWriteTypeOK
  <2>2. op.kind \in {"create", "update", "pause", "activate", "delete"} /\ op.id \in Ids \union {None}
    BY <2>1 DEF Operations
  <2>3. Effect \in Submits
    BY <2>1, <2>2 DEF Effect, Submits, Forms
  <2>4. inflight' \subseteq Submits /\ submitted' \subseteq 1..MaxOps
    BY <1>7, <2>1, <2>3 DEF Submit, TypeInv, SafeWriteTypeOK
  <2>. QED
    BY <1>7, <2>4 DEF Submit, TypeInv, SafeWriteTypeOK, RunTypes, reads
<1>8. CASE ReadFirstAfter
  <2>1. misses' \in 0..MaxMisses /\ post' \in [Ids -> Ad \union {None}] \union {None}
    BY <1>0, <1>8, ReadMayMiss DEF ReadFirstAfter
  <2>. QED
    BY <1>0, <1>8, <2>1, GoOnTypes DEF ReadFirstAfter
<1>9. CASE MatchInventories
  <2>1. PICK view \in Views :
          \/ /\ candidate' \in NewIn(post, pre) /\ Saw(view) /\ GoOn("content")
             /\ UNCHANGED <<pre, confirmPre, post>>
          \/ Report("ambiguous", None)
    BY <1>9 DEF MatchInventories, Ambiguous
  <2>2. CASE Report("ambiguous", None)
    BY <2>2, ReportTypes
  <2>3. CASE ~Report("ambiguous", None)
    <3>1. misses' \in 0..MaxMisses /\ candidate' \in Ids
      BY <1>0, <2>1, <2>3, ReadMayMiss DEF NewIn, Present
    <3>. QED
      BY <1>0, <1>9, <2>1, <2>3, <3>1, GoOnTypes DEF MatchInventories
  <2>. QED
    BY <2>2, <2>3
<1>10. CASE Abandon
  BY <1>10, ReturnTypes DEF Abandon, history
<1>11. CASE Land
  <2>1. PICK e \in inflight :
          /\ inflight' = inflight \ {e}
          /\ \/ \E i \in Ids \ used, s \in {"pending", "active"} :
                   /\ ads' = [ads EXCEPT ![i] = NewAd(e, s)]
                   /\ used' = used \union {i}
             \/ /\ ads[e.id] # None
                /\ ads' = [ads EXCEPT ![e.id] = Changed(e, ads[e.id])]
                /\ UNCHANGED used
    BY <1>11 DEF Land
  <2>2. e \in Submits
    BY DEF TypeInv, SafeWriteTypeOK
  <2>3. \A s \in States : NewAd(e, s) \in Ad
    BY <2>2 DEF Submits, NewAd, Ad
  <2>4. \A ad \in Ad : Changed(e, ad) \in Ad \union {None}
    BY <2>3 DEF Changed, Ad, TargetState, States
  <2>5. ads' \in [Ids -> Ad \union {None}]
    <3>1. CASE \E i \in Ids \ used, s \in {"pending", "active"} :
                 ads' = [ads EXCEPT ![i] = NewAd(e, s)]
      BY <1>0, <2>3, <3>1 DEF States
    <3>2. CASE ads[e.id] # None /\ ads' = [ads EXCEPT ![e.id] = Changed(e, ads[e.id])]
      <4>1. CASE e.id \in Ids
        BY <1>0, <2>4, <3>2, <4>1
      <4>2. CASE e.id \notin Ids
        BY <1>0, <3>2, <4>2
      <4>. QED
        BY <4>1, <4>2
    <3>. QED
      BY <2>1, <3>1, <3>2
  <2>6. PlatformTypes'
    BY <1>11, <2>1, <2>5 DEF Land, PlatformTypes, TypeInv, SafeWriteTypeOK
  <2>7. held' \in BOOLEAN
    BY <1>11 DEF Land, HoldsNow
  <2>. QED
    BY <1>11, <2>6, <2>7, PlatformStepTypes DEF Land
<1>12. CASE Lose
  <2>1. PlatformTypes' /\ held' \in BOOLEAN
    BY <1>12 DEF Lose, PlatformTypes, TypeInv, SafeWriteTypeOK
  <2>. QED
    BY <1>12, <2>1, PlatformStepTypes DEF Lose
<1>13. CASE ForeignChange
  <2>1. ads' \in [Ids -> Ad \union {None}] /\ used' \subseteq Ids
    BY <1>0, <1>13 DEF ForeignChange, Present, TypeInv, SafeWriteTypeOK
  <2>2. foreign' \in 0..MaxForeign
    BY <1>13 DEF ForeignChange, TypeInv, SafeWriteTypeOK
  <2>3. PlatformTypes'
    BY <1>13, <2>1, <2>2 DEF ForeignChange, PlatformTypes, TypeInv, SafeWriteTypeOK
  <2>4. held' \in BOOLEAN
    BY <1>13 DEF ForeignChange, HoldsNow
  <2>. QED
    BY <1>13, <2>3, <2>4, PlatformStepTypes DEF ForeignChange
<1>14. CASE UNCHANGED vars
  BY <1>14 DEF vars, platform, reads, history, TypeInv, SafeWriteTypeOK, RunTypes
<1>. QED
  BY <1>1, <1>2, <1>3, <1>4, <1>5, <1>6, <1>7, <1>8, <1>9, <1>10, <1>11, <1>12,
     <1>13, <1>14 DEF Next

LEMMA TypesAlways == SafeWriteSpec => []TypeInv
<1>1. Init => TypeInv
  <2>. SUFFICES ASSUME Init PROVE TypeInv
    OBVIOUS
  <2>1. ads \in [Ids -> Ad \union {None}] /\ used \subseteq Ids /\ inflight \subseteq Submits
    BY DEF Init
  <2>2. foreign \in 0..MaxForeign /\ misses \in 0..MaxMisses /\ count \in 0..MaxOps
    BY SafeWriteConstants DEF Init
  <2>3. step = "idle" /\ op = None /\ post = None /\ candidate = None /\ held \in BOOLEAN
    BY DEF Init
  <2>4. pre = {} /\ confirmPre = {} /\ old = {} /\ submitted = {}
    BY DEF Init
  <2>. QED
    BY <2>1, <2>2, <2>3, <2>4 DEF TypeInv, SafeWriteTypeOK, RunTypes
<1>2. TypeInv /\ [Next]_vars => TypeInv'
  BY TypeStep
<1>. QED
  BY <1>1, <1>2, PTL DEF SafeWriteSpec

\* The platform, the operation that runs and the receipts are what the
\* specification says they are.
THEOREM SafeWriteTypeCorrect == SafeWriteSpec => []SafeWriteTypeOK
<1>1. TypeInv => SafeWriteTypeOK
  BY DEF TypeInv
<1>. QED
  BY <1>1, TypesAlways, PTL

-----------------------------------------------------------------------------
(* What a confirmation says about the platform, when at most one read of   *)
(* an operation misses an ad.                                              *)

UsedInv == \A i \in Ids : ads[i] # None => i \in used

\* While an operation runs, its goal does not hold unnoticed.
RunInv ==
    step # "idle" =>
        /\ old \subseteq used
        /\ op.id # None => op.id \in used
        /\ Goal(op, ads, old) => held

\* What the reads of the operation have shown so far.  An ad that was there
\* when a create began, and that both reads before the attempt did not see,
\* is gone: one of the two was complete.  So is the ad of a delete that the
\* read after the attempt did not see, unless that read has missed it.
ReadsInv ==
    /\ step \notin {"confirm_post", "content"} => post = None
    /\ step = "confirm_pre" =>
          op.kind = "create" /\ (misses = 0 => \A i \in old \ pre : ads[i] = None)
    /\ (step \in {"open", "submit", "post", "confirm_post"} /\ op.kind = "create") =>
          \A i \in old \ (pre \union confirmPre) : ads[i] = None
    /\ (/\ step = "confirm_post" /\ op.kind = "delete"
        /\ post # None /\ post[op.id] = None /\ misses = 0) => ads[op.id] = None
    /\ step = "content" => op.kind = "create" /\ candidate \in used \ old

\* A confirmed delete is final because ids are not given twice.
DeletedIsGone ==
    \A r \in Confirmed : r.kind = "delete" => r.id \in used /\ ads[r.id] = None

ReceiptsInv == ConfirmedWasTrue /\ ConfirmedCreateNamesNewAd /\ DeletedIsGone

EvidenceInv == UsedInv /\ RunInv /\ ReadsInv /\ ReceiptsInv

\* A running operation on an ad has the id of an ad.
LEMMA TargetIsAnAd ==
  ASSUME TypeInv, step # "idle", op.kind # "create"
  PROVE  op.id \in Ids /\ op.id # None
BY SafeWriteConstants DEF TypeInv, RunTypes, Operations

\* The end of an operation: what a confirmation must have.
LEMMA ReportKeepsEvidence ==
  ASSUME EvidenceInv, NEW outcome, NEW id, Report(outcome, id),
         outcome = "confirmed" =>
            /\ held
            /\ op.kind = "delete" => id \in used /\ ads[id] = None
            /\ op.kind = "create" => id \in used \ old
  PROVE  EvidenceInv'
<1>. DEFINE r == [op |-> count, kind |-> op.kind, id |-> id, outcome |-> outcome,
                  old |-> old, held |-> held]
<1>1. r.kind = op.kind /\ r.id = id /\ r.outcome = outcome /\ r.old = old /\ r.held = held
  OBVIOUS
<1>2. receipts' = receipts \union {r} /\ UNCHANGED <<ads, used>>
  BY DEF Report, platform
<1>3. step' = "idle" /\ post' = None
  BY DEF Report, Return
<1>. HIDE DEF r
<1>4. ReceiptsInv'
  BY <1>1, <1>2 DEF EvidenceInv, ReceiptsInv, ConfirmedWasTrue, ConfirmedCreateNamesNewAd,
     DeletedIsGone, Confirmed
<1>5. UsedInv' /\ RunInv' /\ ReadsInv'
  BY <1>2, <1>3 DEF EvidenceInv, UsedInv, RunInv, ReadsInv
<1>. QED
  BY <1>4, <1>5 DEF EvidenceInv

\* An operation that goes on: what its reads have shown must be known.
LEMMA GoOnKeepsEvidence ==
  ASSUME EvidenceInv, step # "idle", NEW next, GoOn(next), ReadsInv'
  PROVE  EvidenceInv'
<1>1. step' = next /\ UNCHANGED <<ads, used, op, old, held, receipts>>
  BY DEF GoOn, platform, history
<1>2. UsedInv' /\ RunInv'
  BY <1>1 DEF EvidenceInv, UsedInv, RunInv
<1>3. ReceiptsInv'
  BY <1>1 DEF EvidenceInv, ReceiptsInv, ConfirmedWasTrue, ConfirmedCreateNamesNewAd,
     DeletedIsGone, Confirmed
<1>. QED
  BY <1>2, <1>3 DEF EvidenceInv

\* What is gone stays gone, whoever changes the platform.
GoneStays ==
    /\ used \subseteq used'
    /\ \A i \in used : ads[i] = None => ads'[i] = None

\* What others do, and forms that take effect, keep the evidence.
LEMMA PlatformStepKeepsEvidence ==
  ASSUME TypeInv, EvidenceInv, GoneStays, UsedInv',
         UNCHANGED <<step, op, form, reads, old, history>>,
         held => held', (step # "idle" /\ Goal(op, ads', old)) => held'
  PROVE  EvidenceInv'
<1>1. UNCHANGED <<pre, confirmPre, post, candidate, misses, receipts>>
  BY DEF reads, history
<1>2. RunInv'
  BY DEF EvidenceInv, RunInv, GoneStays
<1>3. ReadsInv'
  <2>1. old \subseteq used \/ step = "idle"
    BY DEF EvidenceInv, RunInv
  <2>2. (step # "idle" /\ op.kind = "delete") => op.id \in used
    BY TargetIsAnAd DEF EvidenceInv, RunInv
  <2>3. (step = "confirm_post" /\ op.kind = "delete" /\ post # None /\ post[op.id] = None
         /\ misses = 0) => ads'[op.id] = None
    BY <2>2 DEF EvidenceInv, ReadsInv, GoneStays
  <2>4. step = "confirm_pre" =>
          op.kind = "create" /\ (misses = 0 => \A i \in old \ pre : ads'[i] = None)
    BY <2>1 DEF EvidenceInv, ReadsInv, GoneStays
  <2>5. (step \in {"open", "submit", "post", "confirm_post"} /\ op.kind = "create") =>
          \A i \in old \ (pre \union confirmPre) : ads'[i] = None
    BY <2>1 DEF EvidenceInv, ReadsInv, GoneStays
  <2>6. step = "content" => op.kind = "create" /\ candidate \in used' \ old
    BY DEF EvidenceInv, ReadsInv, GoneStays
  <2>. QED
    BY <1>1, <2>3, <2>4, <2>5, <2>6 DEF EvidenceInv, ReadsInv
<1>4. ReceiptsInv'
  BY <1>1 DEF EvidenceInv, ReceiptsInv, ConfirmedWasTrue, ConfirmedCreateNamesNewAd,
     DeletedIsGone, Confirmed, GoneStays
<1>. QED
  BY <1>2, <1>3, <1>4 DEF EvidenceInv

\* Forms take effect, or do not; others change ads.
LEMMA PlatformKeepsEvidence ==
  ASSUME TypeInv, EvidenceInv, Land \/ Lose \/ ForeignChange
  PROVE  EvidenceInv'
<1>0. ads \in [Ids -> Ad \union {None}] /\ used \subseteq Ids
  BY DEF TypeInv, SafeWriteTypeOK
<1>1. CASE Land
  <2>1. PICK e \in inflight :
          \/ \E i \in Ids \ used, s \in {"pending", "active"} :
                /\ ads' = [ads EXCEPT ![i] = NewAd(e, s)]
                /\ used' = used \union {i}
          \/ /\ ads[e.id] # None
             /\ ads' = [ads EXCEPT ![e.id] = Changed(e, ads[e.id])]
             /\ UNCHANGED used
    BY <1>1 DEF Land
  <2>2. GoneStays /\ UsedInv'
    <3>1. CASE \E i \in Ids \ used, s \in {"pending", "active"} :
                /\ ads' = [ads EXCEPT ![i] = NewAd(e, s)]
                /\ used' = used \union {i}
      BY <1>0, <3>1 DEF GoneStays, UsedInv, EvidenceInv
    <3>2. CASE /\ ads[e.id] # None
               /\ ads' = [ads EXCEPT ![e.id] = Changed(e, ads[e.id])]
               /\ UNCHANGED used
      BY <1>0, <3>2 DEF GoneStays, UsedInv, EvidenceInv
    <3>. QED
      BY <2>1, <3>1, <3>2
  <2>. QED
    BY <1>1, <2>2, PlatformStepKeepsEvidence DEF Land, HoldsNow
<1>2. CASE Lose
  <2>1. GoneStays /\ UsedInv'
    BY <1>2 DEF Lose, GoneStays, UsedInv, EvidenceInv
  <2>2. (step # "idle" /\ Goal(op, ads', old)) => held'
    BY <1>2 DEF Lose, EvidenceInv, RunInv
  <2>. QED
    BY <1>2, <2>1, <2>2, PlatformStepKeepsEvidence DEF Lose
<1>3. CASE ForeignChange
  <2>1. GoneStays /\ UsedInv'
    BY <1>0, <1>3 DEF ForeignChange, GoneStays, UsedInv, EvidenceInv, Present
  <2>. QED
    BY <1>3, <2>1, PlatformStepKeepsEvidence DEF ForeignChange, HoldsNow
<1>. QED
  BY <1>1, <1>2, <1>3

\* The steps that begin an operation or end one without a confirmation.
LEMMA EndsKeepEvidence ==
  ASSUME TypeInv, EvidenceInv,
         \/ \E o \in Operations : Begin(o)
         \/ Reject \/ PageNotReady \/ ReadAfterFails \/ Abandon
  PROVE  EvidenceInv'
<1>1. ASSUME NEW o \in Operations, Begin(o) PROVE EvidenceInv'
  <2>1. /\ UNCHANGED <<ads, used, receipts, post>> /\ op' = o /\ step' = "gate" /\ post = None
        /\ old' = used /\ held' = Goal(o, ads, used) /\ (o.id # None => o.id \in used)
    BY <1>1 DEF Begin, platform, reads, EvidenceInv, ReadsInv
  <2>2. RunInv'
    BY <2>1 DEF RunInv
  <2>3. ReadsInv' /\ UsedInv'
    BY <2>1 DEF EvidenceInv, UsedInv, ReadsInv
  <2>4. ReceiptsInv'
    BY <2>1 DEF EvidenceInv, ReceiptsInv, ConfirmedWasTrue, ConfirmedCreateNamesNewAd,
       DeletedIsGone, Confirmed
  <2>. QED
    BY <2>2, <2>3, <2>4 DEF EvidenceInv
<1>2. CASE Reject \/ PageNotReady \/ ReadAfterFails
  BY <1>2, ReportKeepsEvidence DEF Reject, PageNotReady, ReadAfterFails, NotAttempted, Ambiguous
<1>3. CASE Abandon
  <2>1. UNCHANGED <<ads, used, receipts>> /\ step' = "idle" /\ post' = None
    BY <1>3 DEF Abandon, Return, platform, history
  <2>2. UsedInv' /\ RunInv' /\ ReadsInv'
    BY <2>1 DEF EvidenceInv, UsedInv, RunInv, ReadsInv
  <2>3. ReceiptsInv'
    BY <2>1 DEF EvidenceInv, ReceiptsInv, ConfirmedWasTrue, ConfirmedCreateNamesNewAd,
       DeletedIsGone, Confirmed
  <2>. QED
    BY <2>2, <2>3 DEF EvidenceInv
<1>. QED
  BY <1>1, <1>2, <1>3

\* The two reads before the attempt, and the attempt.
LEMMA AttemptKeepsEvidence ==
  ASSUME MaxMisses <= 1, TypeInv, EvidenceInv,
         ReadBefore \/ ConfirmBefore \/ Open \/ PageErrorIsAmbiguous \/ Submit
  PROVE  EvidenceInv'
<1>. USE SafeWriteConstants
<1>0. /\ ads \in [Ids -> Ad \union {None}] /\ misses \in 0..MaxMisses /\ old \subseteq Ids
  BY DEF TypeInv, SafeWriteTypeOK
<1>1. CASE ReadBefore
  <2>1. PICK view \in Views :
          \/ /\ op.kind = "create" /\ pre' = Present(view)
             /\ Saw(view) /\ GoOn("confirm_pre") /\ UNCHANGED post
          \/ op.kind # "create" /\ GoOn("open") /\ UNCHANGED post
          \/ Report("precondition_failed", None)
    BY <1>1 DEF ReadBefore, NotAttempted
  <2>2. CASE op.kind = "create" /\ pre' = Present(view) /\ Saw(view) /\ GoOn("confirm_pre")
             /\ UNCHANGED post
    <3>1. post' = None /\ UNCHANGED <<ads, op, old>> /\ step' = "confirm_pre"
      BY <1>1, <2>2 DEF ReadBefore, GoOn, platform, EvidenceInv, ReadsInv
    <3>2. misses' = 0 => view = ads
      BY <1>0, <2>2 DEF Saw
    <3>3. misses' = 0 => \A i \in old \ pre' : ads[i] = None
      BY <1>0, <2>2, <3>2 DEF Present
    <3>4. ReadsInv'
      BY <2>2, <3>1, <3>3 DEF ReadsInv
    <3>. QED
      BY <1>1, <2>2, <3>4, GoOnKeepsEvidence DEF ReadBefore
  <2>3. CASE op.kind # "create" /\ GoOn("open") /\ UNCHANGED post
    <3>1. post' = None /\ UNCHANGED op /\ step' = "open"
      BY <1>1, <2>3 DEF ReadBefore, GoOn, EvidenceInv, ReadsInv
    <3>2. ReadsInv'
      BY <2>3, <3>1 DEF ReadsInv
    <3>. QED
      BY <1>1, <2>3, <3>2, GoOnKeepsEvidence DEF ReadBefore
  <2>4. CASE Report("precondition_failed", None)
    BY <2>4, ReportKeepsEvidence
  <2>. QED
    BY <2>1, <2>2, <2>3, <2>4
<1>2. CASE ConfirmBefore
  <2>1. PICK view \in Views : Saw(view) /\ confirmPre' = Present(view)
    BY <1>2 DEF ConfirmBefore
  <2>2. UNCHANGED <<pre, post, ads, op, old>> /\ step' = "open" /\ post' = None
    BY <1>2 DEF ConfirmBefore, GoOn, platform, EvidenceInv, ReadsInv
  <2>3. \A i \in old \ (pre \union confirmPre') : ads[i] = None
    <3>1. CASE view = ads
      BY <1>0, <2>1, <3>1 DEF Present
    <3>2. CASE view # ads
      <4>1. misses = 0
        BY <1>0, <3>2 DEF Views
      <4>. QED
        BY <1>2, <4>1 DEF ConfirmBefore, EvidenceInv, ReadsInv
    <3>. QED
      BY <3>1, <3>2
  <2>4. ReadsInv'
    BY <2>2, <2>3 DEF ReadsInv
  <2>. QED
    BY <1>2, <2>4, GoOnKeepsEvidence DEF ConfirmBefore
<1>3. ASSUME step \in {"open", "submit"}, step' \in {"submit", "post"},
             UNCHANGED <<ads, used, op, old, held, receipts, pre, confirmPre, post>>
      PROVE  EvidenceInv'
  <2>1. post' = None
    BY <1>3 DEF EvidenceInv, ReadsInv
  <2>2. UsedInv' /\ RunInv'
    BY <1>3 DEF EvidenceInv, UsedInv, RunInv
  <2>3. ReadsInv'
    BY <1>3, <2>1 DEF EvidenceInv, ReadsInv
  <2>4. ReceiptsInv'
    BY <1>3 DEF EvidenceInv, ReceiptsInv, ConfirmedWasTrue, ConfirmedCreateNamesNewAd,
       DeletedIsGone, Confirmed
  <2>. QED
    BY <2>2, <2>3, <2>4 DEF EvidenceInv
<1>4. CASE Open \/ PageErrorIsAmbiguous \/ Submit
  BY <1>3, <1>4 DEF Open, PageErrorIsAmbiguous, Submit, GoOn, platform, history, reads
<1>. QED
  BY <1>1, <1>2, <1>4

\* The reads after the attempt.
LEMMA ReadsAfterKeepEvidence ==
  ASSUME MaxMisses <= 1, TypeInv, EvidenceInv,
         ReadAfter \/ ReadFirstAfter \/ ConfirmDelete \/ MatchInventories \/ ReadContent
  PROVE  EvidenceInv'
<1>. USE SafeWriteConstants
<1>0. /\ ads \in [Ids -> Ad \union {None}] /\ misses \in 0..MaxMisses /\ used \subseteq Ids
      /\ (step # "idle" => op \in Operations)
  BY DEF TypeInv, SafeWriteTypeOK, RunTypes
<1>1. CASE ReadAfter
  <2>1. PICK view \in Views :
          \/ Goal(op, view, old) /\ Report("confirmed", op.id)
          \/ Report("ambiguous", None)
    BY <1>1 DEF ReadAfter, Ambiguous
  <2>2. op.kind \notin {"create", "delete"} /\ op.id \in Ids
    BY <1>1, TargetIsAnAd DEF ReadAfter
  <2>3. view[op.id] # None => view[op.id] = ads[op.id]
    BY <1>0, <2>2, ReadMayMiss
  <2>4. Goal(op, view, old) => Goal(op, ads, old)
    BY <2>2, <2>3 DEF Goal
  <2>5. Goal(op, view, old) => held
    BY <1>1, <2>4 DEF ReadAfter, EvidenceInv, RunInv
  <2>. QED
    BY <2>1, <2>2, <2>5, ReportKeepsEvidence
<1>2. CASE ReadFirstAfter
  <2>1. UNCHANGED <<pre, confirmPre, ads, used, op, old>> /\ step' = "confirm_post"
    BY <1>2 DEF ReadFirstAfter, GoOn, platform
  <2>2. (/\ op.kind = "delete" /\ post' # None /\ post'[op.id] = None /\ misses' = 0)
           => ads[op.id] = None
    <3>1. CASE UNCHANGED post
      BY <1>2, <3>1 DEF ReadFirstAfter, EvidenceInv, ReadsInv
    <3>2. ASSUME NEW view \in Views, Saw(view), post' = view, misses' = 0 PROVE post' = ads
      BY <1>0, <3>2 DEF Saw
    <3>. QED
      BY <1>2, <3>1, <3>2 DEF ReadFirstAfter
  <2>3. ReadsInv'
    BY <1>2, <2>1, <2>2 DEF ReadFirstAfter, EvidenceInv, ReadsInv
  <2>. QED
    BY <1>2, <2>3, GoOnKeepsEvidence DEF ReadFirstAfter
<1>3. CASE ConfirmDelete
  <2>1. PICK view \in Views :
          \/ /\ post # None /\ post[op.id] = None /\ view[op.id] = None
             /\ Report("confirmed", op.id)
          \/ Report("ambiguous", None)
    BY <1>3 DEF ConfirmDelete, Ambiguous
  <2>2. CASE Report("ambiguous", None)
    BY <2>2, ReportKeepsEvidence
  <2>3. CASE /\ post # None /\ post[op.id] = None /\ view[op.id] = None
             /\ Report("confirmed", op.id)
    <3>1. step = "confirm_post" /\ op.kind = "delete" /\ op.id \in Ids /\ op.id # None
      BY <1>3, TargetIsAnAd DEF ConfirmDelete
    <3>2. ads[op.id] = None
      <4>1. CASE view = ads
        BY <2>3, <4>1
      <4>2. CASE view # ads
        <5>1. misses = 0
          BY <1>0, <4>2 DEF Views
        <5>. QED
          BY <2>3, <3>1, <5>1 DEF EvidenceInv, ReadsInv
      <4>. QED
        BY <4>1, <4>2
    <3>3. held /\ op.id \in used
      BY <3>1, <3>2 DEF EvidenceInv, RunInv, Goal
    <3>. QED
      BY <2>3, <3>1, <3>2, <3>3, ReportKeepsEvidence
  <2>. QED
    BY <2>1, <2>2, <2>3
<1>4. CASE MatchInventories
  <2>1. PICK view \in Views :
          \/ /\ \E i \in Ids : NewIn(post, pre) = {i} /\ NewIn(view, confirmPre) = {i}
             /\ candidate' \in NewIn(post, pre) /\ GoOn("content")
          \/ Report("ambiguous", None)
    BY <1>4 DEF MatchInventories, Ambiguous
  <2>2. CASE Report("ambiguous", None)
    BY <2>2, ReportKeepsEvidence
  <2>3. CASE /\ \E i \in Ids : NewIn(post, pre) = {i} /\ NewIn(view, confirmPre) = {i}
             /\ candidate' \in NewIn(post, pre) /\ GoOn("content")
    <3>1. candidate' \in NewIn(post, pre) /\ candidate' \in NewIn(view, confirmPre)
      BY <2>3
    <3>2. candidate' \in Ids /\ view[candidate'] # None /\ candidate' \notin pre \union confirmPre
      BY <3>1 DEF NewIn, Present
    <3>3. ads[candidate'] # None
      BY <1>0, <3>2, ReadMayMiss
    <3>4. candidate' \in used \ old
      BY <1>4, <3>2, <3>3 DEF MatchInventories, EvidenceInv, UsedInv, ReadsInv
    <3>5. step' = "content" /\ UNCHANGED <<op, used, old>>
      BY <2>3 DEF GoOn, platform
    <3>6. ReadsInv'
      BY <1>4, <3>4, <3>5 DEF MatchInventories, ReadsInv
    <3>. QED
      BY <1>4, <2>3, <3>6, GoOnKeepsEvidence DEF MatchInventories
  <2>. QED
    BY <2>1, <2>2, <2>3
<1>5. CASE ReadContent
  <2>1. PICK view \in Views :
          \/ view[candidate] # None /\ Matches(op, view[candidate]) /\ Report("confirmed", candidate)
          \/ Report("ambiguous", None)
    BY <1>5 DEF ReadContent, Ambiguous
  <2>2. op.kind = "create" /\ candidate \in used \ old /\ candidate \in Ids
    BY <1>0, <1>5 DEF ReadContent, EvidenceInv, ReadsInv
  <2>3. view[candidate] # None => view[candidate] = ads[candidate]
    BY <1>0, <2>2, ReadMayMiss
  <2>4. view[candidate] # None /\ Matches(op, view[candidate]) => Goal(op, ads, old)
    BY <2>2, <2>3 DEF Goal, Present
  <2>5. view[candidate] # None /\ Matches(op, view[candidate]) => held
    BY <1>5, <2>4 DEF ReadContent, EvidenceInv, RunInv
  <2>. QED
    BY <2>1, <2>2, <2>5, ReportKeepsEvidence
<1>. QED
  BY <1>1, <1>2, <1>3, <1>4, <1>5

\* Every step keeps the evidence.
LEMMA EvidenceStep ==
  ASSUME MaxMisses <= 1, TypeInv, EvidenceInv, [Next]_vars
  PROVE  EvidenceInv'
<1>1. CASE UNCHANGED vars
  <2>1. UNCHANGED <<ads, used, step, op, pre, confirmPre, post, candidate, misses, old, held,
                    receipts>>
    BY <1>1 DEF vars, platform, reads, history
  <2>2. UsedInv' /\ RunInv' /\ ReadsInv'
    BY <2>1 DEF EvidenceInv, UsedInv, RunInv, ReadsInv
  <2>3. ReceiptsInv'
    BY <2>1 DEF EvidenceInv, ReceiptsInv, ConfirmedWasTrue, ConfirmedCreateNamesNewAd,
       DeletedIsGone, Confirmed
  <2>. QED
    BY <2>2, <2>3 DEF EvidenceInv
<1>2. CASE Next
  BY <1>2, EndsKeepEvidence, AttemptKeepsEvidence, ReadsAfterKeepEvidence, PlatformKeepsEvidence
     DEF Next
<1>. QED
  BY <1>1, <1>2

LEMMA EvidenceAlways ==
  ASSUME MaxMisses <= 1
  PROVE  SafeWriteSpec => [](TypeInv /\ EvidenceInv)
<1>1. Init => UsedInv /\ RunInv /\ ReadsInv /\ ReceiptsInv
  BY DEF Init, UsedInv, RunInv, ReadsInv, ReceiptsInv, ConfirmedWasTrue,
     ConfirmedCreateNamesNewAd, DeletedIsGone, Confirmed
<1>2. TypeInv /\ EvidenceInv /\ [Next]_vars => (TypeInv /\ EvidenceInv)'
  BY TypeStep, EvidenceStep
<1>3. Init => EvidenceInv
  BY <1>1 DEF EvidenceInv
<1>4. SafeWriteSpec => []TypeInv
  BY TypesAlways
<1>. QED
  BY <1>2, <1>3, <1>4, PTL DEF SafeWriteSpec

\* A confirmed receipt is true: what it says held on the platform at some
\* moment between the begin and the end of the operation, for any number of
\* late forms and changes by others.
THEOREM ConfirmationsAreTrue ==
  ASSUME MaxMisses <= 1
  PROVE  SafeWriteSpec => []ConfirmedWasTrue
<1>1. EvidenceInv => ConfirmedWasTrue
  BY DEF EvidenceInv, ReceiptsInv
<1>. QED
  BY <1>1, EvidenceAlways, PTL

\* An ad whose deletion was confirmed never comes back.
THEOREM ConfirmedDeletesAreFinal ==
  ASSUME MaxMisses <= 1
  PROVE  SafeWriteSpec => []ConfirmedDeleteIsFinal
<1>1. EvidenceInv => ConfirmedDeleteIsFinal
  BY DEF EvidenceInv, ReceiptsInv, DeletedIsGone, ConfirmedDeleteIsFinal
<1>. QED
  BY <1>1, EvidenceAlways, PTL

\* A confirmed create names an ad that was given its id after it began.
THEOREM ConfirmedCreatesAreNew ==
  ASSUME MaxMisses <= 1
  PROVE  SafeWriteSpec => []ConfirmedCreateNamesNewAd
<1>1. EvidenceInv => ConfirmedCreateNamesNewAd
  BY DEF EvidenceInv, ReceiptsInv
<1>. QED
  BY <1>1, EvidenceAlways, PTL
=============================================================================
