------------------------- MODULE MediaHandlesProofs -------------------------
(***************************************************************************)
(* What MediaHandles keeps, proved for every set of refs and both quotas:  *)
(* the images of a bound request survive, no image reaches a writer twice, *)
(* the directory is accounted for, and the next start is not refused.      *)
(*                                                                         *)
(* The four rest on one inductive invariant.  Its heart is FitInv: not     *)
(* only the handles fit the quota, but the handles together with every     *)
(* file that a power loss could bring back and that the next start would   *)
(* keep.  The counterpart for consumed images is JobInv: once a create has *)
(* consumed an image, no power loss can bring it back.                     *)
(***************************************************************************)
EXTENDS MediaHandles, FiniteSetTheorems, TLAPS

\* The refs of an open request that was bound to images that were there.
LiveRow == IF rowWasLive THEN row ELSE {}

\* What the directory may hold after a power loss and the start that follows.
Returning == (cached \union unsynced) \ (old \ LiveRow)

\* The count is right, and there is room for all that may come back.
FitInv == bytes = Weight(sources) /\ Fits(sources \union Returning)

\* A store that is not open has no handles; an open one has a handle for each
\* file and remembers each temporary file; one that knows of no failure has
\* unlinked only what the next start removes again, should it come back.
StoreInv ==
    /\ ~up => ~closed /\ ~broken
    /\ ~up \/ closed => sources = {} /\ leftovers = {} /\ step = "none"
    /\ closed => ~broken /\ temps = {} /\ \A r \in cached : holder[r] = "request"
    /\ up /\ ~closed => cached \subseteq sources /\ temps \subseteq leftovers
    /\ Ready =>
          /\ cached = sources
          /\ unsynced \subseteq old \ (LiveRow \union cached)

\* Who holds what: a ref changes hands from nobody to a tab or client, from a
\* tab to a request, and never back to a client.
HolderInv ==
    /\ \A r \in Refs \ made : holder[r] = "nobody"
    /\ \A r \in row : holder[r] = "request"
    /\ \A r \in cached \intersect unsynced : holder[r] = "nobody"
    /\ IF jobOfRow THEN started /\ job = row /\ job # {} ELSE \A r \in job : holder[r] = "client"

\* A create that has consumed its images holds the only copies there are.
JobInv ==
    /\ step \in {"resolved", "prepared"} => job \intersect unsynced \subseteq sources
    /\ step \in {"prepared", "consumed"} => job \intersect published = {}
    /\ step = "consumed" => job \intersect (cached \union unsynced \union sources) = {}
    /\ published \intersect (cached \union unsynced \union sources) = {}
    /\ repeated = {}

HandleInv ==
    /\ HandleTypeOK /\ FitInv /\ StoreInv /\ HolderInv /\ JobInv /\ BoundImagesSurvive

-----------------------------------------------------------------------------
(* The quota.                                                              *)

\* The weight of refs is a number, and fewer refs weigh no more.
LEMMA WeightMonotone ==
  ASSUME NEW S \in SUBSET Refs, NEW R \in SUBSET S
  PROVE  /\ Cardinality(R) \in Nat /\ Weight(R) \in Nat
         /\ Cardinality(R) <= Cardinality(S) /\ Weight(R) <= Weight(S)
<1>1. IsFiniteSet(S) /\ IsFiniteSet(S \cap Large)
  BY HandleConstants, FS_Subset
<1>2. /\ Cardinality(R) \in Nat /\ Cardinality(S) \in Nat
      /\ Cardinality(R) <= Cardinality(S)
  BY <1>1, FS_Subset, FS_CardinalityType
<1>3. /\ Cardinality(R \cap Large) \in Nat /\ Cardinality(S \cap Large) \in Nat
      /\ Cardinality(R \cap Large) <= Cardinality(S \cap Large)
  <2>1. R \cap Large \in SUBSET (S \cap Large)
    OBVIOUS
  <2>. QED
    BY <1>1, <2>1, FS_Subset, FS_CardinalityType
<1>. QED
  BY <1>2, <1>3 DEF Weight

LEMMA FitsMonotone ==
  ASSUME NEW S \in SUBSET Refs, NEW R \in SUBSET S, Fits(S)
  PROVE  Fits(R)
<1>1. Cardinality(S) \in Nat /\ Weight(S) \in Nat
  BY WeightMonotone
<1>. QED
  BY <1>1, WeightMonotone, HandleConstants DEF Fits

\* An image that is new adds its own weight.
LEMMA WeightAdds ==
  ASSUME NEW S \in SUBSET Refs, NEW r \in Refs \ S
  PROVE  /\ Cardinality(S \union {r}) = Cardinality(S) + 1
         /\ Weight(S \union {r}) = Weight(S) + Weight({r})
<1>1. IsFiniteSet(S) /\ IsFiniteSet(S \cap Large)
  BY HandleConstants, FS_Subset
<1>2. Cardinality(S \union {r}) = Cardinality(S) + 1 /\ Cardinality({r}) = 1
  BY <1>1, FS_AddElement, FS_Singleton
<1>3. Cardinality(S) \in Nat /\ Cardinality(S \cap Large) \in Nat
  BY <1>1, FS_CardinalityType
<1>4. CASE r \in Large
  <2>1. (S \union {r}) \cap Large = (S \cap Large) \union {r} /\ {r} \cap Large = {r}
    BY <1>4
  <2>2. Cardinality((S \cap Large) \union {r}) = Cardinality(S \cap Large) + 1
    BY <1>1, FS_AddElement
  <2>3. Weight({r}) = 2
    BY <1>2, <2>1 DEF Weight
  <2>4. Weight(S \union {r}) = Cardinality(S \union {r}) + Cardinality((S \cap Large) \union {r})
    BY <2>1 DEF Weight
  <2>5. Weight(S) = Cardinality(S) + Cardinality(S \cap Large)
    BY DEF Weight
  <2>. QED
    BY <1>2, <1>3, <2>2, <2>3, <2>4, <2>5
<1>5. CASE r \notin Large
  <2>1. (S \union {r}) \cap Large = S \cap Large /\ {r} \cap Large = {}
    BY <1>5
  <2>. QED
    BY <1>2, <1>3, <2>1, FS_EmptySet DEF Weight
<1>. QED
  BY <1>4, <1>5

\* HasRoom means that the new image fits.
LEMMA RoomFits ==
  ASSUME NEW S \in SUBSET Refs, NEW r \in Refs \ S, HasRoom(r, S)
  PROVE  Fits(S \union {r})
<1>1. Cardinality(S) \in Nat
  BY WeightMonotone
<1>. QED
  BY <1>1, WeightAdds, HandleConstants DEF HasRoom, Fits

\* The store subtracts what it added: its count never falls below zero and
\* never has to be cut off there.
LEMMA BytesAfterRetiring ==
  ASSUME sources \in SUBSET Refs, bytes = Weight(sources), NEW R \in SUBSET sources
  PROVE  BytesWithout(R) = Weight(sources \ R)
<1>1. IsFiniteSet(sources) /\ IsFiniteSet(sources \cap Large)
  BY HandleConstants, FS_Subset
<1>2. /\ Cardinality(sources \ R) = Cardinality(sources) - Cardinality(R)
      /\ Cardinality(R) \in Nat /\ Cardinality(sources) \in Nat
  <2>1. sources \cap R = R
    OBVIOUS
  <2>. QED
    BY <1>1, <2>1, FS_Difference, FS_CardinalityType, WeightMonotone
<1>3. /\ Cardinality((sources \ R) \cap Large)
           = Cardinality(sources \cap Large) - Cardinality(R \cap Large)
      /\ Cardinality(R \cap Large) \in Nat /\ Cardinality(sources \cap Large) \in Nat
  <2>1. /\ (sources \ R) \cap Large = (sources \cap Large) \ (R \cap Large)
        /\ (sources \cap Large) \cap (R \cap Large) = R \cap Large
    OBVIOUS
  <2>2. IsFiniteSet(R \cap Large)
    BY <1>1, FS_Subset
  <2>3. Cardinality((sources \cap Large) \ (R \cap Large)) = Cardinality(sources \cap Large)
            - Cardinality((sources \cap Large) \cap (R \cap Large))
    BY <1>1, FS_Difference
  <2>4. Cardinality(R \cap Large) \in Nat /\ Cardinality(sources \cap Large) \in Nat
    BY <1>1, <2>2, FS_CardinalityType
  <2>. QED
    BY <2>1, <2>3, <2>4
<1>4. Weight(R) <= bytes
  BY WeightMonotone
<1>. QED
  BY <1>2, <1>3, <1>4 DEF BytesWithout, Weight

-----------------------------------------------------------------------------
(* The steps that change no file and no handle, and what the others share. *)

\* The part of the type invariant that the store's operations are about.
StoreTypeOK ==
    /\ cached \subseteq made /\ unsynced \subseteq made /\ temps \subseteq made
    /\ sources \subseteq made /\ leftovers \subseteq made
    /\ up \in BOOLEAN /\ closed \in BOOLEAN /\ broken \in BOOLEAN
    /\ bytes \in Nat
    /\ leftovers # {} => broken

\* The other part.
ClientTypeOK ==
    /\ made \subseteq Refs /\ old \subseteq made
    /\ job = {} <=> step = "none"
    /\ holder \in [Refs -> {"nobody", "tab", "client", "request"}]
    /\ row \subseteq made /\ job \subseteq made
    /\ rowWasLive \in BOOLEAN /\ started \in BOOLEAN /\ jobOfRow \in BOOLEAN
    /\ step \in {"none", "begun", "resolved", "prepared", "consumed"}
    /\ retired \subseteq made /\ published \subseteq made /\ repeated \subseteq made

LEMMA TypeParts == HandleTypeOK <=> StoreTypeOK /\ ClientTypeOK
BY DEF HandleTypeOK, StoreTypeOK, ClientTypeOK

LEMMA TypePartsNext == HandleTypeOK' <=> StoreTypeOK' /\ ClientTypeOK'
BY DEF HandleTypeOK, StoreTypeOK, ClientTypeOK

\* What an outcome of a retirement leaves is no more than there was.
LEMMA RetiringKeepsTypes ==
  ASSUME StoreTypeOK, bytes = Weight(sources), made \subseteq Refs, NEW R \in SUBSET sources,
         made' = made, UNCHANGED <<temps, leftovers, up, closed>>,
         \/ Retired(R) /\ UNCHANGED broken
         \/ RetiringFails(R)
  PROVE  StoreTypeOK'
<1>1. CASE Retired(R) /\ UNCHANGED broken
  <2>1. bytes' \in Nat
    <3>1. sources \ R \in SUBSET Refs
      BY DEF StoreTypeOK
    <3>2. Weight(sources \ R) \in Nat
      BY <3>1, WeightMonotone
    <3>. QED
      BY <1>1, <3>2, BytesAfterRetiring DEF Retired, StoreTypeOK
  <2>. QED
    BY <1>1, <2>1 DEF Retired, StoreTypeOK
<1>2. CASE RetiringFails(R)
  BY <1>2 DEF RetiringFails, StoreTypeOK
<1>. QED
  BY <1>1, <1>2

LEMMA StoreTypeStep ==
  ASSUME StoreTypeOK, ClientTypeOK, FitInv, [Next]_vars
  PROVE  StoreTypeOK'
<1> USE DEF disk, memory, clients, create, history
<1>1. CASE Rehydrate
  <2>1. sources' \in SUBSET Refs /\ bytes' = Weight(sources')
    BY <1>1 DEF Rehydrate, StoreTypeOK, ClientTypeOK
  <2>2. bytes' \in Nat
    BY <2>1, WeightMonotone
  <2>. QED
    BY <1>1, <2>2 DEF Rehydrate, RemovedAtStart, StoreTypeOK
<1>2. ASSUME NEW r \in Refs, StageMedia(r) PROVE StoreTypeOK'
  <2>1. Expired({}) \subseteq sources
    BY DEF Expired
  <2>2. CASE made' = made
    BY <1>2, <2>1, <2>2, RetiringKeepsTypes DEF StageMedia, FitInv, ClientTypeOK
  <2>3. CASE made' = made \union {r} /\ r \notin made
    <3>1. sources \ Expired({}) \in SUBSET Refs /\ {r} \in SUBSET Refs
      BY DEF StoreTypeOK, ClientTypeOK
    <3>2. Weight(sources \ Expired({})) \in Nat /\ Weight({r}) \in Nat
      BY <3>1, WeightMonotone
    <3>3. SyncedByExpiry \subseteq made
      BY DEF SyncedByExpiry, StoreTypeOK
    <3>. DEFINE kept == sources \ Expired({})
    <3>4. CASE Staged(r, kept)
      BY <1>2, <2>3, <3>2, <3>4 DEF StageMedia, Staged, StoreTypeOK
    <3>5. CASE LeavesTemp(r, kept)
      BY <1>2, <2>3, <3>2, <3>3, <3>5 DEF StageMedia, LeavesTemp, StoreTypeOK
    <3>6. CASE TakenBack(r, kept)
      BY <1>2, <2>3, <3>2, <3>3, <3>6 DEF StageMedia, TakenBack, StoreTypeOK
    <3>7. CASE PublishedBroken(r, kept)
      BY <1>2, <2>3, <3>2, <3>3, <3>7 DEF StageMedia, PublishedBroken, StoreTypeOK
    <3>. QED
      BY <1>2, <2>3, <3>4, <3>5, <3>6, <3>7 DEF StageMedia
  <2>. QED
    BY <1>2, <2>2, <2>3 DEF StageMedia
<1>3. ASSUME NEW R \in SUBSET Refs, Discard(R) PROVE StoreTypeOK'
  <2>1. CASE UNCHANGED <<cached, unsynced, sources, bytes, broken>>
    BY <1>3, <2>1 DEF Discard, StoreTypeOK
  <2>2. CASE (Retired(R \cap sources) /\ UNCHANGED broken) \/ RetiringFails(R \cap sources)
    BY <1>3, <2>2, RetiringKeepsTypes DEF Discard, FitInv, ClientTypeOK
  <2>. QED
    BY <1>3, <2>1, <2>2 DEF Discard
<1>4. CASE Resolve
  <2>1. Expired(job) \subseteq sources
    BY DEF Expired
  <2>2. CASE UNCHANGED <<cached, unsynced, sources, bytes, broken>>
    BY <1>4, <2>2 DEF Resolve, StoreTypeOK
  <2>3. CASE (Retired(Expired(job)) /\ UNCHANGED broken) \/ RetiringFails(Expired(job))
    BY <1>4, <2>1, <2>3, RetiringKeepsTypes DEF Resolve, FitInv, ClientTypeOK
  <2>. QED
    BY <1>4, <2>2, <2>3 DEF Resolve
<1>5. CASE Consume
  <2>1. CASE UNCHANGED <<cached, unsynced, sources, bytes, broken>>
    BY <1>5, <2>1 DEF Consume, StoreTypeOK
  <2>2. CASE (Retired(job \cap sources) /\ UNCHANGED broken) \/ RetiringFails(job \cap sources)
    BY <1>5, <2>2, RetiringKeepsTypes DEF Consume, FitInv, ClientTypeOK
  <2>. QED
    BY <1>5, <2>1, <2>2 DEF Consume
<1>6. CASE Close
  <2>1. cached' \subseteq cached /\ temps' \subseteq temps /\ unsynced' \subseteq made
    BY <1>6 DEF Close, StoreTypeOK
  <2>2. \/ closed' = TRUE /\ sources' = {} /\ bytes' = 0 /\ broken' = FALSE /\ leftovers' = {}
        \/ broken' = TRUE /\ UNCHANGED <<closed, sources, bytes, leftovers>>
    BY <1>6 DEF Close
  <2>3. made' = made /\ up' = up
    BY <1>6 DEF Close
  <2>4. bytes' \in Nat
    BY <2>2 DEF StoreTypeOK
  <2>7. closed' \in BOOLEAN
    BY <2>2 DEF StoreTypeOK
  <2>5. broken' \in BOOLEAN /\ (leftovers' # {} => broken')
    BY <2>2 DEF StoreTypeOK
  <2>6. sources' \subseteq made /\ leftovers' \subseteq made
    BY <2>2 DEF StoreTypeOK
  <2>. QED
    BY <2>1, <2>3, <2>4, <2>5, <2>6, <2>7 DEF StoreTypeOK
<1>7. CASE Exit \/ PowerLoss
  <2>1. cached' \subseteq made /\ unsynced' \subseteq made /\ temps' = temps /\ made' = made
    BY <1>7 DEF Exit, PowerLoss, Forget, StoreTypeOK
  <2>2. up' = FALSE /\ closed' = FALSE /\ sources' = {} /\ bytes' = 0 /\ broken' = FALSE
        /\ leftovers' = {}
    BY <1>7 DEF Exit, PowerLoss, Forget
  <2>. QED
    BY <2>1, <2>2 DEF StoreTypeOK
<1>8. CASE \/ \E r \in Refs : Age(r)
           \/ \E R \in SUBSET Refs : BindRequest(R) \/ BeginCreate(R, TRUE) \/ BeginCreate(R, FALSE)
           \/ ReleaseRequest \/ Prepare \/ Publish \/ UNCHANGED vars
  <2>1. UNCHANGED <<disk, memory, made>>
    BY <1>8 DEF Age, BindRequest, BeginCreate, ReleaseRequest, Prepare, Publish, vars
  <2>. QED
    BY <2>1 DEF StoreTypeOK
<1>. QED
  BY <1>1, <1>2, <1>3, <1>4, <1>5, <1>6, <1>7, <1>8 DEF Next

LEMMA ClientTypeStep ==
  ASSUME StoreTypeOK, ClientTypeOK, HolderInv, [Next]_vars
  PROVE  ClientTypeOK'
<1> USE DEF disk, memory, clients, create, history
<1>1. ASSUME NEW r \in Refs, StageMedia(r) PROVE ClientTypeOK'
  <2>1. holder' \in [Refs -> {"nobody", "tab", "client", "request"}]
    BY <1>1 DEF StageMedia, Staged, LeavesTemp, TakenBack, PublishedBroken, ClientTypeOK
  <2>2. made' \in {made, made \union {r}}
    BY <1>1 DEF StageMedia
  <2>3. UNCHANGED <<old, row, rowWasLive, started, create, history>>
    BY <1>1 DEF StageMedia
  <2>. QED
    BY <2>1, <2>2, <2>3 DEF ClientTypeOK
<1>2. ASSUME NEW r \in Refs, Age(r) PROVE ClientTypeOK'
  BY <1>2 DEF Age, ClientTypeOK
<1>3. ASSUME NEW R \in SUBSET Refs, Discard(R) PROVE ClientTypeOK'
  <2>1. R \subseteq made
    BY <1>3 DEF Discard, HolderInv
  <2>2. retired' \subseteq made
    BY <1>3, <2>1 DEF Discard, ClientTypeOK
  <2>3. holder' \in [Refs -> {"nobody", "tab", "client", "request"}]
    BY <1>3 DEF Discard, ClientTypeOK
  <2>4. UNCHANGED <<made, old, row, rowWasLive, started, create, published, repeated>>
    BY <1>3 DEF Discard
  <2>. QED
    BY <2>2, <2>3, <2>4 DEF ClientTypeOK
<1>4. ASSUME NEW R \in SUBSET Refs, BindRequest(R) PROVE ClientTypeOK'
  <2>1. R \subseteq made
    BY <1>4 DEF BindRequest, HolderInv
  <2>2. holder' \in [Refs -> {"nobody", "tab", "client", "request"}] /\ rowWasLive' \in BOOLEAN
    BY <1>4 DEF BindRequest, ClientTypeOK
  <2>3. row' = R /\ started' = FALSE /\ UNCHANGED <<made, old, create, history>>
    BY <1>4 DEF BindRequest
  <2>. QED
    BY <2>1, <2>2, <2>3 DEF ClientTypeOK
<1>5. ASSUME NEW R \in SUBSET Refs, NEW ofRow \in BOOLEAN, BeginCreate(R, ofRow)
      PROVE  ClientTypeOK'
  <2>1. R \subseteq made
    BY <1>5 DEF BeginCreate, HolderInv, ClientTypeOK
  <2>. QED
    BY <1>5, <2>1 DEF BeginCreate, ClientTypeOK
<1>6. CASE ReleaseRequest
  BY <1>6 DEF ReleaseRequest, ClientTypeOK
<1>7. CASE Resolve \/ Prepare \/ Consume \/ Publish \/ Exit \/ PowerLoss
  <2>1. UNCHANGED <<made, old, clients>>
    BY <1>7 DEF Resolve, Prepare, Consume, Publish, Exit, PowerLoss, Forget
  <2>2. \/ job' = {} /\ step' = "none" /\ jobOfRow' = FALSE
        \/ UNCHANGED <<job, jobOfRow>> /\ step # "none"
              /\ step' \in {"begun", "resolved", "prepared", "consumed"}
    BY <1>7 DEF Resolve, Prepare, Consume, Publish, Exit, PowerLoss, Forget, NoCreate
  <2>3. /\ retired' \in {retired, retired \union job}
        /\ published' \in {published, published \union job}
        /\ repeated' \in {repeated, repeated \union (published \cap job)}
    BY <1>7 DEF Resolve, Prepare, Consume, Publish, Exit, PowerLoss, Forget
  <2>. QED
    BY <2>1, <2>2, <2>3 DEF ClientTypeOK
<1>8. CASE Rehydrate \/ Close \/ UNCHANGED vars
  <2>1. UNCHANGED <<made, old, clients, create, history>>
    BY <1>8 DEF Rehydrate, Close, vars
  <2>. QED
    BY <2>1 DEF ClientTypeOK
<1>. QED
  BY <1>1, <1>2, <1>3, <1>4, <1>5, <1>6, <1>7, <1>8 DEF Next

-----------------------------------------------------------------------------
(* The two kinds of steps that handles are kept by: some are retired, or a *)
(* new one is made.                                                        *)

\* What a retirement of R, an attempt at it, or the lack of a need for it does.
Retires(R) ==
    /\ R \subseteq sources
    /\ \/ Retired(R) /\ UNCHANGED broken
       \/ RetiringFails(R)
       \/ UNCHANGED <<cached, unsynced, sources, bytes, broken>>
    /\ UNCHANGED <<temps, leftovers, up, closed, made, old, row, rowWasLive>>

\* Whatever expires is no image of an open request.
LEMMA RetiringSteps ==
  ASSUME [Next]_vars
  PROVE  /\ \A r \in Refs : StageMedia(r) /\ made' = made =>
               Retires(Expired({})) /\ Expired({}) \intersect row = {}
                 /\ UNCHANGED <<holder, started, create, published, repeated>>
         /\ \A R \in SUBSET Refs : Discard(R) =>
               Retires(R \cap sources) /\ UNCHANGED <<started, create, published, repeated>>
         /\ Resolve => Retires(Expired(job)) /\ Expired(job) \intersect (row \union job) = {}
                         /\ UNCHANGED <<holder, started, published, repeated>>
         /\ Consume => Retires(job \cap sources)
                         /\ UNCHANGED <<holder, started, published, repeated>>
<1> USE DEF disk, memory, clients, create, history
<1>1. ASSUME NEW P PROVE Expired(P) \subseteq sources /\ Expired(P) \intersect (row \union P) = {}
  BY DEF Expired
<1>2. ASSUME NEW r \in Refs, StageMedia(r), made' = made
      PROVE  /\ Retires(Expired({})) /\ Expired({}) \intersect row = {}
             /\ UNCHANGED <<holder, started, create, published, repeated>>
  <2>1. made' # made \union {r}
    BY <1>2 DEF StageMedia
  <2>. QED
    BY <1>1, <1>2, <2>1 DEF StageMedia, Retires
<1>3. ASSUME NEW R \in SUBSET Refs, Discard(R)
      PROVE  Retires(R \cap sources) /\ UNCHANGED <<started, create, published, repeated>>
  BY <1>3 DEF Discard, Retires
<1>4. ASSUME Resolve
      PROVE  Retires(Expired(job)) /\ Expired(job) \intersect (row \union job) = {}
               /\ UNCHANGED <<holder, started, published, repeated>>
  BY <1>1, <1>4 DEF Resolve, Retires
<1>5. ASSUME Consume
      PROVE  Retires(job \cap sources) /\ UNCHANGED <<holder, started, published, repeated>>
  BY <1>5 DEF Consume, Retires
<1>. QED
  BY <1>2, <1>3, <1>4, <1>5

\* What a staging that got so far as to write does.
Stages(r) ==
    /\ Ready /\ r \in Refs \ made
    /\ sources' \in {sources \ Expired({}), (sources \ Expired({})) \union {r}}
    /\ cached' = sources' /\ bytes' = Weight(sources')
    /\ Fits((sources \ Expired({})) \union {r})
    /\ unsynced' \subseteq unsynced \union {r}
    /\ r \in unsynced' => broken' /\ holder' = holder
    /\ \/ UNCHANGED <<temps, leftovers>>
       \/ temps' = temps \union {r} /\ leftovers' = leftovers \union {r} /\ broken'
    /\ \A s \in Refs \ {r} : holder'[s] = holder[s]
    /\ made' = made \union {r}
    /\ UNCHANGED <<up, closed, old, row, rowWasLive, started, create, history>>

LEMMA StagingSteps ==
  ASSUME HandleTypeOK, StoreInv, NEW r \in Refs, StageMedia(r), made' # made
  PROVE  Stages(r)
<1> USE DEF disk, memory, clients, create, history
<1>. DEFINE kept == sources \ Expired({})
<1>1. /\ Ready /\ r \in Refs \ made /\ HasRoom(r, kept) /\ made' = made \union {r}
      /\ Staged(r, kept) \/ LeavesTemp(r, kept) \/ TakenBack(r, kept) \/ PublishedBroken(r, kept)
      /\ UNCHANGED <<up, closed, old, row, rowWasLive, started, create, history>>
  BY DEF StageMedia
<1>2. kept \in SUBSET Refs /\ r \in Refs \ kept /\ cached \ Expired({}) = kept
  BY <1>1 DEF HandleTypeOK, StoreInv
<1>3. Fits(kept \union {r}) /\ Weight(kept \union {r}) = Weight(kept) + Weight({r})
  BY <1>1, <1>2, RoomFits, WeightAdds
<1>4. SyncedByExpiry \subseteq unsynced /\ r \notin unsynced
  BY <1>1 DEF SyncedByExpiry, HandleTypeOK
<1>5. CASE Staged(r, kept)
  <2>1. \A s \in Refs \ {r} : holder'[s] = holder[s]
    BY <1>5 DEF Staged, HandleTypeOK
  <2>. QED
    BY <1>1, <1>2, <1>3, <1>5, <2>1 DEF Staged, Stages
<1>6. CASE LeavesTemp(r, kept)
  BY <1>1, <1>2, <1>3, <1>4, <1>6 DEF LeavesTemp, Stages
<1>7. CASE TakenBack(r, kept)
  BY <1>1, <1>2, <1>3, <1>4, <1>7 DEF TakenBack, Stages
<1>8. CASE PublishedBroken(r, kept)
  BY <1>1, <1>2, <1>3, <1>4, <1>8 DEF PublishedBroken, Stages
<1>. QED
  BY <1>1, <1>5, <1>6, <1>7, <1>8

-----------------------------------------------------------------------------
(* Who holds what.                                                         *)

LEMMA HolderStep ==
  ASSUME HandleTypeOK, StoreInv, HolderInv, [Next]_vars
  PROVE  HolderInv'
<1> USE DEF disk, memory, clients, create, history
<1>0. ASSUME UNCHANGED <<holder, started, made, row>>, cached' \cap unsynced' \subseteq cached \cap unsynced,
             UNCHANGED create \/ (job' = {} /\ jobOfRow' = FALSE)
      PROVE  HolderInv'
  BY <1>0 DEF HolderInv
<1>1. ASSUME NEW R, Retires(R) PROVE cached' \cap unsynced' \subseteq cached \cap unsynced
  BY <1>1 DEF Retires, Retired, RetiringFails
<1>2. ASSUME NEW r \in Refs, StageMedia(r) PROVE HolderInv'
  <2>1. CASE made' = made
    BY <1>0, <1>1, <1>2, <2>1, RetiringSteps DEF Retires
  <2>2. CASE made' # made
    <3>1. Stages(r)
      BY <1>2, <2>2, StagingSteps
    <3>2. \A s \in cached' \cap unsynced' : holder'[s] = "nobody"
      <4>1. SUFFICES ASSUME NEW s \in cached' \cap unsynced' PROVE holder'[s] = "nobody"
        OBVIOUS
      <4>2. CASE s = r
        BY <3>1, <4>1, <4>2 DEF Stages, HolderInv
      <4>3. CASE s # r
        BY <3>1, <4>1, <4>3 DEF Stages, HolderInv, StoreInv, HandleTypeOK
      <4>. QED
        BY <4>2, <4>3
    <3>3. r \notin row /\ r \notin job
      BY <3>1 DEF Stages, HandleTypeOK
    <3>. QED
      BY <3>1, <3>2, <3>3 DEF Stages, HolderInv, HandleTypeOK
  <2>. QED
    BY <2>1, <2>2
<1>3. ASSUME NEW R \in SUBSET Refs, Discard(R) PROVE HolderInv'
  <2>1. cached' \cap unsynced' \subseteq cached \cap unsynced
    BY <1>1, <1>3, RetiringSteps
  <2>2. /\ holder' = [r \in Refs |-> IF r \in R /\ holder[r] = "tab" THEN "nobody" ELSE holder[r]]
        /\ UNCHANGED <<made, row, started, create>>
    BY <1>3 DEF Discard
  <2>. QED
    BY <2>1, <2>2 DEF HolderInv, HandleTypeOK
<1>4. ASSUME NEW R \in SUBSET Refs, BindRequest(R) PROVE HolderInv'
  <2>1. ~jobOfRow
    BY <1>4 DEF BindRequest, HolderInv, HandleTypeOK
  <2>2. /\ \A r \in R : holder[r] = "tab"
        /\ row' = R
        /\ holder' = [r \in Refs |-> IF r \in R THEN "request" ELSE holder[r]]
        /\ UNCHANGED <<disk, made, create>>
    BY <1>4 DEF BindRequest
  <2>3. \A r \in Refs : holder[r] \in {"nobody", "client"} => holder'[r] = holder[r]
    BY <2>2
  <2>4. cached \subseteq Refs /\ job \subseteq Refs /\ made \subseteq Refs
    BY DEF HandleTypeOK
  <2>5. (\A r \in Refs \ made : holder[r] = "nobody")'
    BY <2>2, <2>3 DEF HolderInv
  <2>6. (\A r \in row : holder[r] = "request")'
    BY <2>2
  <2>7. (\A r \in cached \intersect unsynced : holder[r] = "nobody")'
    BY <2>2, <2>3, <2>4 DEF HolderInv
  <2>8. ~jobOfRow' /\ (\A r \in job : holder[r] = "client")'
    BY <2>1, <2>2, <2>3, <2>4 DEF HolderInv
  <2>. QED
    BY <2>5, <2>6, <2>7, <2>8 DEF HolderInv
<1>5. ASSUME NEW R \in SUBSET Refs, NEW ofRow \in BOOLEAN, BeginCreate(R, ofRow)
      PROVE  HolderInv'
  BY <1>5 DEF BeginCreate, HolderInv
<1>6. CASE ReleaseRequest
  BY <1>6 DEF ReleaseRequest, HolderInv
<1>7. CASE Resolve \/ Consume
  <2>1. /\ cached' \cap unsynced' \subseteq cached \cap unsynced
        /\ UNCHANGED <<holder, started, made, row>>
    BY <1>1, <1>7, RetiringSteps DEF Retires
  <2>2. UNCHANGED <<job, jobOfRow>> \/ (job' = {} /\ jobOfRow' = FALSE)
    BY <1>7 DEF Resolve, Consume, NoCreate
  <2>. QED
    BY <2>1, <2>2 DEF HolderInv
<1>8. CASE Prepare \/ Publish
  <2>1. UNCHANGED <<job, jobOfRow>> \/ (job' = {} /\ jobOfRow' = FALSE)
    BY <1>8 DEF Prepare, Publish, NoCreate
  <2>2. UNCHANGED <<disk, made, clients>>
    BY <1>8 DEF Prepare, Publish
  <2>. QED
    BY <2>1, <2>2 DEF HolderInv
<1>9. CASE Rehydrate
  <2>1. cached' \cap unsynced' = {}
    BY <1>9 DEF Rehydrate
  <2>. QED
    BY <1>0, <1>9, <2>1 DEF Rehydrate
<1>10. CASE Close
  <2>1. cached' \cap unsynced' \subseteq cached \cap unsynced
    BY <1>10 DEF Close
  <2>. QED
    BY <1>0, <1>10, <2>1 DEF Close
<1>11. CASE Exit \/ PowerLoss
  BY <1>0, <1>11 DEF Exit, PowerLoss, Forget, NoCreate
<1>12. CASE UNCHANGED vars \/ \E r \in Refs : Age(r)
  BY <1>0, <1>12 DEF vars, Age
<1>. QED
  BY <1>2, <1>3, <1>4, <1>5, <1>6, <1>7, <1>8, <1>9, <1>10, <1>11, <1>12 DEF Next

-----------------------------------------------------------------------------
(* The open and the closed store.                                          *)

LEMMA StoreStep ==
  ASSUME HandleTypeOK, StoreInv, HolderInv, BoundImagesSurvive, [Next]_vars
  PROVE  StoreInv'
<1> USE DEF disk, memory, clients, create, history
<1>1. ASSUME NEW R \in SUBSET sources, Retires(R), up, ~closed,
             UNCHANGED create \/ step' \in {"none", "resolved", "consumed"}
      PROVE  StoreInv'
  <2>1. CASE Retired(R) /\ UNCHANGED broken
    BY <1>1, <2>1 DEF Retires, Retired, StoreInv, Ready, LiveRow
  <2>2. CASE RetiringFails(R)
    BY <1>1, <2>2 DEF Retires, RetiringFails, StoreInv, Ready
  <2>3. CASE UNCHANGED <<cached, unsynced, sources, bytes, broken>>
    BY <1>1, <2>3 DEF Retires, StoreInv, Ready, LiveRow
  <2>. QED
    BY <1>1, <2>1, <2>2, <2>3 DEF Retires
<1>2. ASSUME NEW r \in Refs, StageMedia(r) PROVE StoreInv'
  <2>1. CASE made' = made
    BY <1>1, <1>2, <2>1, RetiringSteps DEF StageMedia, Ready, Retires
  <2>2. CASE made' # made
    <3>1. Stages(r)
      BY <1>2, <2>2, StagingSteps
    <3>2. temps \subseteq leftovers /\ unsynced \subseteq old \ (LiveRow \union cached)
      BY <3>1 DEF Stages, StoreInv, Ready
    <3>3. cached' \subseteq sources' /\ temps' \subseteq leftovers'
      BY <3>1, <3>2 DEF Stages
    <3>4. ~broken' => unsynced' \subseteq old' \ (LiveRow' \union cached')
      BY <3>1, <3>2 DEF Stages, LiveRow, HandleTypeOK, StoreInv, Ready
    <3>. QED
      BY <3>1, <3>3, <3>4 DEF Stages, StoreInv, Ready
  <2>. QED
    BY <2>1, <2>2
<1>3. ASSUME NEW R \in SUBSET Refs, Discard(R) PROVE StoreInv'
  <2>1. Retires(R \cap sources) /\ UNCHANGED create
    BY <1>3, RetiringSteps
  <2>2. CASE closed
    <3>1. /\ UNCHANGED <<cached, unsynced, sources, bytes, broken>>
          /\ UNCHANGED <<temps, up, closed, leftovers, step>>
      BY <1>3, <2>2 DEF Discard, StoreInv
    <3>2. \A r \in Refs : holder[r] = "request" => holder'[r] = "request"
      BY <1>3 DEF Discard
    <3>. QED
      BY <2>2, <3>1, <3>2 DEF StoreInv, HandleTypeOK, Ready
  <2>. QED
    BY <1>1, <1>3, <2>1, <2>2 DEF Discard
<1>4. ASSUME NEW R \in SUBSET Refs, BindRequest(R) PROVE StoreInv'
  <2>1. /\ UNCHANGED <<disk, memory, made, old, create>>
        /\ row' = R /\ (rowWasLive' => R \subseteq sources \intersect cached)
        /\ holder' = [r \in Refs |-> IF r \in R THEN "request" ELSE holder[r]]
    BY <1>4 DEF BindRequest
  <2>2. \A r \in Refs : holder[r] = "request" => holder'[r] = "request"
    BY <2>1
  <2>3. Ready => unsynced \subseteq old \ (LiveRow' \union cached)
    BY <2>1 DEF LiveRow, StoreInv
  <2>. QED
    BY <2>1, <2>2, <2>3 DEF StoreInv, Ready, HandleTypeOK
<1>5. CASE Resolve
  <2>1. up /\ ~closed
    BY <1>5 DEF Resolve, StoreInv
  <2>2. Retires(Expired(job)) /\ Expired(job) \subseteq sources
    BY <1>5, RetiringSteps DEF Expired
  <2>. QED
    BY <1>1, <1>5, <2>1, <2>2 DEF Resolve, NoCreate
<1>6. CASE Consume
  <2>1. up /\ ~closed
    BY <1>6 DEF Consume, StoreInv
  <2>2. Retires(job \cap sources)
    BY <1>6, RetiringSteps
  <2>. QED
    BY <1>1, <1>6, <2>1, <2>2 DEF Consume, NoCreate
<1>7. CASE Rehydrate
  <2>1. row \cap RemovedAtStart = {} /\ RemovedAtStart \subseteq old
    BY DEF RemovedAtStart
  <2>2. /\ cached' = cached \ RemovedAtStart /\ sources' = cached' /\ unsynced' = RemovedAtStart
        /\ temps' = {} /\ leftovers' = {} /\ up' = TRUE /\ closed' = FALSE /\ broken' = FALSE
        /\ UNCHANGED <<old, row, rowWasLive>>
    BY <1>7 DEF Rehydrate
  <2>. QED
    BY <2>1, <2>2 DEF StoreInv, LiveRow
<1>8. CASE Close
  <2>1. up /\ ~closed /\ step = "none" /\ UNCHANGED <<up, made, old, clients, create, history>>
    BY <1>8 DEF Close
  <2>2. CASE closed'
    <3>1. /\ cached' = cached \ (sources \ row) /\ temps' = temps \ leftovers
          /\ sources' = {} /\ broken' = FALSE /\ leftovers' = {}
      BY <1>8, <2>1, <2>2 DEF Close
    <3>2. cached' \subseteq row /\ temps' = {}
      BY <2>1, <3>1 DEF StoreInv
    <3>. QED
      BY <2>1, <2>2, <3>1, <3>2 DEF StoreInv, HolderInv, Ready
  <2>3. CASE ~closed'
    <3>1. /\ cached' \subseteq cached /\ temps' \subseteq temps
          /\ UNCHANGED <<sources, leftovers>> /\ broken' = TRUE
      BY <1>8, <2>1, <2>3 DEF Close
    <3>. QED
      BY <2>1, <2>3, <3>1 DEF StoreInv, Ready
  <2>. QED
    BY <2>2, <2>3
<1>9. CASE Exit \/ PowerLoss
  BY <1>9 DEF Exit, PowerLoss, Forget, NoCreate, StoreInv, Ready
<1>10. CASE ReleaseRequest
  BY <1>10 DEF ReleaseRequest, StoreInv, Ready, LiveRow
<1>11. CASE \/ \E r \in Refs : Age(r)
            \/ \E R \in SUBSET Refs : BeginCreate(R, TRUE) \/ BeginCreate(R, FALSE)
            \/ Prepare \/ Publish \/ UNCHANGED vars
  <2>1. /\ UNCHANGED <<disk, memory, holder, row, rowWasLive>> /\ old \subseteq old'
        /\ step' # step => (up /\ ~closed) \/ step' = "none" \/ step # "none"
    BY <1>11 DEF Age, BeginCreate, Prepare, Publish, NoCreate, vars
  <2>. QED
    BY <2>1 DEF StoreInv, Ready, LiveRow
<1>. QED
  BY <1>2, <1>3, <1>4, <1>5, <1>6, <1>7, <1>8, <1>9, <1>10, <1>11 DEF Next

-----------------------------------------------------------------------------
(* The quota holds for whatever may come back.                             *)

LEMMA FitStep ==
  ASSUME HandleTypeOK, StoreInv, FitInv, [Next]_vars, HandleTypeOK'
  PROVE  FitInv'
<1> USE DEF disk, memory, clients, create, history
<1>1. ASSUME sources' \union Returning' \subseteq sources \union Returning,
             bytes' = Weight(sources')
      PROVE  FitInv'
  <2>1. sources \union Returning \in SUBSET Refs
    BY DEF Returning, HandleTypeOK
  <2>. QED
    BY <1>1, <2>1, FitsMonotone DEF FitInv
<1>2. ASSUME NEW R, Retires(R) PROVE FitInv'
  <2>1. CASE Retired(R) /\ UNCHANGED broken
    <3>1. bytes' = Weight(sources')
      BY <1>2, <2>1, BytesAfterRetiring DEF Retires, Retired, FitInv, HandleTypeOK
    <3>. QED
      BY <1>1, <1>2, <2>1, <3>1 DEF Retires, Retired, Returning, LiveRow
  <2>2. CASE RetiringFails(R)
    <3>1. cached' \subseteq cached /\ unsynced' \subseteq unsynced \union sources
          /\ UNCHANGED <<sources, bytes, old, row, rowWasLive>>
      BY <1>2, <2>2 DEF Retires, RetiringFails
    <3>. QED
      BY <1>1, <3>1 DEF FitInv, Returning, LiveRow
  <2>3. CASE UNCHANGED <<cached, unsynced, sources, bytes, broken>>
    BY <1>1, <1>2, <2>3 DEF Retires, FitInv, Returning, LiveRow
  <2>. QED
    BY <1>2, <2>1, <2>2, <2>3 DEF Retires
<1>3. ASSUME NEW r \in Refs, StageMedia(r) PROVE FitInv'
  <2>1. CASE made' = made
    BY <1>2, <1>3, <2>1, RetiringSteps
  <2>2. CASE made' # made
    <3>. DEFINE kept == sources \ Expired({})
    <3>1. Stages(r)
      BY <1>3, <2>2, StagingSteps
    <3>2. unsynced \subseteq old \ LiveRow
      BY <3>1 DEF Stages, StoreInv
    <3>3. sources' \union Returning' \subseteq kept \union {r}
      BY <3>1, <3>2 DEF Stages, Returning, LiveRow
    <3>4. kept \union {r} \in SUBSET Refs
      BY DEF HandleTypeOK
    <3>. QED
      BY <3>1, <3>3, <3>4, FitsMonotone DEF Stages, FitInv
  <2>. QED
    BY <2>1, <2>2
<1>4. ASSUME NEW R \in SUBSET Refs, Discard(R) PROVE FitInv'
  BY <1>2, <1>4, RetiringSteps
<1>5. ASSUME NEW R \in SUBSET Refs, BindRequest(R) PROVE FitInv'
  <2>1. /\ UNCHANGED <<disk, memory, old>> /\ row' = R
        /\ rowWasLive' => R \subseteq sources \intersect cached
    BY <1>5 DEF BindRequest
  <2>. QED
    BY <1>1, <2>1 DEF FitInv, Returning, LiveRow
<1>6. CASE Resolve \/ Consume
  BY <1>2, <1>6, RetiringSteps
<1>7. CASE Rehydrate
  <2>1. /\ cached' = cached \ RemovedAtStart /\ sources' = cached' /\ unsynced' = RemovedAtStart
        /\ bytes' = Weight(sources') /\ Fits(sources')
        /\ UNCHANGED <<old, row, rowWasLive>>
    BY <1>7 DEF Rehydrate
  <2>2. sources' \union Returning' = sources'
    BY <2>1 DEF Returning, RemovedAtStart, LiveRow
  <2>. QED
    BY <2>1, <2>2 DEF FitInv
<1>8. CASE Close
  <2>1. UNCHANGED <<old, row, rowWasLive>>
    BY <1>8 DEF Close
  <2>2. /\ cached' \subseteq cached /\ unsynced' \subseteq unsynced \union sources
        /\ \/ sources' = {} /\ bytes' = 0
           \/ UNCHANGED <<sources, bytes>> 
    BY <1>8 DEF Close
  <2>3. bytes' = Weight(sources')
    BY <2>2, FS_EmptySet DEF FitInv, Weight
  <2>4. sources' \union Returning' \subseteq sources \union Returning
    BY <2>1, <2>2 DEF Returning, LiveRow
  <2>. QED
    BY <1>1, <2>3, <2>4
<1>9. CASE Exit \/ PowerLoss
  <2>1. /\ cached' \subseteq cached \union unsynced /\ unsynced' \subseteq unsynced
        /\ sources' = {} /\ bytes' = 0 /\ UNCHANGED <<old, row, rowWasLive>>
    BY <1>9 DEF Exit, PowerLoss, Forget
  <2>2. bytes' = Weight(sources')
    BY <2>1, FS_EmptySet DEF Weight
  <2>. QED
    BY <1>1, <2>1, <2>2 DEF Returning, LiveRow
<1>10. CASE ReleaseRequest
  BY <1>1, <1>10 DEF ReleaseRequest, FitInv, Returning, LiveRow
<1>11. CASE \/ \E r \in Refs : Age(r)
            \/ \E R \in SUBSET Refs : BeginCreate(R, TRUE) \/ BeginCreate(R, FALSE)
            \/ Prepare \/ Publish \/ UNCHANGED vars
  <2>1. UNCHANGED <<disk, memory, row, rowWasLive>> /\ old \subseteq old'
    BY <1>11 DEF Age, BeginCreate, Prepare, Publish, vars
  <2>. QED
    BY <1>1, <2>1 DEF FitInv, Returning, LiveRow
<1>. QED
  BY <1>3, <1>4, <1>5, <1>6, <1>7, <1>8, <1>9, <1>10, <1>11 DEF Next

-----------------------------------------------------------------------------
(* The images of an open request.                                          *)

LEMMA BoundStep ==
  ASSUME HandleTypeOK, StoreInv, HolderInv, BoundImagesSurvive, [Next]_vars
  PROVE  BoundImagesSurvive'
<1> USE DEF disk, memory, clients, create, history
<1>1. ASSUME NEW R, Retires(R), R \intersect row = {} \/ started, UNCHANGED started
      PROVE  BoundImagesSurvive'
  BY <1>1 DEF Retires, Retired, RetiringFails, BoundImagesSurvive
<1>2. ASSUME NEW r \in Refs, StageMedia(r) PROVE BoundImagesSurvive'
  <2>1. CASE made' = made
    BY <1>1, <1>2, <2>1, RetiringSteps
  <2>2. CASE made' # made
    <3>1. Stages(r)
      BY <1>2, <2>2, StagingSteps
    <3>2. r \notin row /\ Expired({}) \intersect row = {}
      BY <3>1 DEF Stages, HandleTypeOK, Expired
    <3>3. up /\ ~closed
      BY <3>1 DEF Stages, Ready
    <3>. QED
      BY <3>1, <3>2, <3>3 DEF Stages, BoundImagesSurvive
  <2>. QED
    BY <2>1, <2>2
<1>3. ASSUME NEW R \in SUBSET Refs, Discard(R) PROVE BoundImagesSurvive'
  <2>1. R \intersect row = {}
    BY <1>3 DEF Discard, HolderInv
  <2>. QED
    BY <1>1, <1>3, <2>1, RetiringSteps
<1>4. ASSUME NEW R \in SUBSET Refs, BindRequest(R) PROVE BoundImagesSurvive'
  <2>1. /\ UNCHANGED <<disk, memory>>
        /\ row' = R
        /\ rowWasLive' => R \subseteq sources \intersect cached
        /\ \A r \in R : holder[r] = "tab"
    BY <1>4 DEF BindRequest
  <2>2. R \intersect (cached \intersect unsynced) = {}
    BY <2>1 DEF HolderInv
  <2>. QED
    BY <2>1, <2>2 DEF BoundImagesSurvive
<1>5. CASE Resolve
  BY <1>1, <1>5, RetiringSteps
<1>6. CASE Consume
  <2>1. (job \cap sources) \intersect row = {} \/ started
    BY DEF HolderInv
  <2>. QED
    BY <1>1, <1>6, <2>1, RetiringSteps
<1>7. CASE Rehydrate
  <2>1. row \cap RemovedAtStart = {}
    BY DEF RemovedAtStart
  <2>2. /\ cached' = cached \ RemovedAtStart /\ sources' = cached' /\ unsynced' = RemovedAtStart
        /\ UNCHANGED <<row, rowWasLive, started>>
    BY <1>7 DEF Rehydrate
  <2>. QED
    BY <2>1, <2>2 DEF BoundImagesSurvive
<1>8. CASE Close
  <2>1. up /\ ~closed /\ UNCHANGED <<up, row, rowWasLive, started>>
    BY <1>8 DEF Close
  <2>2. \/ /\ cached' = cached \ (sources \ row) /\ unsynced' \subseteq unsynced /\ closed' = TRUE
        \/ /\ \E gone \in SUBSET (sources \ row) :
                cached' = cached \ gone /\ unsynced' = unsynced \union gone
           /\ sources' = sources
    BY <1>8 DEF Close
  <2>. QED
    BY <2>1, <2>2 DEF BoundImagesSurvive
<1>9. CASE Exit \/ PowerLoss
  BY <1>9 DEF Exit, PowerLoss, Forget, BoundImagesSurvive
<1>10. CASE ReleaseRequest
  BY <1>10 DEF ReleaseRequest, BoundImagesSurvive
<1>11. CASE \/ \E r \in Refs : Age(r)
            \/ \E R \in SUBSET Refs : BeginCreate(R, TRUE) \/ BeginCreate(R, FALSE)
            \/ Prepare \/ Publish \/ UNCHANGED vars
  <2>1. UNCHANGED <<disk, memory, row, rowWasLive>>
    BY <1>11 DEF Age, BeginCreate, Prepare, Publish, vars
  <2>2. started => started'
    BY <1>11 DEF Age, BeginCreate, Prepare, Publish, vars
  <2>. QED
    BY <2>1, <2>2 DEF BoundImagesSurvive
<1>. QED
  BY <1>2, <1>3, <1>4, <1>5, <1>6, <1>7, <1>8, <1>9, <1>10, <1>11 DEF Next

-----------------------------------------------------------------------------
(* An image is handed out once.                                            *)

LEMMA JobStep ==
  ASSUME HandleTypeOK, StoreInv, JobInv, [Next]_vars
  PROVE  JobInv'
<1> USE DEF disk, memory, clients, create, history
\* Whoever has no handle before a retirement, and is not in the directory and
\* will not return to it, has none and is not there afterwards.
<1>1. ASSUME NEW R, Retires(R), UNCHANGED <<published, repeated>>
      PROVE  /\ (cached \union unsynced \union sources)'
                    \subseteq cached \union unsynced \union sources
             /\ unsynced' \ sources' \subseteq unsynced \ sources
             /\ (published \intersect (cached \union unsynced \union sources) = {})'
             /\ repeated' = {}
  <2>1. (cached \union unsynced \union sources)'
              \subseteq cached \union unsynced \union sources
    BY <1>1 DEF Retires, Retired, RetiringFails
  <2>2. unsynced' \ sources' \subseteq unsynced \ sources
    BY <1>1 DEF Retires, Retired, RetiringFails
  <2>. QED
    BY <1>1, <2>1, <2>2 DEF JobInv
<1>2. ASSUME NEW r \in Refs, StageMedia(r) PROVE JobInv'
  <2>1. CASE made' = made
    <3>1. Retires(Expired({})) /\ UNCHANGED <<step, job, published, repeated>>
      BY <1>2, <2>1, RetiringSteps
    <3>. QED
      BY <1>1, <3>1 DEF JobInv
  <2>2. CASE made' # made
    <3>1. Stages(r)
      BY <1>2, <2>2, StagingSteps
    <3>2. r \notin job /\ r \notin published
      BY <3>1 DEF Stages, HandleTypeOK
    <3>3. (cached \union unsynced \union sources)'
              \subseteq (cached \union unsynced \union sources) \union {r}
      BY <3>1 DEF Stages
    <3>4. unsynced' \ sources' \subseteq (unsynced \ sources) \union {r}
      <4>1. unsynced \cap sources = {}
        BY <3>1 DEF Stages, StoreInv
      <4>. QED
        BY <3>1, <4>1 DEF Stages
    <3>. QED
      BY <3>1, <3>2, <3>3, <3>4 DEF Stages, JobInv
  <2>. QED
    BY <2>1, <2>2
<1>3. ASSUME NEW R \in SUBSET Refs, Discard(R) PROVE JobInv'
  <2>1. Retires(R \cap sources) /\ UNCHANGED <<step, job, published, repeated>>
    BY <1>3, RetiringSteps
  <2>. QED
    BY <1>1, <2>1 DEF JobInv
<1>4. CASE Resolve
  <2>1. Retires(Expired(job)) /\ Expired(job) \intersect job = {} /\ UNCHANGED <<published, repeated>>
    BY <1>4, RetiringSteps
  <2>2. \/ step' = "none"
        \/ step' = "resolved" /\ job' = job /\ job \subseteq sources
    BY <1>4 DEF Resolve, NoCreate
  <2>3. job \subseteq sources => job \subseteq sources'
    BY <2>1 DEF Retires, Retired, RetiringFails
  <2>. QED
    BY <1>1, <2>1, <2>2, <2>3 DEF JobInv
<1>5. CASE Prepare
  BY <1>5 DEF Prepare, NoCreate, JobInv
<1>6. CASE Consume
  <2>1. Retires(job \cap sources) /\ UNCHANGED <<published, repeated>>
    BY <1>6, RetiringSteps
  <2>2. step' = "none" \/ step' = "consumed"
    BY <1>6 DEF Consume, NoCreate
  <2>3. ASSUME step' = "consumed"
        PROVE  /\ job' = job /\ step = "prepared"
               /\ job \intersect (cached' \union unsynced' \union sources') = {}
    <3>1. /\ step = "prepared" /\ job' = job /\ up /\ ~closed
          /\ \/ job \cap sources = {} /\ UNCHANGED <<cached, unsynced, sources>>
             \/ Retired(job \cap sources)
      BY <1>6, <2>3 DEF Consume, NoCreate, StoreInv
    <3>2. cached \subseteq sources /\ job \intersect unsynced \subseteq sources
      BY <3>1 DEF StoreInv, JobInv
    <3>. QED
      BY <3>1, <3>2 DEF Retired
  <2>. QED
    BY <1>1, <2>1, <2>2, <2>3 DEF JobInv
<1>7. CASE Publish
  <2>1. step = "consumed" /\ step' = "none" /\ UNCHANGED <<cached, unsynced, sources>>
    BY <1>7 DEF Publish, NoCreate
  <2>2. /\ published' \subseteq published \union job
        /\ repeated' \subseteq repeated \union (published \cap job)
    BY <1>7 DEF Publish
  <2>. QED
    BY <2>1, <2>2 DEF JobInv
<1>8. CASE Rehydrate \/ Close \/ Exit \/ PowerLoss
  <2>1. step' = "none" /\ UNCHANGED <<published, repeated>>
    BY <1>8 DEF Rehydrate, Close, Exit, PowerLoss, Forget, NoCreate, StoreInv
  <2>2. (cached \union unsynced \union sources)'
              \subseteq cached \union unsynced \union sources
    <3>1. CASE Rehydrate
      BY <3>1 DEF Rehydrate, RemovedAtStart
    <3>2. CASE Close
      BY <3>2 DEF Close
    <3>3. CASE Exit \/ PowerLoss
      BY <3>3 DEF Exit, PowerLoss, Forget
    <3>. QED
      BY <1>8, <3>1, <3>2, <3>3
  <2>. QED
    BY <2>1, <2>2 DEF JobInv
<1>9. CASE \/ \E R \in SUBSET Refs : BeginCreate(R, TRUE) \/ BeginCreate(R, FALSE)
           \/ \E r \in Refs : Age(r)
           \/ \E R \in SUBSET Refs : BindRequest(R)
           \/ ReleaseRequest \/ UNCHANGED vars
  <2>1. /\ UNCHANGED <<disk, memory, published, repeated>>
        /\ UNCHANGED <<step, job>> \/ step' = "begun"
    BY <1>9 DEF BeginCreate, Age, BindRequest, ReleaseRequest, vars
  <2>. QED
    BY <2>1 DEF JobInv
<1>. QED
  BY <1>2, <1>3, <1>4, <1>5, <1>6, <1>7, <1>8, <1>9 DEF Next

-----------------------------------------------------------------------------
(* The results.                                                            *)

LEMMA HandleInvInit == Init => HandleInv
<1> SUFFICES ASSUME Init PROVE HandleInv
  OBVIOUS
<1>1. HandleTypeOK
  BY DEF Init, HandleTypeOK
<1>2. FitInv
  <2>1. sources \union Returning = {} /\ sources = {} /\ bytes = 0
    BY DEF Init, Returning, LiveRow
  <2>. QED
    BY <2>1, FS_EmptySet, HandleConstants DEF FitInv, Fits, Weight
<1>3. StoreInv /\ HolderInv /\ JobInv /\ BoundImagesSurvive
  BY DEF Init, StoreInv, HolderInv, JobInv, BoundImagesSurvive, Ready
<1>. QED
  BY <1>1, <1>2, <1>3 DEF HandleInv

LEMMA HandleInvariance == HandleSpec => []HandleInv
<1>1. HandleInv /\ [Next]_vars => HandleInv'
  <2> SUFFICES ASSUME HandleInv, [Next]_vars PROVE HandleInv'
    OBVIOUS
  <2> USE DEF HandleInv
  <2>1. HandleTypeOK'
    BY StoreTypeStep, ClientTypeStep, TypeParts, TypePartsNext
  <2>. QED
    BY <2>1, FitStep, StoreStep, HolderStep, JobStep, BoundStep
<1>. QED
  BY <1>1, HandleInvInit, PTL DEF HandleSpec

\* The type invariant of the store, its directory and its clients.
THEOREM HandleTypeCorrect == HandleSpec => []HandleTypeOK
<1>1. HandleInv => HandleTypeOK
  BY DEF HandleInv
<1>. QED
  BY <1>1, HandleInvariance, PTL

\* For any images and quotas: the images of a bound request whose execution
\* has not started survive everything that other clients, expiry, shutdown,
\* process deaths and power losses do, and an open store resolves them.
THEOREM BoundImagesStay == HandleSpec => []BoundImagesSurvive
<1>1. HandleInv => BoundImagesSurvive
  BY DEF HandleInv
<1>. QED
  BY <1>1, HandleInvariance, PTL

\* No image is handed to a writer a second time, by whatever sequence of
\* creates, restarts and power losses.
THEOREM ImagesArePublishedOnce == HandleSpec => []ImagePublishedOnce
<1>1. HandleInv => ImagePublishedOnce
  BY DEF HandleInv, JobInv, ImagePublishedOnce
<1>. QED
  BY <1>1, HandleInvariance, PTL

\* A store that knows of no failure counts exactly the files there are, within
\* both quotas, and one closed without an error leaves only bound images.
THEOREM DirectoriesAreAccounted == HandleSpec => []DirectoryIsAccounted
<1>1. HandleInv => DirectoryIsAccounted
  <2> SUFFICES ASSUME HandleInv PROVE DirectoryIsAccounted
    OBVIOUS
  <2>1. Fits(sources)
    <3>1. sources \union Returning \in SUBSET Refs
      BY DEF HandleInv, Returning, HandleTypeOK
    <3>. QED
      BY <3>1, FitsMonotone DEF HandleInv, FitInv
  <2>2. Ready => cached = sources /\ temps = {} /\ bytes = Weight(sources)
    BY DEF HandleInv, HandleTypeOK, FitInv, StoreInv, Ready
  <2>. QED
    BY <2>1, <2>2 DEF HandleInv, StoreInv, DirectoryIsAccounted
<1>. QED
  BY <1>1, HandleInvariance, PTL

\* After any failures the next start finds what fits the quotas, unless it
\* must keep a request that was bound to images that had already expired.
THEOREM NextStartsSucceed == HandleSpec => []NextStartSucceeds
<1>1. HandleInv => NextStartSucceeds
  <2> SUFFICES ASSUME HandleInv, ~up, row = {} \/ rowWasLive PROVE Fits(cached \ RemovedAtStart)
    BY DEF NextStartSucceeds
  <2>1. /\ cached \ RemovedAtStart \subseteq sources \union Returning
        /\ sources \union Returning \in SUBSET Refs
    BY DEF RemovedAtStart, Returning, LiveRow, HandleInv, HandleTypeOK
  <2>. QED
    BY <2>1, FitsMonotone DEF HandleInv, FitInv
<1>. QED
  BY <1>1, HandleInvariance, PTL
=============================================================================
