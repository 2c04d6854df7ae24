------------------------- MODULE MediaStorageProofs -------------------------
(***************************************************************************)
(* Proofs about what uploads, cleanups and deletions leave in the database *)
(* and in the object storage: no asset is booked twice, and what is        *)
(* published is stored.  The invariants are about the tokens of the claims *)
(* and hold for any number of assets, workers and claims.                  *)
(***************************************************************************)
EXTENDS ContentSaveProofs

USE DEF Assets, Cleaners, Discarding

-----------------------------------------------------------------------------
(***************************************************************************)
(* What a step can do to the database.                                     *)
(***************************************************************************)
Register(a) ==
    /\ row[a] = "absent"
    /\ \/ Insert(a, "provisional") /\ a \in Drafts
       \/ Insert(a, "active")
    /\ UNCHANGED <<claim, published, usage>>

Fails(w) == OwnsClaim(w) /\ Writing(w) /\ seen[w] # "finished" /\ PersistFailure(w)

Publishes(w) ==
    /\ OwnsClaim(w) /\ pc[w] = "finalize" /\ seen[w] # "finished"
    /\ Publish(w) /\ Reply(w, "idle")

Activate == row' = Activated /\ UNCHANGED <<upload, session, claim, published, usage>>

Removable(gone) ==
    \/ gone = Provisional /\ op \in Discarding
    \/ gone \subseteq Deletable

LEMMA MoreTypes ==
    ASSUME Typed
    PROVE  /\ upload \in [Assets -> {"pending", "processed", "failed"}]
           /\ claim \in [Assets -> Claims] /\ published \in [Assets -> Claims]
           /\ issued \in Nat /\ usage \in Nat
           /\ object \in [Assets -> BOOLEAN]
           /\ variants \in [Assets -> SUBSET Claims]
           /\ token \in [Workers -> Claims] /\ replaced \in [Workers -> Claims]
           /\ cleaner \in [Cleaners -> {"idle", "list", "delete", "finalize"}]
           /\ todo \in [Cleaners -> SUBSET Assets]
           /\ Claims \subseteq Nat
<1>1. Claims \subseteq Nat
  BY MediaAssumption DEF Claims
<1>2. UploadTypeOK
  BY DEF Typed, TypeOK
<1>3. issued \in Nat
  BY <1>1, <1>2 DEF UploadTypeOK
<1>4. /\ cleaner \in [Cleaners -> {"idle", "list", "delete", "finalize"}]
      /\ todo \in [Cleaners -> SUBSET Assets]
  BY DEF Typed, TypeOK
<1> QED BY <1>1, <1>2, <1>3, <1>4 DEF UploadTypeOK

LEMMA DatabaseStep ==
    ASSUME Typed, [Next]_vars
    PROVE  \/ UNCHANGED database
           \/ \E a \in Assets : Register(a)
           \/ \E w \in Workers, a \in Assets : ClaimUpload(w, a)
           \/ \E w \in Workers : Fails(w) \/ Publishes(w)
           \/ Activate
           \/ \E gone \in SUBSET Assets : Removable(gone) /\ Remove(gone)
<1> DEFINE Owned == \E w \in Workers : Fails(w) \/ Publishes(w)
           Removed == \E gone \in SUBSET Assets : Removable(gone) /\ Remove(gone)
<1>0. Typed /\ SeenInFlight
  BY DEF Typed
<1>1. CASE UploadNext
  <2>1. ASSUME NEW d \in Drafts, RegisterDraft(d)
        PROVE  UNCHANGED database \/ Register(d)
    BY <2>1 DEF RegisterDraft, Register, database
  <2>2. ASSUME NEW a \in Library, RegisterInLibrary(a) PROVE Register(a)
    BY <2>2 DEF RegisterInLibrary, Register
  <2>3. CASE \E w \in Workers, a \in Assets : ClaimUpload(w, a)
    BY <2>3
  <2>4. ASSUME NEW w \in Workers, FailClaimed(w) PROVE UNCHANGED database \/ Fails(w)
    BY <1>0, <2>4 DEF FailClaimed, Fails, Writing, SeenInFlight
  <2>5. ASSUME NEW w \in Workers, Finalize(w) PROVE UNCHANGED database \/ Fails(w) \/ Publishes(w)
    BY <1>0, <2>5 DEF Finalize, MayPublish, Fails, Publishes, Writing, SeenInFlight
  <2>6. CASE UNCHANGED database
    BY <2>6
  <2> QED BY <1>1, <2>1, <2>2, <2>3, <2>4, <2>5, <2>6 DEF UploadNext, UploadStep, Put, ReadUpload,
             SweepReplaced, FindInvalid, WriteVariants, DiscardVariants, DropObject, StorageFails,
             Crash
<1>2. CASE ClientNext
  <2>1. CASE Commit
    BY <2>1 DEF Commit, Activate, database
  <2>2. CASE ClientNext /\ ~ Commit
    BY <2>2 DEF ClientNext, CreateOperation, StartUpload, CheckDraft, FinishUploads, database,
                ReplaceReferences, GiveUp, MarkSaving, AwaitContent, ReportUnknown, MarkSaved,
                RetrySync, Abandon, uploadVars
  <2> QED BY <1>2, <2>1, <2>2
<1>3. ASSUME NEW c \in Cleaners, CleanupStep(c) PROVE UNCHANGED database \/ Removed
  <2>1. Provisional \in SUBSET Assets
    BY DEF Provisional
  <2> QED BY <1>3, <2>1 DEF CleanupStep, ListAssets, DeleteObjects, FinalizeCleanup, CleanupFails,
             uploadVars, database, Removable
<1>4. CASE LibraryNext
  <2>1. ASSUME NEW a \in Deletable, DeleteAsset(a) PROVE UNCHANGED database \/ Removed
    <3>1. {a} \in SUBSET Assets
      BY SaveAssumption
    <3> QED BY <2>1, <3>1 DEF DeleteAsset, Removable
  <2> QED BY <1>4, <2>1 DEF LibraryNext, CheckDelete, EmptyAsset, SetReferences, uploadVars, database
<1>5. CASE Expire \/ WriteContent \/ Correlate \/ Recover \/ UNCHANGED vars
  BY <1>5 DEF Expire, WriteContent, Correlate, Recover, vars, uploadVars, database
<1> QED BY <1>1, <1>2, <1>3, <1>4, <1>5 DEF Next

-----------------------------------------------------------------------------
(***************************************************************************)
(* Bookings.  Only the worker that owns the claim of an upload books it,   *)
(* and an upload whose session is claimed is not booked yet.               *)
(***************************************************************************)
Sessions ==
    /\ \A a \in Assets : session[a] # "none" => row[a] # "absent"
    /\ \A a \in Assets : upload[a] = "processed" => session[a] = "validated"

LEMMA InitSessions == Init => Sessions /\ NoDoubleBooking
<1> SUFFICES ASSUME Init PROVE Sessions /\ NoDoubleBooking
  OBVIOUS
<1>1. PICK ready \in SUBSET Library : InitUpload!(ready)
  BY DEF Init, InitUpload
<1>2. Booked = ready
  BY <1>1 DEF Booked
<1>3. usage = Cardinality(ready) /\ Cardinality(ready) \in Nat
  BY <1>1, MediaAssumption, FS_Subset, FS_CardinalityType
<1> QED BY <1>1, <1>2, <1>3 DEF Sessions, NoDoubleBooking

LEMMA StepSessions == Typed /\ Sessions /\ [Next]_vars => Sessions'
<1> SUFFICES ASSUME Typed, Sessions, [Next]_vars PROVE Sessions'
  OBVIOUS
<1> USE TypesOfUploads, MoreTypes DEF Sessions
<1>1. CASE UNCHANGED database
  BY <1>1 DEF database
<1>2. ASSUME NEW a \in Assets, Register(a) PROVE Sessions'
  BY <1>2 DEF Register, Insert
<1>3. ASSUME NEW w \in Workers, NEW a \in Assets, ClaimUpload(w, a) PROVE Sessions'
  BY <1>3 DEF ClaimUpload
<1>4. ASSUME NEW w \in Workers, Fails(w) PROVE Sessions'
  BY <1>4 DEF Fails, PersistFailure
<1>5. ASSUME NEW w \in Workers, Publishes(w) PROVE Sessions'
  BY <1>5 DEF Publishes, Publish
<1>6. CASE Activate
  BY <1>6 DEF Activate, Activated
<1>7. ASSUME NEW gone \in SUBSET Assets, Remove(gone) PROVE Sessions'
  BY <1>7 DEF Remove
<1> QED BY <1>1, <1>2, <1>3, <1>4, <1>5, <1>6, <1>7, DatabaseStep

LEMMA BookedFinite == IsFiniteSet(Booked) /\ Cardinality(Booked) \in Nat
<1>1. IsFiniteSet(Assets)
  BY MediaAssumption, FS_Union
<1>2. Booked \in SUBSET Assets
  BY DEF Booked
<1>3. IsFiniteSet(Booked)
  BY <1>1, <1>2, FS_Subset
<1> QED BY <1>3, FS_CardinalityType

\* The floor at zero loses no unit: at most as many assets are unbooked as are
\* taken off the usage.
LEMMA RemovalKeepsBooking ==
    ASSUME Typed, NoDoubleBooking, NEW gone \in SUBSET Assets, Remove(gone)
    PROVE  NoDoubleBooking'
<1>1. Booked' = Booked \ gone
  BY TypesOfUploads, MoreTypes DEF Remove, Booked
<1>2. IsFiniteSet(gone) /\ Cardinality(gone) \in Nat
  BY MediaAssumption, FS_Union, FS_Subset, FS_CardinalityType
<1>3. Cardinality(gone \cap Booked) <= Cardinality(gone)
  BY <1>2, FS_Intersection
<1>4. Booked \cap gone = gone \cap Booked
  OBVIOUS
<1>5. IsFiniteSet(gone \cap Booked) /\ Cardinality(gone \cap Booked) \in Nat
  BY <1>2, FS_Intersection, FS_CardinalityType
<1>6. /\ IsFiniteSet(Booked \ gone)
      /\ Cardinality(Booked \ gone) = Cardinality(Booked) - Cardinality(Booked \cap gone)
  BY BookedFinite, FS_Difference
<1>7. Cardinality(Booked \ gone) \in Nat
  BY <1>6, FS_CardinalityType
<1>8. usage' = IF usage > Cardinality(gone) THEN usage - Cardinality(gone) ELSE 0
  BY DEF Remove
<1>9. usage' <= Cardinality(Booked \ gone)
  <2>1. usage <= Cardinality(Booked) /\ usage \in Nat /\ Cardinality(Booked) \in Nat
    BY MoreTypes, BookedFinite DEF NoDoubleBooking
  <2> QED BY <2>1, <1>2, <1>3, <1>4, <1>5, <1>6, <1>7, <1>8
<1> QED BY <1>1, <1>9 DEF NoDoubleBooking

LEMMA StepBooking == Typed /\ Sessions /\ NoDoubleBooking /\ [Next]_vars => NoDoubleBooking'
<1> SUFFICES ASSUME Typed, Sessions, NoDoubleBooking, [Next]_vars PROVE NoDoubleBooking'
  OBVIOUS
<1> USE TypesOfUploads, MoreTypes
<1>1. ASSUME UNCHANGED <<usage>>, Booked' = Booked PROVE NoDoubleBooking'
  BY <1>1 DEF NoDoubleBooking
<1>2. CASE UNCHANGED database
  BY <1>1, <1>2 DEF database, Booked
<1>3. ASSUME NEW a \in Assets, Register(a) PROVE NoDoubleBooking'
  <2>1. Booked' = Booked
    BY <1>3 DEF Register, Insert, Booked
  <2> QED BY <1>1, <1>3, <2>1 DEF Register
<1>4. ASSUME NEW w \in Workers, NEW a \in Assets, ClaimUpload(w, a) PROVE NoDoubleBooking'
  BY <1>1, <1>4 DEF ClaimUpload, Booked
<1>5. ASSUME NEW w \in Workers, OwnsClaim(w) PROVE asset[w] \in Assets /\ asset[w] \notin Booked
  BY <1>5 DEF OwnsClaim, Sessions, Booked
<1>6. ASSUME NEW w \in Workers, Fails(w) PROVE NoDoubleBooking'
  <2>1. Booked' = Booked
    BY <1>5, <1>6 DEF Fails, PersistFailure, Booked
  <2> QED BY <1>1, <1>6, <2>1 DEF Fails, PersistFailure
<1>7. ASSUME NEW w \in Workers, Publishes(w) PROVE NoDoubleBooking'
  <2>1. Booked' = Booked \cup {asset[w]}
    BY <1>5, <1>7 DEF Publishes, Publish, Booked
  <2>2. Cardinality(Booked \cup {asset[w]}) = Cardinality(Booked) + 1
    BY <1>5, <1>7, BookedFinite, FS_AddElement DEF Publishes
  <2> QED BY <1>7, <2>1, <2>2, BookedFinite DEF Publishes, Publish, NoDoubleBooking
<1>8. CASE Activate
  <2>1. Booked' = Booked
    BY <1>8 DEF Activate, Activated, Booked
  <2> QED BY <1>1, <1>8, <2>1 DEF Activate
<1>9. ASSUME NEW gone \in SUBSET Assets, Remove(gone) PROVE NoDoubleBooking'
  BY <1>9, RemovalKeepsBooking
<1> QED BY <1>2, <1>3, <1>4, <1>6, <1>7, <1>8, <1>9, DatabaseStep

\* An asset is booked at most once, however its completion is repeated,
\* overtaken or interrupted and whatever else is removed meanwhile.
THEOREM BookedOnce == Spec => []NoDoubleBooking
BY Invariant, InitSessions, StepSessions, StepBooking, PTL DEF Spec, Inv

-----------------------------------------------------------------------------
(***************************************************************************)
(* Claims.  Tokens are never issued twice, so the variants a worker sweeps *)
(* or discards are never those of the claim that owns the session, nor the *)
(* published ones.                                                         *)
(***************************************************************************)
Tokens ==
    /\ issued >= 1
    /\ \A a \in Assets : claim[a] <= issued /\ published[a] <= issued
    /\ \A w \in Workers : pc[w] # "idle" => token[w] \in 2..issued
    /\ \A v, w \in Workers : v # w /\ pc[v] # "idle" /\ pc[w] # "idle" => token[v] # token[w]

PublishedWhereValidated == \A a \in Assets : published[a] # 0 <=> session[a] = "validated"

Sweeps ==
    \A w \in Workers : pc[w] \in {"read", "sweep"} /\ replaced[w] # 0 =>
        replaced[w] # claim[asset[w]] /\ replaced[w] # published[asset[w]]

SweepsBelow == \A w \in Workers : pc[w] \in {"read", "sweep"} => replaced[w] <= issued

ClaimInv == Sessions /\ Tokens /\ PublishedWhereValidated /\ Sweeps /\ SweepsBelow

SameClaim(w) == asset'[w] = asset[w] /\ token'[w] = token[w] /\ replaced'[w] = replaced[w]

LEMMA WorkerStep ==
    ASSUME Typed, [Next]_vars, NEW w \in Workers
    PROVE  \/ \E a \in Assets : ClaimUpload(w, a)
           \/ /\ SameClaim(w)
              /\ pc'[w] # "idle" => pc[w] # "idle"
              /\ pc'[w] \in {"read", "sweep"} => pc[w] \in {"read", "sweep"}
<1> DEFINE Goes == /\ SameClaim(w)
                   /\ pc'[w] # "idle" => pc[w] # "idle"
                   /\ pc'[w] \in {"read", "sweep"} => pc[w] \in {"read", "sweep"}
           Done == Goes \/ \E a \in Assets : ClaimUpload(w, a)
<1> USE TypesOfUploads, MoreTypes DEF SameClaim
<1>1. CASE UNCHANGED worker
  BY <1>1 DEF worker
<1>2. ASSUME NEW v \in Workers, NEW a \in Assets, ClaimUpload(v, a) PROVE Done
  <2>1. CASE v = w
    BY <1>2, <2>1
  <2>2. CASE v # w
    BY <1>2, <2>2 DEF ClaimUpload, Goto
  <2> QED BY <2>1, <2>2
<1>3. ASSUME NEW v \in Workers,
             ReadUpload(v) \/ SweepReplaced(v) \/ FindInvalid(v) \/ WriteVariants(v)
      PROVE  Goes
  BY <1>3 DEF Goto, ReadUpload, SweepReplaced, FindInvalid, WriteVariants
<1>4. ASSUME NEW v \in Workers, FailClaimed(v) \/ DiscardVariants(v) \/ DropObject(v) \/ Crash(v)
      PROVE  Goes
  BY <1>4 DEF Goto, FailClaimed, DiscardVariants, DropObject, Crash
<1>5. ASSUME NEW v \in Workers, Finalize(v) PROVE Goes
  BY <1>5 DEF Goto, Finalize, Reply
<1>6. ASSUME NEW v \in Workers, StorageFails(v) PROVE Goes
  BY <1>6 DEF Goto, StorageFails
<1>7. CASE UploadNext
  BY <1>1, <1>2, <1>3, <1>4, <1>5, <1>6, <1>7 DEF UploadNext, UploadStep, RegisterDraft,
     RegisterInLibrary, Put
<1>8. CASE ClientNext
  BY <1>1, <1>8 DEF ClientNext, CreateOperation, StartUpload, CheckDraft, FinishUploads, Commit,
              ReplaceReferences, GiveUp, MarkSaving, AwaitContent, ReportUnknown, MarkSaved,
              RetrySync, Abandon, uploadVars, worker
<1>9. CASE LibraryNext \/ \E c \in Cleaners : CleanupStep(c)
  BY <1>1, <1>9 DEF LibraryNext, CheckDelete, EmptyAsset, DeleteAsset, SetReferences, CleanupStep,
              ListAssets, DeleteObjects, FinalizeCleanup, CleanupFails, uploadVars, worker
<1>10. CASE Expire \/ WriteContent \/ Correlate \/ Recover \/ UNCHANGED vars
  BY <1>1, <1>10 DEF Expire, WriteContent, Correlate, Recover, vars, uploadVars, worker
<1> QED BY <1>7, <1>8, <1>9, <1>10 DEF Next

\* The counter of claims moves with a claim only.
LEMMA IssuedStep ==
    ASSUME Typed, [Next]_vars
    PROVE  issued' = issued \/ \E w \in Workers, a \in Assets : ClaimUpload(w, a)
<1> SUFFICES ASSUME \A w \in Workers, a \in Assets : ~ ClaimUpload(w, a) PROVE issued' = issued
  OBVIOUS
<1>1. CASE UploadNext
  BY <1>1 DEF UploadNext, UploadStep, RegisterDraft, RegisterInLibrary, Put, ReadUpload,
           SweepReplaced, FindInvalid, WriteVariants, FailClaimed, Finalize, DiscardVariants,
           DropObject, StorageFails, Crash
<1>2. CASE ClientNext
  BY <1>2 DEF ClientNext, CreateOperation, StartUpload, CheckDraft, FinishUploads, Commit,
              ReplaceReferences, GiveUp, MarkSaving, AwaitContent, ReportUnknown, MarkSaved,
              RetrySync, Abandon, uploadVars
<1>3. CASE LibraryNext \/ \E c \in Cleaners : CleanupStep(c)
  BY <1>3 DEF LibraryNext, CheckDelete, EmptyAsset, DeleteAsset, SetReferences, CleanupStep,
              ListAssets, DeleteObjects, FinalizeCleanup, CleanupFails, uploadVars
<1>4. CASE Expire \/ WriteContent \/ Correlate \/ Recover \/ UNCHANGED vars
  BY <1>4 DEF Expire, WriteContent, Correlate, Recover, vars, uploadVars
<1> QED BY <1>1, <1>2, <1>3, <1>4 DEF Next

LEMMA InitClaims == Init => ClaimInv
<1> SUFFICES ASSUME Init PROVE ClaimInv
  OBVIOUS
<1>1. PICK ready \in SUBSET Library : InitUpload!(ready)
  BY DEF Init, InitUpload
<1>2. issued = 1 /\ \A w \in Workers : pc[w] = "idle"
  BY <1>1
<1>3. \A a \in Assets : claim[a] = 0 /\ published[a] = IF a \in ready THEN 1 ELSE 0
  BY <1>1
<1>4. \A a \in Assets : session[a] = IF a \in ready THEN "validated" ELSE "none"
  BY <1>1
<1> QED BY <1>2, <1>3, <1>4, InitSessions DEF ClaimInv, Tokens, PublishedWhereValidated, Sweeps,
           SweepsBelow

LEMMA ClaimKeepsClaims ==
    ASSUME Typed, ClaimInv, NEW w \in Workers, NEW a \in Assets, ClaimUpload(w, a)
    PROVE  Tokens' /\ PublishedWhereValidated' /\ Sweeps' /\ SweepsBelow'
<1> USE TypesOfUploads, MoreTypes
<1>1. /\ issued' = issued + 1
      /\ published' = published
      /\ published[a] = 0
    BY DEF ClaimUpload, ClaimInv, PublishedWhereValidated
<1>2. /\ claim'[a] = issued + 1
      /\ \A b \in Assets \ {a} : claim'[b] = claim[b]
  BY DEF ClaimUpload
<1>3. /\ asset'[w] = a /\ token'[w] = issued + 1 /\ replaced'[w] = claim[a]
      /\ \A v \in Workers \ {w} : SameClaim(v) /\ pc'[v] = pc[v]
  BY DEF ClaimUpload, Goto, SameClaim
<1>4. \A b \in Assets : claim[b] \in Nat /\ published[b] \in Nat
  OBVIOUS
<1>5. \A v \in Workers : token[v] \in Nat /\ replaced[v] \in Nat
  OBVIOUS
<1>6. Tokens'
  <2>1. \A b \in Assets : claim'[b] <= issued' /\ published'[b] <= issued'
    BY <1>1, <1>2, <1>4 DEF ClaimInv, Tokens
  <2>2. \A v \in Workers : pc'[v] # "idle" => token'[v] \in 2..issued'
    BY <1>1, <1>3, <1>5 DEF ClaimInv, Tokens, SameClaim
  <2>3. \A v \in Workers \ {w} : pc'[v] # "idle" => token'[v] # token'[w]
    BY <1>3, <1>5 DEF ClaimInv, Tokens, SameClaim
  <2>4. \A u, v \in Workers \ {w} :
           u # v /\ pc'[u] # "idle" /\ pc'[v] # "idle" => token'[u] # token'[v]
    BY <1>3 DEF ClaimInv, Tokens, SameClaim
  <2>5. \A u, v \in Workers :
           u # v /\ pc'[u] # "idle" /\ pc'[v] # "idle" => token'[u] # token'[v]
    BY <2>3, <2>4
  <2>6. issued' >= 1
    BY <1>1 DEF ClaimInv, Tokens
  <2> QED BY <2>1, <2>2, <2>5, <2>6 DEF Tokens
<1>7. PublishedWhereValidated'
  BY DEF ClaimUpload, ClaimInv, PublishedWhereValidated
<1>8. SweepsBelow'
  BY <1>1, <1>3, <1>4, <1>5 DEF ClaimInv, SweepsBelow, SameClaim, Tokens
<1>9. ASSUME NEW v \in Workers, pc'[v] \in {"read", "sweep"}, replaced'[v] # 0
      PROVE  replaced'[v] # claim'[asset'[v]] /\ replaced'[v] # published'[asset'[v]]
  <2>1. CASE v = w
    BY <1>1, <1>2, <1>3, <1>4, <1>9, <2>1 DEF ClaimInv, Tokens
  <2>2. CASE v # w
    <3>1. /\ asset'[v] = asset[v] /\ replaced'[v] = replaced[v]
          /\ pc[v] \in {"read", "sweep"} /\ replaced[v] # 0
      BY <1>3, <1>9, <2>2 DEF SameClaim
    <3>2. replaced[v] <= issued /\ replaced[v] # claim[asset[v]] /\ replaced[v] # published[asset[v]]
      BY <3>1 DEF ClaimInv, Sweeps, SweepsBelow
    <3>3. claim'[asset[v]] \in {claim[asset[v]], issued + 1}
      BY <1>2
    <3> QED BY <1>1, <1>5, <3>1, <3>2, <3>3
  <2> QED BY <2>1, <2>2
<1>10. Sweeps'
  BY <1>9 DEF Sweeps
<1> QED BY <1>6, <1>7, <1>8, <1>10

\* Without a new claim, claims end and what is published is the claim's.
LEMMA ClaimsEnd ==
    ASSUME Typed, [Next]_vars, \A w \in Workers, a \in Assets : ~ ClaimUpload(w, a), NEW a \in Assets
    PROVE  /\ claim'[a] \in {claim[a], 0}
           /\ \/ published'[a] \in {published[a], 0}
              \/ /\ published'[a] = claim[a]
                 /\ \E w \in Workers : pc[w] # "idle" /\ asset[w] = a /\ token[w] = claim[a]
<1> DEFINE Done == /\ claim'[a] \in {claim[a], 0}
                   /\ \/ published'[a] \in {published[a], 0}
                      \/ /\ published'[a] = claim[a]
                         /\ \E w \in Workers : pc[w] # "idle" /\ asset[w] = a /\ token[w] = claim[a]
<1> USE TypesOfUploads, MoreTypes
<1>1. CASE UNCHANGED <<claim, published>>
  BY <1>1
<1>2. ASSUME NEW w \in Workers, Fails(w) PROVE Done
  BY <1>2 DEF Fails, PersistFailure
<1>3. ASSUME NEW w \in Workers, Publishes(w) PROVE Done
  BY <1>3 DEF Publishes, Publish, OwnsClaim
<1>4. ASSUME NEW gone \in SUBSET Assets, Remove(gone) PROVE Done
  BY <1>4 DEF Remove
<1> QED BY <1>1, <1>2, <1>3, <1>4, DatabaseStep DEF Register, Activate, database

LEMMA StepPublished ==
    ASSUME Typed, ClaimInv, [Next]_vars, \A w \in Workers, a \in Assets : ~ ClaimUpload(w, a)
    PROVE  PublishedWhereValidated'
<1> USE TypesOfUploads, MoreTypes DEF PublishedWhereValidated, ClaimInv
<1>1. CASE UNCHANGED <<session, published>>
  BY <1>1
<1>2. ASSUME NEW w \in Workers, Fails(w) PROVE PublishedWhereValidated'
  BY <1>2 DEF Fails, PersistFailure, OwnsClaim
<1>3. ASSUME NEW w \in Workers, Publishes(w) PROVE PublishedWhereValidated'
  <2>1. token[w] # 0
    BY <1>3 DEF Publishes, Tokens
  <2> QED BY <1>3, <2>1 DEF Publishes, Publish
<1>4. ASSUME NEW gone \in SUBSET Assets, Remove(gone) PROVE PublishedWhereValidated'
  BY <1>4 DEF Remove
<1>5. ASSUME NEW a \in Assets, Register(a) PROVE PublishedWhereValidated'
  BY <1>5 DEF Register, Insert, Sessions
<1> QED BY <1>1, <1>2, <1>3, <1>4, <1>5, DatabaseStep DEF Activate, database

LEMMA StepClaims == Typed /\ ClaimInv /\ [Next]_vars => ClaimInv'
<1> SUFFICES ASSUME Typed, ClaimInv, [Next]_vars PROVE ClaimInv'
  OBVIOUS
<1>1. Sessions'
  BY StepSessions DEF ClaimInv
<1>2. CASE \E w \in Workers, a \in Assets : ClaimUpload(w, a)
  BY <1>1, <1>2, ClaimKeepsClaims DEF ClaimInv
<1>3. CASE \A w \in Workers, a \in Assets : ~ ClaimUpload(w, a)
  <2>1. issued' = issued
    BY <1>3, IssuedStep
  <2>2. \A w \in Workers : /\ SameClaim(w)
                           /\ pc'[w] # "idle" => pc[w] # "idle"
                           /\ pc'[w] \in {"read", "sweep"} => pc[w] \in {"read", "sweep"}
    BY <1>3, WorkerStep
  <2>3. Tokens'
    <3>1. \A a \in Assets : claim'[a] <= issued /\ published'[a] <= issued
      BY <1>3, ClaimsEnd, MoreTypes DEF ClaimInv, Tokens
    <3> QED BY <2>1, <2>2, <3>1 DEF ClaimInv, Tokens, SameClaim
  <2>4. Sweeps'
    <3>1. ASSUME NEW w \in Workers, pc'[w] \in {"read", "sweep"}, replaced'[w] # 0
          PROVE  replaced'[w] # claim'[asset'[w]] /\ replaced'[w] # published'[asset'[w]]
      <4>1. /\ replaced'[w] = replaced[w] /\ asset'[w] = asset[w] /\ asset[w] \in Assets
            /\ replaced[w] # claim[asset[w]] /\ replaced[w] # published[asset[w]]
        BY <2>2, <3>1, TypesOfUploads DEF ClaimInv, Sweeps, SameClaim
      <4> QED BY <1>3, <3>1, <4>1, ClaimsEnd
    <3> QED BY <3>1 DEF Sweeps
  <2>5. SweepsBelow'
    BY <2>1, <2>2 DEF ClaimInv, SweepsBelow, SameClaim
  <2>6. PublishedWhereValidated'
    BY <1>3, StepPublished
  <2> QED BY <1>1, <2>3, <2>4, <2>5, <2>6 DEF ClaimInv
<1> QED BY <1>2, <1>3

-----------------------------------------------------------------------------
(***************************************************************************)
(* Cleanups.  A cleanup deletes objects of drafts only, and only while the *)
(* operation is being discarded.                                           *)
(***************************************************************************)
Cleanups ==
    /\ \A c \in Cleaners : cleaner[c] # "idle" => op \in Discarding
    /\ \A c \in Cleaners : todo[c] \subseteq Drafts
    /\ \A a \in Assets : row[a] = "provisional" => a \in Drafts
    /\ \A w \in Workers : Writing(w) /\ seen[w] = "provisional" => asset[w] \in Drafts

LEMMA InitCleanups == Init => Cleanups
<1> SUFFICES ASSUME Init PROVE Cleanups
  OBVIOUS
<1>1. PICK ready \in SUBSET Library : InitUpload!(ready)
  BY DEF Init, InitUpload
<1>2. \A a \in Assets : row[a] # "provisional"
  BY <1>1
<1>3. \A w \in Workers : pc[w] = "idle"
  BY <1>1
<1>4. \A c \in Cleaners : cleaner[c] = "idle" /\ todo[c] = {}
  BY DEF Init
<1> QED BY <1>2, <1>3, <1>4 DEF Cleanups, Writing

LEMMA StepProvisional ==
    ASSUME Typed, Cleanups, [Next]_vars, NEW a \in Assets, row'[a] = "provisional"
    PROVE  a \in Drafts
<1> USE TypesOfUploads, MoreTypes DEF Cleanups
<1>1. CASE row' = row
  BY <1>1
<1>2. ASSUME NEW b \in Assets, Register(b) PROVE a \in Drafts
  BY <1>2 DEF Register, Insert
<1>3. ASSUME NEW w \in Workers, Fails(w) \/ Publishes(w) PROVE a \in Drafts
  BY <1>3 DEF Fails, PersistFailure, Publishes, Publish, Writing
<1>4. CASE Activate
  BY <1>4 DEF Activate, Activated
<1>5. ASSUME NEW gone \in SUBSET Assets, Remove(gone) PROVE a \in Drafts
  BY <1>5 DEF Remove
<1> QED BY <1>1, <1>2, <1>3, <1>4, <1>5, DatabaseStep DEF ClaimUpload, database

\* The worker steps of UploadNext are the only ones that let a worker write.
LEMMA StepWriting ==
    ASSUME Typed, Cleanups, [Next]_vars, NEW w \in Workers, Writing(w)', seen'[w] = "provisional"
    PROVE  asset'[w] \in Drafts
<1> USE TypesOfUploads, MoreTypes DEF Cleanups
<1>1. CASE UploadNext
  <2>1. \/ Writing(w) /\ asset'[w] = asset[w] /\ seen'[w] = seen[w]
        \/ asset'[w] = asset[w] /\ seen'[w] \in {"finished", row[asset[w]]}
    BY <1>1, WorkerSees
  <2> QED BY <2>1
<1>2. CASE UNCHANGED worker
  BY <1>2 DEF worker, Writing
<1>3. CASE ClientNext
  BY <1>2, <1>3 DEF ClientNext, CreateOperation, StartUpload, CheckDraft, FinishUploads, Commit,
              ReplaceReferences, GiveUp, MarkSaving, AwaitContent, ReportUnknown, MarkSaved,
              RetrySync, Abandon, uploadVars, worker
<1>4. CASE LibraryNext \/ \E c \in Cleaners : CleanupStep(c)
  BY <1>2, <1>4 DEF LibraryNext, CheckDelete, EmptyAsset, DeleteAsset, SetReferences, CleanupStep,
              ListAssets, DeleteObjects, FinalizeCleanup, CleanupFails, uploadVars, worker
<1>5. CASE Expire \/ WriteContent \/ Correlate \/ Recover \/ UNCHANGED vars
  BY <1>2, <1>5 DEF Expire, WriteContent, Correlate, Recover, vars, uploadVars, worker
<1> QED BY <1>1, <1>3, <1>4, <1>5 DEF Next

LEMMA StepCleanups == Typed /\ Cleanups /\ [Next]_vars => Cleanups'
<1> SUFFICES ASSUME Typed, Cleanups, [Next]_vars PROVE Cleanups'
  OBVIOUS
<1> DEFINE Done == /\ \A c \in Cleaners : cleaner'[c] # "idle" => op' \in Discarding
                   /\ \A c \in Cleaners : todo'[c] \subseteq Drafts
<1> SUFFICES Done
  BY StepProvisional, StepWriting DEF Cleanups
<1> USE TypesOfUploads, MoreTypes
<1>0. op \in Discarding => op' \in Discarding
  BY DiscardingStays
<1>1. CASE UNCHANGED <<cleaner, todo>>
  BY <1>0, <1>1 DEF Cleanups
<1>2. CASE Abandon
  BY <1>2 DEF Abandon, StartCleanup, Cleanups
<1>3. CASE ClientNext /\ ~ Abandon
  BY <1>1, <1>3 DEF ClientNext, CreateOperation, StartUpload, CheckDraft, FinishUploads, Commit,
              ReplaceReferences, GiveUp, MarkSaving, AwaitContent, ReportUnknown, MarkSaved,
              RetrySync, saveVars
<1>4. CASE Recover
  BY <1>0, <1>4 DEF Recover, StartCleanup, Cleanups
<1>5. ASSUME NEW c \in Cleaners, CleanupStep(c) PROVE Done
  <2>1. CASE ListAssets(c)
    BY <2>1, <1>0 DEF ListAssets, Cleanups, Provisional
  <2>2. CASE DeleteObjects(c)
    BY <2>2, <1>0 DEF DeleteObjects, Cleanups
  <2>3. CASE FinalizeCleanup(c)
    BY <2>3, <1>0 DEF FinalizeCleanup, Cleanups, EndAttempt
  <2>4. CASE CleanupFails(c)
    BY <2>4, <1>0 DEF CleanupFails, Cleanups, EndAttempt
  <2> QED BY <1>5, <2>1, <2>2, <2>3, <2>4 DEF CleanupStep
<1>6. CASE UploadNext \/ LibraryNext \/ Expire \/ WriteContent \/ Correlate \/ UNCHANGED vars
  BY <1>1, <1>6 DEF UploadNext, LibraryNext, CheckDelete, EmptyAsset, DeleteAsset, SetReferences,
     Expire, WriteContent, Correlate, vars, saveVars
<1> QED BY <1>2, <1>3, <1>4, <1>5, <1>6 DEF Next

-----------------------------------------------------------------------------
(***************************************************************************)
(* The storage.  Guarded assets are those nobody deletes on purpose.  Of   *)
(* them, an original is dropped only after its session has failed, and     *)
(* variants are dropped only under tokens that are not published.          *)
(***************************************************************************)
Guarded(a) == a \notin Deletable /\ (a \in Drafts => op \notin Discarding)

OwnTokens ==
    \A w \in Workers : pc[w] # "idle" => \A a \in Assets : published[a] # token[w]

DropsFailed ==
    \A w \in Workers : pc[w] \in {"dropAll", "drop"} /\ Guarded(asset[w])
        => session[asset[w]] = "failed"

VariantsReady ==
    \A w \in Workers : pc[w] = "finalize" /\ OwnsClaim(w) /\ Guarded(asset[w])
        => object[asset[w]] /\ token[w] \in variants[asset[w]]

OriginalIsStored ==
    \A a \in Assets : Guarded(a) /\ session[a] = "validated" => object[a]

Storage == DropsFailed /\ VariantsReady /\ OriginalIsStored

StorageInv == Typed /\ ClaimInv /\ Cleanups /\ Storage

LEMMA InitStorage == Init => Storage /\ OwnTokens /\ PublishedIsStored
<1> SUFFICES ASSUME Init PROVE Storage /\ OwnTokens /\ PublishedIsStored
  OBVIOUS
<1>1. PICK ready \in SUBSET Library : InitUpload!(ready)
  BY DEF Init, InitUpload
<1>2. \A w \in Workers : pc[w] = "idle"
  BY <1>1
<1>3. \A a \in Assets : session[a] = "validated" =>
                           object[a] /\ published[a] = 1 /\ variants[a] = {1}
  BY <1>1
<1> QED BY <1>2, <1>3 DEF Storage, OwnTokens, DropsFailed, VariantsReady, OriginalIsStored,
           PublishedIsStored

LEMMA GuardedBefore == ASSUME [Next]_vars, NEW a, Guarded(a)' PROVE Guarded(a)
BY DiscardingStays DEF Guarded

\* A cleanup or a deletion touches no guarded asset.
LEMMA DeletionSpares ==
    ASSUME Typed, Cleanups, NEW a \in Assets, Guarded(a),
           (\E c \in Cleaners : DeleteObjects(c)) \/ (\E b \in Deletable : EmptyAsset(b))
    PROVE  object'[a] = object[a] /\ variants'[a] = variants[a]
<1> USE TypesOfUploads, MoreTypes DEF Guarded
<1>1. ASSUME NEW c \in Cleaners, DeleteObjects(c)
      PROVE  object'[a] = object[a] /\ variants'[a] = variants[a]
  <2>1. op \in Discarding /\ a \notin todo[c]
    BY <1>1 DEF DeleteObjects, Cleanups
  <2> QED BY <1>1, <2>1 DEF DeleteObjects
<1>2. ASSUME NEW b \in Deletable, EmptyAsset(b)
      PROVE  object'[a] = object[a] /\ variants'[a] = variants[a]
  BY <1>2 DEF EmptyAsset
<1> QED BY <1>1, <1>2

\* Steps of no worker leave the storage of a guarded asset as it is.
LEMMA OnlyWorkersDrop ==
    ASSUME Typed, Cleanups, [Next]_vars, NEW a \in Assets, Guarded(a), ~ UploadNext
    PROVE  object'[a] = object[a] /\ variants'[a] = variants[a]
<1>1. CASE UNCHANGED <<object, variants>>
  BY <1>1
<1>2. CASE ClientNext
  BY <1>1, <1>2 DEF ClientNext, CreateOperation, StartUpload, CheckDraft, FinishUploads, Commit,
              ReplaceReferences, GiveUp, MarkSaving, AwaitContent, ReportUnknown, MarkSaved,
              RetrySync, Abandon, uploadVars
<1>3. CASE LibraryNext
  BY <1>1, <1>3, DeletionSpares DEF LibraryNext, CheckDelete, DeleteAsset, SetReferences, uploadVars
<1>4. ASSUME NEW c \in Cleaners, CleanupStep(c)
      PROVE  object'[a] = object[a] /\ variants'[a] = variants[a]
  BY <1>1, <1>4, DeletionSpares DEF CleanupStep, ListAssets, FinalizeCleanup, CleanupFails, uploadVars
<1>5. CASE Expire \/ WriteContent \/ Correlate \/ Recover \/ UNCHANGED vars
  BY <1>1, <1>5 DEF Expire, WriteContent, Correlate, Recover, vars, uploadVars
<1> QED BY <1>2, <1>3, <1>4, <1>5 DEF Next

LEMMA ObjectLost ==
    ASSUME Typed, Cleanups, [Next]_vars, NEW a \in Assets, Guarded(a), object[a], ~ object'[a]
    PROVE  \E w \in Workers : pc[w] = "drop" /\ asset[w] = a
<1> USE TypesOfUploads, MoreTypes
<1>1. UploadNext
  BY OnlyWorkersDrop
<1>2. PICK w \in Workers : DropObject(w)
  BY <1>1 DEF UploadNext, UploadStep, RegisterDraft, RegisterInLibrary, Put, ClaimUpload,
     ReadUpload, SweepReplaced, FindInvalid, WriteVariants, FailClaimed, Finalize,
     DiscardVariants, StorageFails, Crash
<1> QED BY <1>2 DEF DropObject

LEMMA VariantsLost ==
    ASSUME Typed, Cleanups, [Next]_vars, NEW a \in Assets, Guarded(a),
           NEW k \in variants[a], k \notin variants'[a]
    PROVE  \E w \in Workers :
              /\ asset[w] = a
              /\ \/ pc[w] = "sweep" /\ k = replaced[w]
                 \/ pc[w] \in {"discard", "dropAll"} /\ k = token[w]
              /\ UNCHANGED database
<1> USE TypesOfUploads, MoreTypes
<1>1. UploadNext
  BY OnlyWorkersDrop
<1>2. PICK w \in Workers : SweepReplaced(w) \/ DiscardVariants(w)
  BY <1>1 DEF UploadNext, UploadStep, RegisterDraft, RegisterInLibrary, Put, ClaimUpload,
     ReadUpload, FindInvalid, WriteVariants, FailClaimed, Finalize, DropObject, StorageFails, Crash
<1>3. CASE SweepReplaced(w)
  BY <1>3 DEF SweepReplaced
<1>4. CASE DiscardVariants(w)
  BY <1>4 DEF DiscardVariants
<1> QED BY <1>2, <1>3, <1>4

\* Where a worker comes from that is about to drop an original or to publish.
LEMMA WorkerReaches ==
    ASSUME Typed, [Next]_vars, NEW w \in Workers
    PROVE  /\ pc'[w] \in {"dropAll", "drop"} => pc[w] \in {"dropAll", "drop"} \/ Fails(w)
           /\ pc'[w] = "finalize" => pc[w] = "finalize" \/ WriteVariants(w)
<1> DEFINE Done == /\ pc'[w] \in {"dropAll", "drop"} => pc[w] \in {"dropAll", "drop"} \/ Fails(w)
                   /\ pc'[w] = "finalize" => pc[w] = "finalize" \/ WriteVariants(w)
<1> USE TypesOfUploads DEF Goto
<1>0. Typed /\ SeenInFlight
  BY DEF Typed
<1>1. CASE UNCHANGED worker
  BY <1>1 DEF worker
<1>2. ASSUME NEW v \in Workers, NEW a \in Assets, ClaimUpload(v, a) PROVE Done
  BY <1>2 DEF ClaimUpload
<1>3. ASSUME NEW v \in Workers, ReadUpload(v) \/ SweepReplaced(v) \/ FindInvalid(v) PROVE Done
  BY <1>3 DEF ReadUpload, SweepReplaced, FindInvalid
<1>4. ASSUME NEW v \in Workers, WriteVariants(v) PROVE Done
  <2>1. v = w \/ pc'[w] = pc[w]
    BY <1>4 DEF WriteVariants
  <2> QED BY <1>4, <2>1 DEF WriteVariants
<1>5. ASSUME NEW v \in Workers, FailClaimed(v) PROVE Done
  <2>1. v # w => pc'[w] = pc[w]
    BY <1>5 DEF FailClaimed
  <2>2. v = w => pc'[w] # "finalize" /\ (Fails(w) \/ pc'[w] = "idle")
    BY <1>0, <1>5 DEF FailClaimed, Fails, Writing, SeenInFlight
  <2> QED BY <2>1, <2>2
<1>6. ASSUME NEW v \in Workers, Finalize(v) PROVE Done
  <2>1. v # w => pc'[w] = pc[w]
    BY <1>6 DEF Finalize, Reply
  <2>2. v = w => pc[w] = "finalize" /\ (Fails(w) \/ pc'[w] \in {"idle", "discard"})
    BY <1>0, <1>6 DEF Finalize, Reply, MayPublish, Fails, Writing, SeenInFlight
  <2> QED BY <2>1, <2>2
<1>7. ASSUME NEW v \in Workers, DiscardVariants(v) \/ DropObject(v) \/ StorageFails(v) \/ Crash(v)
      PROVE  Done
  BY <1>7 DEF DiscardVariants, DropObject, StorageFails, Crash
<1>8. CASE UploadNext
  BY <1>1, <1>2, <1>3, <1>4, <1>5, <1>6, <1>7, <1>8 DEF UploadNext, UploadStep, RegisterDraft,
     RegisterInLibrary, Put
<1>9. CASE ClientNext
  BY <1>1, <1>9 DEF ClientNext, CreateOperation, StartUpload, CheckDraft, FinishUploads, Commit,
              ReplaceReferences, GiveUp, MarkSaving, AwaitContent, ReportUnknown, MarkSaved,
              RetrySync, Abandon, uploadVars, worker
<1>10. CASE LibraryNext \/ \E c \in Cleaners : CleanupStep(c)
  BY <1>1, <1>10 DEF LibraryNext, CheckDelete, EmptyAsset, DeleteAsset, SetReferences, CleanupStep,
              ListAssets, DeleteObjects, FinalizeCleanup, CleanupFails, uploadVars, worker
<1>11. CASE Expire \/ WriteContent \/ Correlate \/ Recover \/ UNCHANGED vars
  BY <1>1, <1>11 DEF Expire, WriteContent, Correlate, Recover, vars, uploadVars, worker
<1> QED BY <1>8, <1>9, <1>10, <1>11 DEF Next

\* A session that has failed stays failed, unless its asset is removed.
LEMMA FailedStays ==
    ASSUME StorageInv, [Next]_vars, NEW a \in Assets, Guarded(a), session[a] = "failed"
    PROVE  session'[a] = "failed"
<1> USE TypesOfUploads, MoreTypes DEF StorageInv
<1>1. CASE session' = session
  BY <1>1
<1>2. ASSUME NEW b \in Assets, Register(b) PROVE session'[a] = "failed"
  BY <1>2 DEF Register, Insert, ClaimInv, Sessions
<1>3. ASSUME NEW w \in Workers, NEW b \in Assets, ClaimUpload(w, b) PROVE session'[a] = "failed"
  BY <1>3 DEF ClaimUpload
<1>4. ASSUME NEW w \in Workers, Fails(w) \/ Publishes(w) PROVE session'[a] = "failed"
  BY <1>4 DEF Fails, PersistFailure, Publishes, Publish, OwnsClaim
<1>5. ASSUME NEW gone \in SUBSET Assets, Removable(gone), Remove(gone)
      PROVE  session'[a] = "failed"
  <2>1. a \notin gone
    BY <1>5 DEF Removable, Guarded, Cleanups, Provisional
  <2> QED BY <1>5, <2>1 DEF Remove
<1> QED BY <1>1, <1>2, <1>3, <1>4, <1>5, DatabaseStep DEF Activate, database

\* A worker that has begun keeps the claim it has.
LEMMA KeepsClaim ==
    ASSUME Typed, [Next]_vars, NEW w \in Workers, pc'[w] # "read"
    PROVE  SameClaim(w) /\ (pc'[w] # "idle" => pc[w] # "idle")
<1>1. ASSUME NEW a \in Assets, ClaimUpload(w, a) PROVE FALSE
  BY <1>1, TypesOfUploads DEF ClaimUpload, Goto
<1> QED BY <1>1, WorkerStep

LEMMA StepDrops == StorageInv /\ [Next]_vars => DropsFailed'
<1> SUFFICES ASSUME StorageInv, [Next]_vars,
                    NEW w \in Workers, pc'[w] \in {"dropAll", "drop"}, Guarded(asset[w])'
             PROVE  session'[asset'[w]] = "failed"
  BY DEF DropsFailed
<1>1. asset'[w] = asset[w] /\ asset[w] \in Assets
  BY KeepsClaim, TypesOfUploads DEF StorageInv, SameClaim
<1>2. Guarded(asset[w])
  BY <1>1, DiscardingStays DEF Guarded
<1>3. CASE Fails(w)
  BY <1>1, <1>3, TypesOfUploads DEF Fails, PersistFailure, StorageInv
<1>4. CASE pc[w] \in {"dropAll", "drop"}
  <2>1. session[asset[w]] = "failed"
    BY <1>2, <1>4 DEF StorageInv, Storage, DropsFailed
  <2> QED BY <1>1, <1>2, <2>1, FailedStays
<1> QED BY <1>3, <1>4, WorkerReaches DEF StorageInv

\* The owner of a claim has owned it since it was issued.
LEMMA OwnedBefore ==
    ASSUME StorageInv, [Next]_vars, NEW w \in Workers, pc'[w] = "finalize", OwnsClaim(w)'
    PROVE  OwnsClaim(w)
<1> USE TypesOfUploads, MoreTypes DEF StorageInv
<1>0. asset'[w] = asset[w] /\ token'[w] = token[w] /\ pc[w] # "idle" /\ asset[w] \in Assets
  BY KeepsClaim DEF SameClaim
<1>1. token[w] \in 2..issued
  BY <1>0 DEF ClaimInv, Tokens
<1>2. session'[asset[w]] = "uploaded" /\ claim'[asset[w]] = token[w]
  BY <1>0 DEF OwnsClaim
<1>3. CASE UNCHANGED <<session, claim>>
  BY <1>2, <1>3 DEF OwnsClaim
<1>4. ASSUME NEW b \in Assets, Register(b) PROVE OwnsClaim(w)
  BY <1>0, <1>2, <1>4 DEF Register, Insert, OwnsClaim
<1>5. ASSUME NEW v \in Workers, NEW b \in Assets, ClaimUpload(v, b) PROVE OwnsClaim(w)
  <2>1. asset[w] # b
    BY <1>1, <1>2, <1>5 DEF ClaimUpload
  <2> QED BY <1>0, <1>2, <1>5, <2>1 DEF ClaimUpload, OwnsClaim
<1>6. ASSUME NEW v \in Workers, Fails(v) \/ Publishes(v) PROVE OwnsClaim(w)
  <2>1. asset[w] # asset[v]
    BY <1>1, <1>2, <1>6 DEF Fails, PersistFailure, Publishes, Publish
  <2> QED BY <1>0, <1>2, <1>6, <2>1 DEF Fails, PersistFailure, Publishes, Publish, OwnsClaim
<1>7. ASSUME NEW gone \in SUBSET Assets, Remove(gone) PROVE OwnsClaim(w)
  BY <1>0, <1>2, <1>7 DEF Remove, OwnsClaim
<1> QED BY <1>3, <1>4, <1>5, <1>6, <1>7, DatabaseStep DEF Activate, database

\* Nobody drops what the owner of a claim has written.
LEMMA OwnedStays ==
    ASSUME StorageInv, [Next]_vars,
           NEW w \in Workers, pc[w] = "finalize", OwnsClaim(w), Guarded(asset[w])
    PROVE  object'[asset[w]] /\ token[w] \in variants'[asset[w]]
<1> USE TypesOfUploads, MoreTypes DEF StorageInv
<1>1. object[asset[w]] /\ token[w] \in variants[asset[w]] /\ asset[w] \in Assets
  BY DEF Storage, VariantsReady
<1>2. session[asset[w]] = "uploaded" /\ claim[asset[w]] = token[w]
  BY DEF OwnsClaim
<1>3. token[w] # 0
  BY DEF ClaimInv, Tokens
<1>4. object'[asset[w]]
  <2>1. ASSUME NEW v \in Workers, pc[v] = "drop", asset[v] = asset[w] PROVE FALSE
    BY <1>2, <2>1 DEF Storage, DropsFailed
  <2> QED BY <1>1, <2>1, ObjectLost
<1>5. token[w] \in variants'[asset[w]]
  <2>1. ASSUME NEW v \in Workers, asset[v] = asset[w], pc[v] = "sweep", token[w] = replaced[v]
        PROVE  FALSE
    BY <1>2, <1>3, <2>1 DEF ClaimInv, Sweeps
  <2>2. ASSUME NEW v \in Workers, pc[v] \in {"discard", "dropAll"}, token[w] = token[v]
        PROVE  FALSE
    BY <2>2 DEF ClaimInv, Tokens
  <2> QED BY <1>1, <2>1, <2>2, VariantsLost
<1> QED BY <1>4, <1>5

LEMMA StepReady == StorageInv /\ [Next]_vars => VariantsReady'
<1> SUFFICES ASSUME StorageInv, [Next]_vars, NEW w \in Workers, pc'[w] = "finalize",
                    OwnsClaim(w)', Guarded(asset[w])'
             PROVE  object'[asset'[w]] /\ token'[w] \in variants'[asset'[w]]
  BY DEF VariantsReady
<1>1. asset'[w] = asset[w] /\ token'[w] = token[w] /\ asset[w] \in Assets
  BY KeepsClaim, TypesOfUploads DEF StorageInv, SameClaim
<1>2. Guarded(asset[w])
  BY <1>1, DiscardingStays DEF Guarded
<1>3. CASE pc[w] = "finalize"
  BY <1>1, <1>2, <1>3, OwnedBefore, OwnedStays
<1>4. CASE WriteVariants(w)
  BY <1>1, <1>4, MoreTypes DEF WriteVariants, StorageInv
<1> QED BY <1>3, <1>4, WorkerReaches DEF StorageInv

\* An upload is validated by the worker that publishes it.
LEMMA ValidatedBefore ==
    ASSUME StorageInv, [Next]_vars, NEW a \in Assets, session'[a] = "validated"
    PROVE  \/ session[a] = "validated" /\ published'[a] = published[a]
           \/ \E w \in Workers : Publishes(w) /\ asset[w] = a /\ published'[a] = token[w]
<1> DEFINE Done == \/ session[a] = "validated" /\ published'[a] = published[a]
                   \/ \E w \in Workers : Publishes(w) /\ asset[w] = a /\ published'[a] = token[w]
<1> USE TypesOfUploads, MoreTypes DEF StorageInv
<1>1. CASE UNCHANGED <<session, published>>
  BY <1>1
<1>2. ASSUME NEW b \in Assets, Register(b) PROVE Done
  BY <1>2 DEF Register, Insert
<1>3. ASSUME NEW w \in Workers, NEW b \in Assets, ClaimUpload(w, b) PROVE Done
  BY <1>3 DEF ClaimUpload
<1>4. ASSUME NEW w \in Workers, Fails(w) PROVE Done
  BY <1>4 DEF Fails, PersistFailure
<1>5. ASSUME NEW w \in Workers, Publishes(w) PROVE Done
  <2>1. CASE asset[w] = a
    BY <1>5, <2>1 DEF Publishes, Publish
  <2>2. CASE asset[w] # a
    BY <1>5, <2>2 DEF Publishes, Publish
  <2> QED BY <2>1, <2>2
<1>6. ASSUME NEW gone \in SUBSET Assets, Remove(gone) PROVE Done
  BY <1>6 DEF Remove
<1> QED BY <1>1, <1>2, <1>3, <1>4, <1>5, <1>6, DatabaseStep DEF Activate, database

LEMMA StepOriginal == StorageInv /\ [Next]_vars => OriginalIsStored'
<1> SUFFICES ASSUME StorageInv, [Next]_vars, NEW a \in Assets, Guarded(a)',
                    session'[a] = "validated"
             PROVE  object'[a]
  BY DEF OriginalIsStored, Guarded
<1> USE TypesOfUploads, MoreTypes DEF StorageInv
<1>1. Guarded(a)
  BY GuardedBefore
<1>2. CASE session[a] = "validated"
  <2>1. object[a]
    BY <1>1, <1>2 DEF Storage, OriginalIsStored
  <2>2. ASSUME NEW w \in Workers, pc[w] = "drop", asset[w] = a PROVE FALSE
    BY <1>1, <1>2, <2>2 DEF Storage, DropsFailed
  <2> QED BY <1>1, <2>1, <2>2, ObjectLost
<1>3. ASSUME NEW w \in Workers, Publishes(w), asset[w] = a PROVE object'[a]
  BY <1>1, <1>3, OwnedStays DEF Publishes
<1> QED BY <1>2, <1>3, ValidatedBefore

LEMMA StepStorage == StorageInv /\ [Next]_vars => StorageInv'
BY StepTyped, StepClaims, StepCleanups, StepDrops, StepReady, StepOriginal DEF StorageInv, Storage

LEMMA StorageAlways == Spec => []StorageInv
<1>1. Init => StorageInv
  BY InitTyped, InitClaims, InitCleanups, InitStorage DEF StorageInv
<1> QED BY <1>1, StepStorage, PTL DEF Spec

\* The original of a published upload stays in the storage until somebody deletes
\* the asset or discards its operation, whatever fails: only a worker that has
\* seen its upload fail drops an original.
THEOREM OriginalStored == Spec => []OriginalIsStored
<1>1. StorageInv => OriginalIsStored
  BY DEF StorageInv, Storage
<1> QED BY <1>1, StorageAlways, PTL

LEMMA StepStored ==
    StorageInv /\ OwnTokens /\ PublishedIsStored /\ [Next]_vars => PublishedIsStored'
<1> SUFFICES ASSUME StorageInv, OwnTokens, PublishedIsStored, [Next]_vars,
                    NEW a \in Assets, Guarded(a)', session'[a] = "validated"
             PROVE  object'[a] /\ published'[a] \in variants'[a]
  BY DEF PublishedIsStored, Guarded
<1> USE TypesOfUploads, MoreTypes DEF StorageInv
<1>1. Guarded(a) /\ object'[a]
  BY GuardedBefore, StepOriginal DEF OriginalIsStored, Guarded
<1>2. CASE session[a] = "validated" /\ published'[a] = published[a]
  <2>1. published[a] \in variants[a] /\ published[a] # 0
    BY <1>1, <1>2 DEF PublishedIsStored, Guarded, ClaimInv, PublishedWhereValidated
  <2>2. ASSUME NEW w \in Workers, asset[w] = a, pc[w] = "sweep", published[a] = replaced[w]
        PROVE  FALSE
    BY <2>1, <2>2 DEF ClaimInv, Sweeps
  <2>3. ASSUME NEW w \in Workers, pc[w] \in {"discard", "dropAll"}, published[a] = token[w]
        PROVE  FALSE
    BY <2>3 DEF OwnTokens
  <2> QED BY <1>1, <1>2, <2>1, <2>2, <2>3, VariantsLost
<1>3. ASSUME NEW w \in Workers, Publishes(w), asset[w] = a, published'[a] = token[w]
      PROVE  published'[a] \in variants'[a]
  BY <1>1, <1>3, OwnedStays DEF Publishes
<1> QED BY <1>1, <1>2, <1>3, ValidatedBefore

\* A worker whose publishing commits ends and discards nothing, unless the
\* answer of the commit is lost.
LEMMA StepOwnTokens ==
    "ackLost" \notin Failures => (StorageInv /\ OwnTokens /\ [Next]_vars => OwnTokens')
<1> SUFFICES ASSUME "ackLost" \notin Failures, StorageInv, OwnTokens, [Next]_vars,
                    NEW w \in Workers, pc'[w] # "idle", NEW a \in Assets
             PROVE  published'[a] # token'[w]
  BY DEF OwnTokens
<1> USE TypesOfUploads, MoreTypes DEF StorageInv
<1>1. CASE \E v \in Workers, b \in Assets : ClaimUpload(v, b)
  <2>1. PICK v \in Workers, b \in Assets : ClaimUpload(v, b)
    BY <1>1
  <2>2. published'[a] = published[a] /\ published[a] <= issued
    BY <2>1 DEF ClaimUpload, ClaimInv, Tokens
  <2>3. CASE v = w
    BY <2>1, <2>2, <2>3 DEF ClaimUpload
  <2>4. CASE v # w
    BY <2>1, <2>2, <2>4 DEF ClaimUpload, Goto, OwnTokens
  <2> QED BY <2>3, <2>4
<1>2. CASE \A v \in Workers, b \in Assets : ~ ClaimUpload(v, b)
  <2>1. pc[w] # "idle" /\ token'[w] = token[w]
    BY <1>2, WorkerStep DEF SameClaim
  <2>2. published[a] # token[w] /\ token[w] # 0
    BY <2>1 DEF OwnTokens, ClaimInv, Tokens
  <2>3. CASE published'[a] \in {published[a], 0}
    BY <2>1, <2>2, <2>3
  <2>4. ASSUME NEW v \in Workers, Publishes(v), published'[a] = token[v] PROVE token[v] # token[w]
    <3>1. pc'[v] = "idle" /\ pc[v] # "idle"
      BY <2>4 DEF Publishes, Reply, Goto
    <3> QED BY <2>1, <3>1 DEF ClaimInv, Tokens
  <2>5. \/ published'[a] \in {published[a], 0}
        \/ \E v \in Workers : Publishes(v) /\ published'[a] = token[v]
    <3>1. session'[a] = "validated" <=> published'[a] # 0
      BY <1>2, StepPublished DEF PublishedWhereValidated
    <3> QED BY <3>1, ValidatedBefore
  <2> QED BY <2>1, <2>3, <2>4, <2>5
<1> QED BY <1>1, <1>2

\* What the database publishes is in the storage, whatever superseded workers,
\* sweeps of replaced claims and cleanups delete, as long as no commit of an
\* upload loses its answer.
THEOREM PublishedStored ==
    ASSUME "ackLost" \notin Failures
    PROVE  Spec => []PublishedIsStored
<1>1. Init => OwnTokens /\ PublishedIsStored
  BY InitStorage
<1>2. StorageInv /\ OwnTokens /\ PublishedIsStored /\ [Next]_vars
         => OwnTokens' /\ PublishedIsStored'
  BY StepStored, StepOwnTokens
<1> QED BY <1>1, <1>2, StorageAlways, PTL DEF Spec

=============================================================================
