-------------------------- MODULE ContentSaveProofs --------------------------
(***************************************************************************)
(* Proofs about ContentSave and the uploads it is composed with, for any   *)
(* number of drafts, library assets, workers, claims and attempts and any  *)
(* set of failures.                                                        *)
(***************************************************************************)
EXTENDS ContentSave, FiniteSetTheorems, TLAPS

USE DEF Assets, Cleaners, Discarding

\* A worker that has found its upload finished touches nothing any more, so a
\* lifecycle it writes back is one it has read.
SeenInFlight ==
    \A w \in Workers : pc[w] \in {"process", "fail", "finalize"} => seen[w] # "finished"

Typed == TypeOK /\ SeenInFlight

LEMMA ZeroClaim == 0 \in Claims /\ 1 \in Claims
BY MediaAssumption DEF Claims

LEMMA InitTyped == Init => Typed
<1> SUFFICES ASSUME Init PROVE Typed
  OBVIOUS
<1>0. PICK ready \in SUBSET Library : InitUpload!(ready)
  BY DEF Init, InitUpload
<1>1. usage \in Nat
  <2>1. IsFiniteSet(ready)
    BY MediaAssumption, FS_Subset
  <2> QED BY <1>0, <2>1, FS_CardinalityType
<1>2. (CHOOSE a \in Assets : TRUE) \in Assets
  BY MediaAssumption
<1>3. UploadTypeOK
  BY <1>0, <1>1, <1>2, ZeroClaim DEF UploadTypeOK
<1>4. opRefs = {} /\ refs \subseteq Assets /\ op \in Statuses
  BY DEF Init, Statuses
<1>5. attempts \in 0..MaxAttempts
  BY SaveAssumption DEF Init
<1>6. /\ cleaner \in [Cleaners -> {"idle", "list", "delete", "finalize"}]
      /\ todo \in [Cleaners -> SUBSET Assets]
      /\ deleting \in [Assets -> {"no", "checked", "emptied"}]
  BY DEF Init
<1>7. client = "idle" /\ content = "none" /\ expired = FALSE /\ job = "none"
  BY DEF Init
<1>8. TypeOK
  BY <1>3, <1>4, <1>5, <1>6, <1>7 DEF TypeOK
<1> QED BY <1>0, <1>8 DEF Typed, SeenInFlight

LEMMA RemoveType ==
    ASSUME UploadTypeOK, NEW gone \in SUBSET Assets, Remove(gone),
           UNCHANGED <<issued, initiating, worker>>,
           object' \in [Assets -> BOOLEAN], variants' \in [Assets -> SUBSET Claims]
    PROVE  UploadTypeOK'
<1>1. IsFiniteSet(gone)
  BY MediaAssumption, FS_Union, FS_Subset
<1>2. Cardinality(gone) \in Nat
  BY <1>1, FS_CardinalityType
<1>3. usage' \in Nat
  BY <1>2 DEF Remove, UploadTypeOK
<1>5. /\ row' \in [Assets -> {"absent", "provisional", "active"}]
      /\ upload' \in [Assets -> {"pending", "processed", "failed"}]
      /\ session' \in [Assets -> {"none", "pending", "uploaded", "validated", "failed"}]
      /\ claim' \in [Assets -> Claims]
      /\ published' \in [Assets -> Claims]
  BY ZeroClaim DEF Remove, UploadTypeOK
<1> QED BY <1>3, <1>5 DEF UploadTypeOK, worker

\* The types that database, worker and the rest of the uploads have.
DatabaseTypeOK ==
    /\ row \in [Assets -> {"absent", "provisional", "active"}]
    /\ upload \in [Assets -> {"pending", "processed", "failed"}]
    /\ session \in [Assets -> {"none", "pending", "uploaded", "validated", "failed"}]
    /\ claim \in [Assets -> Claims] /\ published \in [Assets -> Claims]
    /\ usage \in Nat

WorkerTypeOK ==
    /\ pc \in [Workers -> {"idle", "read", "sweep", "process", "fail", "finalize", "discard",
                           "dropAll", "drop"}]
    /\ asset \in [Workers -> Assets]
    /\ token \in [Workers -> Claims] /\ replaced \in [Workers -> Claims]
    /\ seen \in [Workers -> {"provisional", "active", "finished"}]
    /\ SeenInFlight

StorageTypeOK ==
    /\ issued \in Claims
    /\ object \in [Assets -> BOOLEAN]
    /\ variants \in [Assets -> SUBSET Claims]
    /\ initiating \subseteq Drafts

LEMMA Parts ==
    UploadTypeOK /\ SeenInFlight <=> DatabaseTypeOK /\ WorkerTypeOK /\ StorageTypeOK
BY DEF UploadTypeOK, DatabaseTypeOK, WorkerTypeOK, StorageTypeOK

LEMMA SameDatabase == ASSUME DatabaseTypeOK, UNCHANGED database PROVE DatabaseTypeOK'
BY DEF DatabaseTypeOK, database

LEMMA SameWorker == ASSUME WorkerTypeOK, UNCHANGED worker PROVE WorkerTypeOK'
BY DEF WorkerTypeOK, SeenInFlight, worker

\* A worker moves on, and not to where it may write what it has seen.
LEMMA WorkerMoves ==
    ASSUME WorkerTypeOK, NEW w \in Workers,
           NEW l \in {"idle", "read", "sweep", "process", "fail", "finalize", "discard",
                      "dropAll", "drop"},
           Goto(w, l), UNCHANGED <<asset, token, replaced, seen>>,
           l \in {"process", "fail", "finalize"} => seen[w] # "finished"
    PROVE  WorkerTypeOK'
BY DEF WorkerTypeOK, SeenInFlight, Goto

LEMMA PersistFailureType ==
    ASSUME DatabaseTypeOK, WorkerTypeOK, NEW w \in Workers, PersistFailure(w),
           seen[w] # "finished"
    PROVE  DatabaseTypeOK'
BY ZeroClaim DEF DatabaseTypeOK, WorkerTypeOK, PersistFailure

LEMMA PublishType ==
    ASSUME DatabaseTypeOK, WorkerTypeOK, NEW w \in Workers, Publish(w), seen[w] # "finished"
    PROVE  DatabaseTypeOK'
BY ZeroClaim DEF DatabaseTypeOK, WorkerTypeOK, Publish

LEMMA InsertType ==
    ASSUME DatabaseTypeOK, NEW a \in Assets, NEW l \in {"provisional", "active"}, Insert(a, l),
           UNCHANGED <<claim, published, usage>>
    PROVE  DatabaseTypeOK'
BY DEF DatabaseTypeOK, Insert

\* Every step of the uploads keeps their types.
LEMMA UploadTyped ==
    ASSUME DatabaseTypeOK, WorkerTypeOK, StorageTypeOK, UploadNext
    PROVE  DatabaseTypeOK' /\ WorkerTypeOK' /\ StorageTypeOK'
<1> DEFINE Done == DatabaseTypeOK' /\ WorkerTypeOK' /\ StorageTypeOK'
<1>1. ASSUME NEW d \in Drafts, RegisterDraft(d) PROVE Done
  <2>1. CASE row[d] = "absent"
    BY <1>1, <2>1, InsertType, SameWorker DEF RegisterDraft, StorageTypeOK
  <2>2. CASE row[d] # "absent"
    BY <1>1, <2>2, SameDatabase, SameWorker DEF RegisterDraft, StorageTypeOK, database
  <2> QED BY <2>1, <2>2
<1>2. ASSUME NEW a \in Library, RegisterInLibrary(a) PROVE Done
  BY <1>2, InsertType, SameWorker DEF RegisterInLibrary, StorageTypeOK
<1>3. ASSUME NEW a \in Assets, Put(a) PROVE Done
  BY <1>3, SameDatabase, SameWorker DEF Put, StorageTypeOK
<1>4. ASSUME NEW w \in Workers, NEW a \in Assets, ClaimUpload(w, a) PROVE Done
  <2>1. issued + 1 \in Claims
    BY <1>4, MediaAssumption DEF ClaimUpload, StorageTypeOK, Claims
  <2>2. DatabaseTypeOK'
    BY <1>4, <2>1 DEF ClaimUpload, DatabaseTypeOK
  <2>3. WorkerTypeOK'
    BY <1>4, <2>1 DEF ClaimUpload, Goto, DatabaseTypeOK, WorkerTypeOK, SeenInFlight
  <2>4. StorageTypeOK'
    BY <1>4, <2>1 DEF ClaimUpload, StorageTypeOK
  <2> QED BY <2>2, <2>3, <2>4
<1>5. ASSUME NEW w \in Workers, ReadUpload(w) PROVE Done
  <2>1. asset[w] \in Assets /\ row[asset[w]] \in {"absent", "provisional", "active"}
    BY DEF DatabaseTypeOK, WorkerTypeOK
  <2>2. WorkerTypeOK'
    BY <1>5, <2>1 DEF ReadUpload, Goto, WorkerTypeOK, SeenInFlight
  <2> QED BY <1>5, <2>2, SameDatabase DEF ReadUpload, StorageTypeOK
<1>6. ASSUME NEW w \in Workers, SweepReplaced(w) PROVE Done
  <2>1. WorkerTypeOK'
    BY <1>6, WorkerMoves DEF SweepReplaced
  <2> QED BY <1>6, <2>1, SameDatabase DEF SweepReplaced, StorageTypeOK
<1>7. ASSUME NEW w \in Workers, FindInvalid(w) PROVE Done
  <2>1. WorkerTypeOK'
    BY <1>7, WorkerMoves DEF FindInvalid, WorkerTypeOK, SeenInFlight
  <2> QED BY <1>7, <2>1, SameDatabase DEF FindInvalid, StorageTypeOK
<1>8. ASSUME NEW w \in Workers, WriteVariants(w) PROVE Done
  <2>1. WorkerTypeOK'
    BY <1>8, WorkerMoves DEF WriteVariants, WorkerTypeOK, SeenInFlight
  <2>2. token[w] \in Claims
    BY DEF WorkerTypeOK
  <2> QED BY <1>8, <2>1, <2>2, SameDatabase DEF WriteVariants, StorageTypeOK
<1>9. ASSUME NEW w \in Workers, FailClaimed(w) PROVE Done
  <2>1. seen[w] # "finished"
    BY <1>9 DEF FailClaimed, WorkerTypeOK, SeenInFlight
  <2>2. WorkerTypeOK'
    BY <1>9, WorkerMoves DEF FailClaimed
  <2>3. DatabaseTypeOK'
    BY <1>9, <2>1, PersistFailureType, SameDatabase DEF FailClaimed
  <2> QED BY <1>9, <2>2, <2>3 DEF FailClaimed, StorageTypeOK
<1>10. ASSUME NEW w \in Workers, Finalize(w) PROVE Done
  <2>1. seen[w] # "finished"
    BY <1>10 DEF Finalize, WorkerTypeOK, SeenInFlight
  <2>2. WorkerTypeOK'
    BY <1>10, WorkerMoves DEF Finalize, Reply
  <2>3. DatabaseTypeOK'
    BY <1>10, <2>1, PublishType, PersistFailureType, SameDatabase DEF Finalize
  <2> QED BY <1>10, <2>2, <2>3 DEF Finalize, StorageTypeOK
<1>11. ASSUME NEW w \in Workers, DiscardVariants(w) PROVE Done
  <2>1. WorkerTypeOK'
    BY <1>11, WorkerMoves DEF DiscardVariants
  <2> QED BY <1>11, <2>1, SameDatabase DEF DiscardVariants, StorageTypeOK
<1>12. ASSUME NEW w \in Workers, DropObject(w) PROVE Done
  <2>1. WorkerTypeOK'
    BY <1>12, WorkerMoves DEF DropObject
  <2> QED BY <1>12, <2>1, SameDatabase DEF DropObject, StorageTypeOK
<1>13. ASSUME NEW w \in Workers, StorageFails(w) PROVE Done
  <2>1. WorkerTypeOK'
    BY <1>13, WorkerMoves DEF StorageFails
  <2>2. token[w] \in Claims
    BY DEF WorkerTypeOK
  <2>3. variants' \in [Assets -> SUBSET Claims]
    BY <1>13, <2>2 DEF StorageFails, StorageTypeOK
  <2> QED BY <1>13, <2>1, <2>3, SameDatabase DEF StorageFails, StorageTypeOK
<1>14. ASSUME NEW w \in Workers, Crash(w) PROVE Done
  <2>1. WorkerTypeOK'
    BY <1>14, WorkerMoves DEF Crash
  <2> QED BY <1>14, <2>1, SameDatabase DEF Crash, StorageTypeOK
<1> QED BY <1>1, <1>2, <1>3, <1>4, <1>5, <1>6, <1>7, <1>8, <1>9, <1>10, <1>11, <1>12, <1>13,
           <1>14 DEF UploadNext, UploadStep

\* The types of the variables ContentSave adds to the uploads.
SaveTypeOK ==
    /\ op \in Statuses
    /\ opRefs \subseteq Assets /\ refs \subseteq Assets
    /\ client \in {"idle", "uploading", "linking", "marking", "saving", "unknown", "syncing",
                   "committing", "unsynced", "abandoning", "given up", "done"}
    /\ content \in {"none", "sent", "saved", "marked", "refused"}
    /\ expired \in BOOLEAN
    /\ job \in {"none", "queued", "done", "failed"}
    /\ attempts \in 0..MaxAttempts
    /\ cleaner \in [Cleaners -> {"idle", "list", "delete", "finalize"}]
    /\ todo \in [Cleaners -> SUBSET Assets]
    /\ deleting \in [Assets -> {"no", "checked", "emptied"}]

UploadsTyped == DatabaseTypeOK /\ WorkerTypeOK /\ StorageTypeOK

LEMMA TypedParts == Typed <=> UploadsTyped /\ SaveTypeOK
BY Parts DEF Typed, TypeOK, SaveTypeOK, UploadsTyped

LEMMA SameUploads == ASSUME UploadsTyped, UNCHANGED uploadVars PROVE UploadsTyped'
BY SameDatabase, SameWorker DEF UploadsTyped, StorageTypeOK, uploadVars, database, worker

LEMMA RemoveKeeps ==
    ASSUME UploadsTyped, NEW gone \in SUBSET Assets, Remove(gone),
           UNCHANGED <<issued, initiating, object, variants, worker>>
    PROVE  UploadsTyped'
<1>1. UploadTypeOK /\ SeenInFlight
  BY Parts DEF UploadsTyped
<1>2. UploadTypeOK'
  BY <1>1, RemoveType DEF UploadTypeOK
<1>3. SeenInFlight'
  BY <1>1 DEF SeenInFlight, worker
<1> QED BY <1>2, <1>3, Parts DEF UploadsTyped, UploadTypeOK, DatabaseTypeOK, WorkerTypeOK,
                                 StorageTypeOK

\* Where a step leaves the uploads alone, only the types of the save matter.
LEMMA ClientTyped == ASSUME UploadsTyped, SaveTypeOK, ClientNext
                     PROVE  UploadsTyped' /\ SaveTypeOK'
<1> USE DEF SaveTypeOK
<1>1. CASE CreateOperation
  BY <1>1, SameUploads DEF CreateOperation, Answered, Statuses
<1>2. ASSUME NEW d \in Drafts, StartUpload(d) PROVE UploadsTyped' /\ SaveTypeOK'
  <2>1. UploadsTyped'
    BY <1>2, SameDatabase, SameWorker DEF StartUpload, CheckDraft, UploadsTyped, StorageTypeOK
  <2> QED BY <1>2, <2>1 DEF StartUpload, saveVars
<1>3. CASE FinishUploads
  BY <1>3, SameUploads DEF FinishUploads
<1>4. CASE ReplaceReferences
  <2>1. opRefs' \subseteq Assets /\ op' \in Statuses
    BY <1>4, MediaAssumption DEF ReplaceReferences, Statuses
  <2> QED BY <1>4, <2>1, SameUploads DEF ReplaceReferences, Answered
<1>5. CASE GiveUp
  BY <1>5, SameUploads DEF GiveUp
<1>6. CASE MarkSaving
  BY <1>6, SameUploads DEF MarkSaving, Statuses
<1>7. CASE AwaitContent
  BY <1>7, SameUploads DEF AwaitContent, OutcomeUnknown
<1>8. CASE ReportUnknown
  BY <1>8, SameUploads DEF ReportUnknown, Statuses, Unclear
<1>9. CASE MarkSaved
  BY <1>9, SameUploads DEF MarkSaved, ContentSaved, Answered, Statuses, Unclear
<1>10. CASE Commit
  <2>1. UploadsTyped'
    <3>1. row' \in [Assets -> {"absent", "provisional", "active"}]
      BY <1>10 DEF Commit, Activated, UploadsTyped, DatabaseTypeOK
    <3>2. UNCHANGED worker
      BY <1>10 DEF Commit
    <3> QED BY <1>10, <3>1, <3>2, SameWorker DEF Commit, UploadsTyped, DatabaseTypeOK, StorageTypeOK
  <2> QED BY <1>10, <2>1 DEF Commit, Answered, Statuses
<1>11. CASE RetrySync
  BY <1>11, SameUploads DEF RetrySync
<1>12. CASE Abandon
  BY <1>12, SameUploads DEF Abandon, StartCleanup, Statuses
<1> QED BY <1>1, <1>2, <1>3, <1>4, <1>5, <1>6, <1>7, <1>8, <1>9, <1>10, <1>11, <1>12 DEF ClientNext

LEMMA CleanupTyped == ASSUME UploadsTyped, SaveTypeOK, NEW c \in Cleaners, CleanupStep(c)
                      PROVE  UploadsTyped' /\ SaveTypeOK'
<1> USE DEF SaveTypeOK
<1>1. CASE ListAssets(c)
  BY <1>1, SameUploads DEF ListAssets, Provisional
<1>2. CASE DeleteObjects(c)
  <2>1. /\ object' \in [Assets -> BOOLEAN]
        /\ variants' \in [Assets -> SUBSET Claims]
        /\ todo' \in [Cleaners -> SUBSET Assets]
    <3>1. CASE todo[c] = {}
      BY <1>2, <3>1 DEF DeleteObjects, UploadsTyped, StorageTypeOK
    <3>2. CASE todo[c] # {}
      <4>1. PICK a \in todo[c] :
                /\ object' = [object EXCEPT ![a] = FALSE]
                /\ variants' = [variants EXCEPT ![a] = @ \ {published[a]}]
                /\ todo' = [todo EXCEPT ![c] = @ \ {a}]
        BY <1>2, <3>2 DEF DeleteObjects
      <4>2. object' \in [Assets -> BOOLEAN]
        BY <4>1 DEF UploadsTyped, StorageTypeOK
      <4>3. variants' \in [Assets -> SUBSET Claims]
        BY <4>1 DEF UploadsTyped, StorageTypeOK
      <4>4. todo' \in [Cleaners -> SUBSET Assets]
        BY <4>1
      <4> QED BY <4>2, <4>3, <4>4
    <3> QED BY <3>1, <3>2
  <2>2. UNCHANGED database /\ UNCHANGED worker /\ UNCHANGED <<issued, initiating>>
    BY <1>2 DEF DeleteObjects, database
  <2>3. UploadsTyped'
    BY <2>1, <2>2, SameDatabase, SameWorker DEF UploadsTyped, StorageTypeOK
  <2>4. cleaner' \in [Cleaners -> {"idle", "list", "delete", "finalize"}]
    BY <1>2 DEF DeleteObjects
  <2> QED BY <1>2, <2>1, <2>3, <2>4 DEF DeleteObjects
<1>3. CASE FinalizeCleanup(c)
  <2>1. UploadsTyped'
    <3>1. CASE op \in Discarding
      BY <1>3, <3>1, RemoveKeeps DEF FinalizeCleanup, Provisional
    <3>2. CASE op \notin Discarding
      BY <1>3, <3>2, SameUploads DEF FinalizeCleanup, uploadVars, database, worker
    <3> QED BY <3>1, <3>2
  <2>2. /\ cleaner' \in [Cleaners -> {"idle", "list", "delete", "finalize"}]
        /\ job' \in {"none", "queued", "done", "failed"}
    BY <1>3 DEF FinalizeCleanup, EndAttempt
  <2>3. opRefs' \subseteq Assets /\ op' \in Statuses
    BY <1>3 DEF FinalizeCleanup, Statuses
  <2> QED BY <1>3, <2>1, <2>2, <2>3 DEF FinalizeCleanup
<1>4. CASE CleanupFails(c)
  BY <1>4, SameUploads DEF CleanupFails, EndAttempt
<1> QED BY <1>1, <1>2, <1>3, <1>4 DEF CleanupStep

LEMMA LibraryTyped == ASSUME UploadsTyped, SaveTypeOK, LibraryNext
                      PROVE  UploadsTyped' /\ SaveTypeOK'
<1> USE DEF SaveTypeOK
<1>1. ASSUME NEW a \in Deletable, CheckDelete(a) PROVE UploadsTyped' /\ SaveTypeOK'
  BY <1>1, SameUploads DEF CheckDelete
<1>2. ASSUME NEW a \in Deletable, EmptyAsset(a) PROVE UploadsTyped' /\ SaveTypeOK'
  <2>1. UploadsTyped'
    BY <1>2, SameDatabase, SameWorker DEF EmptyAsset, UploadsTyped, StorageTypeOK
  <2> QED BY <1>2, <2>1 DEF EmptyAsset
<1>3. ASSUME NEW a \in Deletable, DeleteAsset(a) PROVE UploadsTyped' /\ SaveTypeOK'
  <2>0. {a} \in SUBSET Assets
    BY SaveAssumption
  <2>1. UploadsTyped'
    <3>1. CASE a \in opRefs
      BY <1>3, <3>1, SameUploads DEF DeleteAsset, uploadVars, database, worker
    <3>2. CASE a \notin opRefs
      BY <1>3, <2>0, <3>2, RemoveKeeps DEF DeleteAsset
    <3> QED BY <3>1, <3>2
  <2> QED BY <1>3, <2>1 DEF DeleteAsset
<1>4. CASE SetReferences
  BY <1>4, SameUploads DEF SetReferences
<1> QED BY <1>1, <1>2, <1>3, <1>4 DEF LibraryNext

LEMMA StepTyped == Typed /\ [Next]_vars => Typed'
<1> SUFFICES ASSUME UploadsTyped, SaveTypeOK, [Next]_vars PROVE UploadsTyped' /\ SaveTypeOK'
  <2>1. (Typed <=> UploadsTyped /\ SaveTypeOK)'
    BY TypedParts, PTL
  <2> QED BY <2>1, TypedParts
<1>1. CASE UploadNext
  <2>1. UploadsTyped'
    BY <1>1, UploadTyped DEF UploadsTyped
  <2> QED BY <1>1, <2>1 DEF UploadNext, saveVars, SaveTypeOK
<1>2. CASE ClientNext
  BY <1>2, ClientTyped
<1>3. CASE LibraryNext
  BY <1>3, LibraryTyped
<1>4. CASE Expire
  BY <1>4, SameUploads DEF Expire, SaveTypeOK
<1>5. CASE WriteContent
  BY <1>5, SameUploads DEF WriteContent, SaveTypeOK
<1>6. CASE Correlate
  BY <1>6, SameUploads DEF Correlate, ContentSaved, SaveTypeOK, Statuses, Unclear
<1>7. CASE Recover
  <2>1. attempts' \in 0..MaxAttempts
    <3>1. attempts < MaxAttempts /\ attempts' = attempts + 1
      BY <1>7 DEF Recover
    <3>2. attempts \in 0..MaxAttempts
      BY DEF SaveTypeOK
    <3> QED BY <3>1, <3>2, SaveAssumption
  <2> QED BY <1>7, <2>1, SameUploads DEF Recover, StartCleanup, SaveTypeOK, Statuses, Unclear
<1>8. ASSUME NEW c \in Cleaners, CleanupStep(c) PROVE UploadsTyped' /\ SaveTypeOK'
  BY <1>8, CleanupTyped
<1>9. CASE UNCHANGED vars
  BY <1>9, SameUploads DEF vars, saveVars, SaveTypeOK
<1> QED BY <1>1, <1>2, <1>3, <1>4, <1>5, <1>6, <1>7, <1>8, <1>9 DEF Next

\* Every variable of the uploads and of the content save keeps its type.
THEOREM TypeCorrect == Spec => []TypeOK
<1>1. Spec => []Typed
  BY InitTyped, StepTyped, PTL DEF Spec
<1>2. Typed => TypeOK
  BY DEF Typed
<1> QED BY <1>1, <1>2, PTL

-----------------------------------------------------------------------------
(***************************************************************************)
(* The media of saved content.  SavedKeepsMedia is not inductive itself:   *)
(* a browser that has linked its drafts may send the content any time, so  *)
(* the drafts have to be there before; and one that abandons must not have *)
(* sent any, or have been refused.                                         *)
(***************************************************************************)
Sent == content \in {"sent", "saved", "marked"}

Complete == \A d \in Drafts : d \in opRefs /\ row[d] # "absent"

SavedInv ==
    /\ Sent => op \notin Discarding \cup {"none", "preparing", "uploading"} /\ Complete
    /\ client \in {"idle", "uploading", "linking", "marking"} => content = "none"
    /\ client = "marking" /\ op \notin Discarding => Complete
    /\ client = "abandoning" => ~ Sent

LEMMA InitSaved == Init => SavedInv
BY DEF Init, SavedInv, Sent

\* No upload removes an asset: what a worker writes back is a lifecycle.
LEMMA UploadsKeepRows ==
    ASSUME Typed, UploadNext, NEW d \in Assets, row[d] # "absent"
    PROVE  row'[d] # "absent"
<1>0. /\ row \in [Assets -> {"absent", "provisional", "active"}]
      /\ seen \in [Workers -> {"provisional", "active", "finished"}]
  BY DEF Typed, TypeOK, UploadTypeOK
<1>1. ASSUME NEW e \in Drafts, RegisterDraft(e) PROVE row'[d] # "absent"
  BY <1>0, <1>1 DEF RegisterDraft, Insert
<1>2. ASSUME NEW a \in Library, RegisterInLibrary(a) PROVE row'[d] # "absent"
  BY <1>0, <1>2 DEF RegisterInLibrary, Insert
<1>3. ASSUME NEW w \in Workers, FailClaimed(w) PROVE row'[d] # "absent"
  BY <1>0, <1>3 DEF FailClaimed, PersistFailure, database
<1>4. ASSUME NEW w \in Workers, Finalize(w) PROVE row'[d] # "absent"
  <2>1. CASE PersistFailure(w) \/ Publish(w)
    BY <1>0, <2>1 DEF PersistFailure, Publish
  <2>2. CASE UNCHANGED database
    BY <2>2 DEF database
  <2> QED BY <1>4, <2>1, <2>2 DEF Finalize
<1>5. CASE UNCHANGED row
  BY <1>5
<1> QED BY <1>1, <1>2, <1>3, <1>4, <1>5 DEF UploadNext, UploadStep, Put, ClaimUpload, ReadUpload,
           SweepReplaced, FindInvalid, WriteVariants, DiscardVariants, DropObject, StorageFails,
           Crash, database

LEMMA ClientSaved == ASSUME Typed, SavedInv, ClientNext PROVE SavedInv'
<1> USE DEF SavedInv, Sent
<1>1. CASE CreateOperation
  BY <1>1 DEF CreateOperation, Answered
<1>2. ASSUME NEW d \in Drafts, StartUpload(d) PROVE SavedInv'
  BY <1>2 DEF StartUpload, CheckDraft, saveVars, database, Complete
<1>3. CASE FinishUploads
  BY <1>3 DEF FinishUploads
<1>4. CASE ReplaceReferences
  <2>1. content = "none" /\ content' = "none"
    BY <1>4 DEF ReplaceReferences
  <2>2. client' # "idle" /\ client' # "uploading" /\ client' # "linking"
    BY <1>4 DEF ReplaceReferences, Answered
  <2>3. client' = "marking" => Complete'
    BY <1>4 DEF ReplaceReferences, Answered, Complete, uploadVars
  <2> QED BY <2>1, <2>2, <2>3
<1>5. CASE GiveUp
  BY <1>5 DEF GiveUp
<1>6. CASE MarkSaving
  BY <1>6 DEF MarkSaving, Complete, uploadVars
<1>7. CASE AwaitContent
  BY <1>7 DEF AwaitContent, OutcomeUnknown, Complete, uploadVars
<1>8. CASE ReportUnknown
  BY <1>8 DEF ReportUnknown, Complete, uploadVars
<1>9. CASE MarkSaved
  BY <1>9 DEF MarkSaved, ContentSaved, Answered, Complete, uploadVars
<1>10. CASE Commit
  <2>1. Complete => Complete'
    BY <1>10 DEF Commit, Activated, Complete, Typed, TypeOK, UploadTypeOK
  <2> QED BY <1>10, <2>1 DEF Commit, Answered
<1>11. CASE RetrySync
  BY <1>11 DEF RetrySync, Complete, uploadVars
<1>12. CASE Abandon
  BY <1>12 DEF Abandon
<1> QED BY <1>1, <1>2, <1>3, <1>4, <1>5, <1>6, <1>7, <1>8, <1>9, <1>10, <1>11, <1>12 DEF ClientNext

LEMMA StepSaved == Typed /\ SavedInv /\ [Next]_vars => SavedInv'
<1> SUFFICES ASSUME Typed, SavedInv, [Next]_vars PROVE SavedInv'
  OBVIOUS
<1>1. CASE UploadNext
  <2>1. Complete => Complete'
    BY <1>1, UploadsKeepRows DEF Complete, UploadNext, saveVars
  <2> QED BY <1>1, <2>1 DEF SavedInv, Sent, UploadNext, saveVars
<1>2. CASE ClientNext
  BY <1>2, ClientSaved
<1>3. CASE LibraryNext
  <2>1. \A a \in Deletable : DeleteAsset(a) => \A d \in Drafts : row'[d] = row[d]
    BY MediaAssumption, SaveAssumption DEF DeleteAsset, Remove, database
  <2>2. Complete => Complete'
    BY <1>3, <2>1 DEF LibraryNext, CheckDelete, EmptyAsset, DeleteAsset, SetReferences, Complete,
                      uploadVars, database
  <2>3. UNCHANGED <<op, client, content>>
    BY <1>3 DEF LibraryNext, CheckDelete, EmptyAsset, DeleteAsset, SetReferences
  <2> QED BY <2>2, <2>3 DEF SavedInv, Sent
<1>4. CASE Expire
  BY <1>4 DEF Expire, SavedInv, Sent, Complete, uploadVars
<1>5. CASE WriteContent
  BY <1>5 DEF WriteContent, SavedInv, Sent, Complete, uploadVars
<1>6. CASE Correlate
  BY <1>6 DEF Correlate, ContentSaved, SavedInv, Sent, Complete, uploadVars
<1>7. CASE Recover
  BY <1>7 DEF Recover, StartCleanup, SavedInv, Sent, Complete, uploadVars
<1>8. ASSUME NEW c \in Cleaners, CleanupStep(c) PROVE SavedInv'
  <2>1. UNCHANGED <<client, content>>
    BY <1>8 DEF CleanupStep, ListAssets, DeleteObjects, FinalizeCleanup, CleanupFails
  <2>2. CASE UNCHANGED <<op, opRefs, row>>
    BY <2>1, <2>2 DEF SavedInv, Sent, Complete
  <2>3. CASE FinalizeCleanup(c) /\ op \in Discarding
    BY <2>1, <2>3 DEF FinalizeCleanup, SavedInv, Sent
  <2> QED BY <1>8, <2>2, <2>3 DEF CleanupStep, ListAssets, DeleteObjects, FinalizeCleanup,
             CleanupFails, uploadVars, database
<1>9. CASE UNCHANGED vars
  BY <1>9 DEF vars, saveVars, uploadVars, SavedInv, Sent, Complete
<1> QED BY <1>1, <1>2, <1>3, <1>4, <1>5, <1>6, <1>7, <1>8, <1>9 DEF Next

\* Once the Mainserver has the content, and while it may still save it, its
\* drafts stay and no cleanup of the operation begins: not by an abandoning
\* browser, not by the recovery job, not by an operation that expires.
THEOREM SavedContentKeepsMedia == Spec => []SavedKeepsMedia
<1>1. Spec => [](Typed /\ SavedInv)
  BY InitTyped, StepTyped, InitSaved, StepSaved, PTL DEF Spec
<1>2. SavedInv => SavedKeepsMedia
  BY DEF SavedInv, Sent, Complete, SavedKeepsMedia
<1> QED BY <1>1, <1>2, PTL

-----------------------------------------------------------------------------
(***************************************************************************)
(* The refinement of MediaSaga.  A draft becomes active only by a commit,  *)
(* hence after the save, and only a worker that read it active can write   *)
(* that again; a worker that read it provisional would undo a commit, but  *)
(* all uploads are validated before the content is sent, and a validated   *)
(* upload has lost its claim.                                              *)
(***************************************************************************)
Saved == content \in {"saved", "marked"}

Validated == \A d \in Drafts : session[d] = "validated"

Writing(w) == pc[w] \in {"sweep", "process", "fail", "finalize"}

KeptInv ==
    /\ \A d \in Drafts : row[d] = "active" => Saved
    /\ \A w \in Workers : Writing(w) /\ asset[w] \in Drafts /\ seen[w] = "active" => Saved
    /\ op = "content_saved" => Saved
    /\ client \in {"syncing", "committing", "unsynced"} => content = "marked"

ReadyInv ==
    /\ Sent => Validated
    /\ client \in {"linking", "marking"} /\ op \notin Discarding => Validated
    /\ \A d \in Drafts : session[d] # "none" => row[d] # "absent"

LEMMA InitKept == Init => KeptInv /\ ReadyInv
<1> SUFFICES ASSUME Init PROVE KeptInv /\ ReadyInv
  OBVIOUS
<1>1. PICK ready \in SUBSET Library : InitUpload!(ready)
  BY DEF Init, InitUpload
<1>2. \A d \in Drafts : row[d] = "absent" /\ session[d] = "none"
  BY <1>1, MediaAssumption
<1>3. \A w \in Workers : pc[w] = "idle"
  BY <1>1
<1> QED BY <1>2, <1>3 DEF Init, KeptInv, ReadyInv, Sent, Writing

LEMMA TypesOfUploads ==
    ASSUME Typed
    PROVE  /\ row \in [Assets -> {"absent", "provisional", "active"}]
           /\ session \in [Assets -> {"none", "pending", "uploaded", "validated", "failed"}]
           /\ seen \in [Workers -> {"provisional", "active", "finished"}]
           /\ pc \in [Workers -> {"idle", "read", "sweep", "process", "fail", "finalize",
                                  "discard", "dropAll", "drop"}]
           /\ asset \in [Workers -> Assets]
BY DEF Typed, TypeOK, UploadTypeOK

\* The lifecycle of a draft is written by its registration and by the worker
\* that holds the claim of its session.
LEMMA DraftWritten ==
    ASSUME Typed, UploadNext, NEW d \in Drafts
    PROVE  \/ row'[d] = row[d] /\ session'[d] = session[d]
           \/ row[d] = "absent" /\ row'[d] = "provisional" /\ session'[d] = "pending"
           \/ row'[d] = row[d] /\ session[d] \in {"pending", "uploaded"}
           \/ /\ session[d] = "uploaded"
              /\ \E w \in Workers : Writing(w) /\ asset[w] = d /\ row'[d] = seen[w]
<1> USE TypesOfUploads
<1> DEFINE Same == row'[d] = row[d] /\ session'[d] = session[d]
           New == row[d] = "absent" /\ row'[d] = "provisional" /\ session'[d] = "pending"
           Claim == row'[d] = row[d] /\ session[d] \in {"pending", "uploaded"}
           Own == /\ session[d] = "uploaded"
                  /\ \E w \in Workers : Writing(w) /\ asset[w] = d /\ row'[d] = seen[w]
<1>1. ASSUME NEW e \in Drafts, RegisterDraft(e) PROVE Same \/ New
  BY <1>1 DEF RegisterDraft, Insert
<1>2. ASSUME NEW a \in Library, RegisterInLibrary(a) PROVE Same
  BY <1>2, MediaAssumption DEF RegisterInLibrary, Insert
<1>3. ASSUME NEW w \in Workers, NEW a \in Assets, ClaimUpload(w, a) PROVE Same \/ Claim
  BY <1>3 DEF ClaimUpload
<1>4. ASSUME NEW w \in Workers, PersistFailure(w) \/ Publish(w), OwnsClaim(w), Writing(w)
      PROVE  Same \/ Own
  BY <1>4 DEF PersistFailure, Publish, OwnsClaim
<1>5. ASSUME NEW w \in Workers, FailClaimed(w) PROVE Same \/ Own
  BY <1>4, <1>5 DEF FailClaimed, Writing, database
<1>6. ASSUME NEW w \in Workers, Finalize(w) PROVE Same \/ Own
  BY <1>4, <1>6 DEF Finalize, MayPublish, Writing, database
<1>7. CASE UNCHANGED <<row, session>>
  BY <1>7
<1> QED BY <1>1, <1>2, <1>3, <1>5, <1>6, <1>7 DEF UploadNext, UploadStep, Put, ReadUpload,
           SweepReplaced, FindInvalid, WriteVariants, DiscardVariants, DropObject, StorageFails,
           Crash, database

\* A worker about to write has what it had seen before, or has just read it.
LEMMA WorkerSees ==
    ASSUME Typed, UploadNext, NEW w \in Workers, Writing(w)'
    PROVE  \/ Writing(w) /\ asset'[w] = asset[w] /\ seen'[w] = seen[w]
           \/ asset'[w] = asset[w] /\ seen'[w] \in {"finished", row[asset[w]]}
<1> USE TypesOfUploads DEF Writing, Goto
<1> DEFINE Done == \/ Writing(w) /\ asset'[w] = asset[w] /\ seen'[w] = seen[w]
                   \/ asset'[w] = asset[w] /\ seen'[w] \in {"finished", row[asset[w]]}
<1>1. ASSUME NEW v \in Workers, NEW a \in Assets, ClaimUpload(v, a) PROVE Done
  BY <1>1 DEF ClaimUpload
<1>2. ASSUME NEW v \in Workers, ReadUpload(v) PROVE Done
  BY <1>2 DEF ReadUpload
<1>3. ASSUME NEW v \in Workers,
             SweepReplaced(v) \/ FindInvalid(v) \/ WriteVariants(v) \/ FailClaimed(v)
      PROVE  Done
  BY <1>3 DEF SweepReplaced, FindInvalid, WriteVariants, FailClaimed
<1>4. ASSUME NEW v \in Workers, Finalize(v) PROVE Done
  BY <1>4 DEF Finalize, Reply
<1>5. ASSUME NEW v \in Workers, DiscardVariants(v) \/ DropObject(v) \/ StorageFails(v) \/ Crash(v)
      PROVE  Done
  BY <1>5 DEF DiscardVariants, DropObject, StorageFails, Crash
<1>6. CASE UNCHANGED worker
  BY <1>6 DEF worker
<1> QED BY <1>1, <1>2, <1>3, <1>4, <1>5, <1>6 DEF UploadNext, UploadStep, RegisterDraft,
           RegisterInLibrary, Put

LEMMA UploadsKeepReady == ASSUME Typed, SavedInv, KeptInv, ReadyInv, UploadNext
                          PROVE  KeptInv' /\ ReadyInv'
<1>1. UNCHANGED <<op, client, content>>
  BY DEF UploadNext, saveVars
<1>2. \A d \in Drafts : row'[d] = "active" => Saved
  BY DraftWritten DEF KeptInv
<1>3. \A w \in Workers : Writing(w)' /\ asset'[w] \in Drafts /\ seen'[w] = "active" => Saved
  BY WorkerSees DEF KeptInv
<1>4. \A d \in Drafts : session'[d] # "none" => row'[d] # "absent"
  BY DraftWritten, TypesOfUploads DEF ReadyInv
<1>5. Validated => Validated'
  BY DraftWritten DEF ReadyInv, Validated
<1> QED BY <1>1, <1>2, <1>3, <1>4, <1>5 DEF KeptInv, ReadyInv, Saved, Sent

\* A step that leaves the uploads alone and does not begin or undo anything.
LEMMA QuietKeepsReady ==
    ASSUME KeptInv, ReadyInv, UNCHANGED <<row, session, pc, asset, seen>>,
           Saved => Saved',
           op' = "content_saved" => Saved',
           client' \in {"syncing", "committing", "unsynced"} => content' = "marked",
           Sent' => Validated,
           client' \in {"linking", "marking"} /\ op' \notin Discarding => Validated
    PROVE  KeptInv' /\ ReadyInv'
BY DEF KeptInv, ReadyInv, Writing, Validated

LEMMA ClientKeepsReady == ASSUME Typed, SavedInv, KeptInv, ReadyInv, ClientNext
                          PROVE  KeptInv' /\ ReadyInv'
<1> DEFINE Done == KeptInv' /\ ReadyInv'
<1> USE DEF SavedInv, Sent, Saved
<1>1. CASE CreateOperation
  <2>1. UNCHANGED <<row, session, pc, asset, seen, content>>
    BY <1>1 DEF CreateOperation, uploadVars
  <2> QED BY <1>1, <2>1, QuietKeepsReady DEF CreateOperation, Answered
<1>2. ASSUME NEW d \in Drafts, StartUpload(d) PROVE Done
  <2>1. UNCHANGED <<row, session, pc, asset, seen, content, op, client>>
    BY <1>2 DEF StartUpload, CheckDraft, database, worker, saveVars
  <2> QED BY <1>2, <2>1, QuietKeepsReady DEF StartUpload, KeptInv, ReadyInv
<1>3. CASE FinishUploads
  <2>1. UNCHANGED <<row, session, pc, asset, seen, content, op>>
    BY <1>3 DEF FinishUploads, uploadVars
  <2> QED BY <1>3, <2>1, QuietKeepsReady DEF FinishUploads, KeptInv, ReadyInv, Validated
<1>4. CASE ReplaceReferences
  <2>1. UNCHANGED <<row, session, pc, asset, seen, content>>
    BY <1>4 DEF ReplaceReferences, uploadVars
  <2>2. /\ client = "linking" /\ client' \in {"marking", "abandoning"}
        /\ op' \notin Discarding => op \notin Discarding
        /\ op' = "content_saved" => op = "content_saved"
    BY <1>4 DEF ReplaceReferences, Answered
  <2> QED BY <2>1, <2>2, QuietKeepsReady DEF KeptInv, ReadyInv
<1>5. CASE GiveUp
  <2>1. UNCHANGED <<row, session, pc, asset, seen, content, op>>
    BY <1>5 DEF GiveUp, uploadVars
  <2> QED BY <1>5, <2>1, QuietKeepsReady DEF GiveUp, KeptInv, ReadyInv
<1>6. CASE MarkSaving
  <2>1. UNCHANGED <<row, session, pc, asset, seen>>
    BY <1>6 DEF MarkSaving, uploadVars
  <2> QED BY <1>6, <2>1, QuietKeepsReady DEF MarkSaving, KeptInv, ReadyInv
<1>7. CASE AwaitContent
  <2>1. UNCHANGED <<row, session, pc, asset, seen, content, op>>
    BY <1>7 DEF AwaitContent, uploadVars
  <2> QED BY <1>7, <2>1, QuietKeepsReady DEF AwaitContent, OutcomeUnknown, KeptInv, ReadyInv
<1>8. CASE ReportUnknown
  <2>1. UNCHANGED <<row, session, pc, asset, seen, content>>
    BY <1>8 DEF ReportUnknown, uploadVars
  <2> QED BY <1>8, <2>1, QuietKeepsReady DEF ReportUnknown, KeptInv, ReadyInv
<1>9. CASE MarkSaved
  <2>1. UNCHANGED <<row, session, pc, asset, seen, content>>
    BY <1>9 DEF MarkSaved, uploadVars
  <2>2. content = "marked" /\ client' \in {"committing", "unsynced"}
    BY <1>9 DEF MarkSaved, Answered, KeptInv
  <2> QED BY <2>1, <2>2, QuietKeepsReady DEF KeptInv, ReadyInv
<1>10. CASE Commit
  <2>1. content = "marked" /\ content' = "marked" /\ client' \in {"done", "unsynced"}
    BY <1>10 DEF Commit, Answered, KeptInv
  <2>2. UNCHANGED <<session, pc, asset, seen>>
    BY <1>10 DEF Commit, worker
  <2>3. \A d \in Drafts : row[d] # "absent" => row'[d] # "absent"
    BY <1>10, TypesOfUploads DEF Commit, Activated
  <2> QED BY <2>1, <2>2, <2>3 DEF KeptInv, ReadyInv, Validated, Writing
<1>11. CASE RetrySync
  <2>1. UNCHANGED <<row, session, pc, asset, seen, content, op>>
    BY <1>11 DEF RetrySync, uploadVars
  <2> QED BY <1>11, <2>1, QuietKeepsReady DEF RetrySync, KeptInv, ReadyInv
<1>12. CASE Abandon
  <2>1. UNCHANGED <<row, session, pc, asset, seen, content>>
    BY <1>12 DEF Abandon, uploadVars
  <2> QED BY <1>12, <2>1, QuietKeepsReady DEF Abandon, KeptInv, ReadyInv
<1> QED BY <1>1, <1>2, <1>3, <1>4, <1>5, <1>6, <1>7, <1>8, <1>9, <1>10, <1>11, <1>12 DEF ClientNext

LEMMA StepKept == Typed /\ SavedInv /\ KeptInv /\ ReadyInv /\ [Next]_vars => KeptInv' /\ ReadyInv'
<1> SUFFICES ASSUME Typed, SavedInv, KeptInv, ReadyInv, [Next]_vars PROVE KeptInv' /\ ReadyInv'
  OBVIOUS
<1> DEFINE Done == KeptInv' /\ ReadyInv'
           Quiet == UNCHANGED <<row, session, pc, asset, seen>>
<1>1. CASE UploadNext
  BY <1>1, UploadsKeepReady
<1>2. CASE ClientNext
  BY <1>2, ClientKeepsReady
<1>3. CASE LibraryNext
  <2>1. UNCHANGED <<op, client, content, pc, asset, seen>>
    BY <1>3 DEF LibraryNext, CheckDelete, EmptyAsset, DeleteAsset, SetReferences, uploadVars, worker
  <2>2. \A d \in Drafts : row'[d] = row[d] /\ session'[d] = session[d]
    <3>1. ASSUME NEW a \in Deletable, DeleteAsset(a), NEW d \in Drafts
          PROVE  row'[d] = row[d] /\ session'[d] = session[d]
      <4>1. d # a
        BY MediaAssumption, SaveAssumption
      <4>2. CASE Remove({a})
        BY <4>1, <4>2 DEF Remove
      <4>3. CASE UNCHANGED database
        BY <4>3 DEF database
      <4> QED BY <3>1, <4>2, <4>3 DEF DeleteAsset
    <3>2. CASE UNCHANGED <<row, session>>
      BY <3>2
    <3> QED BY <1>3, <3>1, <3>2 DEF LibraryNext, CheckDelete, EmptyAsset, SetReferences,
               uploadVars, database
  <2> QED BY <2>1, <2>2 DEF KeptInv, ReadyInv, Saved, Sent, Validated, Writing
<1>4. CASE Expire
  <2>1. Quiet /\ UNCHANGED <<op, client, content>>
    BY <1>4 DEF Expire, uploadVars
  <2> QED BY <2>1, QuietKeepsReady DEF KeptInv, ReadyInv, Saved, Sent
<1>5. CASE WriteContent
  <2>1. Quiet /\ UNCHANGED <<op, client>>
    BY <1>5 DEF WriteContent, uploadVars
  <2> QED BY <1>5, <2>1, QuietKeepsReady DEF WriteContent, KeptInv, ReadyInv, Saved, Sent
<1>6. CASE Correlate
  <2>1. Quiet /\ UNCHANGED client
    BY <1>6 DEF Correlate, uploadVars
  <2>2. content = "saved" /\ content' = "marked"
    BY <1>6 DEF Correlate
  <2>3. op' \notin Discarding => op \notin Discarding
    BY <1>6 DEF Correlate, ContentSaved
  <2> QED BY <2>1, <2>2, <2>3, QuietKeepsReady DEF KeptInv, ReadyInv, Saved, Sent
<1>7. CASE Recover
  <2>1. Quiet /\ UNCHANGED <<client, content>>
    BY <1>7 DEF Recover, uploadVars
  <2>2. /\ op' = "content_saved" => op = "content_saved"
        /\ op' \notin Discarding => op \notin Discarding
    BY <1>7 DEF Recover, StartCleanup
  <2> QED BY <2>1, <2>2, QuietKeepsReady DEF KeptInv, ReadyInv, Saved, Sent
<1>8. ASSUME NEW c \in Cleaners, CleanupStep(c) PROVE Done
  <2>1. UNCHANGED <<client, content, pc, asset, seen>>
    BY <1>8 DEF CleanupStep, ListAssets, DeleteObjects, FinalizeCleanup, CleanupFails, uploadVars,
                worker
  <2>2. CASE UNCHANGED <<op, row, session>>
    BY <2>1, <2>2, QuietKeepsReady DEF KeptInv, ReadyInv, Saved, Sent
  <2>3. CASE FinalizeCleanup(c) /\ op \in Discarding
    <3>1. op' \in Discarding /\ ~ Sent'
      BY <2>1, <2>3 DEF FinalizeCleanup, SavedInv, Sent
    <3>2. \A d \in Drafts :
             \/ row'[d] = row[d] /\ session'[d] = session[d]
             \/ row'[d] = "absent" /\ session'[d] = "none"
      BY <2>3 DEF FinalizeCleanup, Remove
    <3> QED BY <2>1, <3>1, <3>2 DEF KeptInv, ReadyInv, Saved, Writing
  <2> QED BY <1>8, <2>2, <2>3 DEF CleanupStep, ListAssets, DeleteObjects, FinalizeCleanup,
             CleanupFails, uploadVars, database
<1>9. CASE UNCHANGED vars
  <2>1. Quiet /\ UNCHANGED <<op, client, content>>
    BY <1>9 DEF vars, uploadVars, saveVars
  <2> QED BY <2>1, QuietKeepsReady DEF KeptInv, ReadyInv, Saved, Sent
<1> QED BY <1>1, <1>2, <1>3, <1>4, <1>5, <1>6, <1>7, <1>8, <1>9 DEF Next

-----------------------------------------------------------------------------
(***************************************************************************)
(* Every step, seen as a step of MediaSaga.                                *)
(***************************************************************************)
Inv == Typed /\ SavedInv /\ KeptInv /\ ReadyInv

Active == \E d \in Drafts : row[d] = "active"

LEMMA Invariant == Spec => []Inv
BY InitTyped, StepTyped, InitSaved, StepSaved, InitKept, StepKept, PTL DEF Spec, Inv

LEMMA FateIs ==
    /\ op \in Discarding => Fate = "discarded"
    /\ op \notin Discarding /\ Active => Fate = "kept"
    /\ op \notin Discarding /\ ~ Active => Fate = "open"
BY DEF Fate, Active

LEMMA OutcomeIs ==
    /\ Saved => Outcome = "saved"
    /\ content = "refused" => Outcome = "refused"
    /\ ~ Saved /\ content # "refused" => Outcome = "open"
BY DEF Outcome, Saved

\* An operation that is discarded stays so.
LEMMA DiscardingStays == ASSUME op \in Discarding, [Next]_vars PROVE op' \in Discarding
<1>1. CASE ClientNext
  BY <1>1 DEF ClientNext, CreateOperation, StartUpload, FinishUploads, ReplaceReferences, GiveUp,
              MarkSaving, AwaitContent, ReportUnknown, MarkSaved, ContentSaved, Commit, RetrySync,
              Abandon
<1>2. ASSUME NEW c \in Cleaners, CleanupStep(c) PROVE op' \in Discarding
  BY <1>2 DEF CleanupStep, ListAssets, DeleteObjects, FinalizeCleanup, CleanupFails
<1>3. CASE LibraryNext
  BY <1>3 DEF LibraryNext, CheckDelete, EmptyAsset, DeleteAsset, SetReferences
<1>4. CASE Expire \/ WriteContent \/ Correlate \/ Recover
  BY <1>4 DEF Expire, WriteContent, Correlate, ContentSaved, Recover
<1> QED BY <1>1, <1>2, <1>3, <1>4 DEF Next, UploadNext, vars

\* A step of the content changes no asset.
LEMMA ContentMoves ==
    ASSUME SavedInv, [Next]_vars, content' # content
    PROVE  /\ row' = row
           /\ op \notin Discarding /\ op' \notin Discarding
           /\ <<content, content'>> \in {<<"none", "sent">>, <<"sent", "saved">>,
                                        <<"sent", "refused">>, <<"saved", "marked">>}
<1>1. CASE MarkSaving
  BY <1>1 DEF MarkSaving, SavedInv, uploadVars
<1>2. CASE WriteContent
  BY <1>2 DEF WriteContent, SavedInv, Sent, uploadVars
<1>3. CASE Correlate
  BY <1>3 DEF Correlate, ContentSaved, SavedInv, Sent, uploadVars
<1>4. CASE Next /\ ~ (MarkSaving \/ WriteContent \/ Correlate)
  <2>1. ~ ClientNext
    BY <1>4 DEF ClientNext, CreateOperation, StartUpload, FinishUploads, ReplaceReferences, GiveUp,
                AwaitContent, ReportUnknown, MarkSaved, Commit, RetrySync, Abandon, saveVars
  <2>2. ~ LibraryNext /\ ~ UploadNext /\ ~ Expire /\ ~ Recover
    BY DEF LibraryNext, CheckDelete, EmptyAsset, DeleteAsset, SetReferences, UploadNext, Expire,
           Recover, saveVars
  <2>3. \A c \in Cleaners : ~ CleanupStep(c)
    BY DEF CleanupStep, ListAssets, DeleteObjects, FinalizeCleanup, CleanupFails
  <2> QED BY <1>4, <2>1, <2>2, <2>3 DEF Next
<1> QED BY <1>1, <1>2, <1>3, <1>4 DEF vars, saveVars

\* What a commit has activated stays, whatever its uploads still do.
LEMMA ActiveStays ==
    ASSUME Inv, [Next]_vars, op \notin Discarding, NEW d \in Drafts, row[d] = "active"
    PROVE  row'[d] = "active"
<1>1. session[d] = "validated"
  BY DEF Inv, KeptInv, ReadyInv, SavedInv, Saved, Sent, Validated
<1>2. CASE UploadNext
  BY <1>1, <1>2, DraftWritten DEF Inv
<1>3. CASE Commit
  BY <1>3 DEF Commit, Activated
<1>4. ASSUME NEW a \in Deletable, DeleteAsset(a) PROVE row'[d] = "active"
  <2>1. d # a
    BY MediaAssumption, SaveAssumption
  <2>2. CASE Remove({a})
    BY <2>1, <2>2 DEF Remove
  <2>3. CASE UNCHANGED database
    BY <2>3 DEF database
  <2> QED BY <1>4, <2>2, <2>3 DEF DeleteAsset
<1>5. ASSUME NEW c \in Cleaners, CleanupStep(c) PROVE row' = row
  BY <1>5 DEF CleanupStep, ListAssets, DeleteObjects, FinalizeCleanup, CleanupFails, uploadVars,
              database
<1>6. CASE ClientNext /\ ~ Commit
  BY <1>6 DEF ClientNext, CreateOperation, StartUpload, CheckDraft, FinishUploads, database,
              ReplaceReferences, GiveUp, MarkSaving, AwaitContent, ReportUnknown, MarkSaved,
              RetrySync, Abandon, uploadVars
<1>7. CASE UNCHANGED uploadVars
  BY <1>7 DEF uploadVars
<1> QED BY <1>2, <1>3, <1>4, <1>5, <1>6, <1>7 DEF Next, LibraryNext, CheckDelete, EmptyAsset,
           SetReferences, Expire, WriteContent, Correlate, Recover, database, uploadVars, vars

LEMMA InitSaga == Init => Saga!Init
<1> SUFFICES ASSUME Init PROVE Outcome = "open" /\ Fate = "open"
  BY DEF Saga!Init
<1>1. ~ Active /\ op \notin Discarding /\ content = "none"
  BY InitKept DEF Init, KeptInv, Saved, Active
<1> QED BY <1>1, FateIs, OutcomeIs DEF Saved

LEMMA StepSaga == Inv /\ Inv' /\ [Next]_vars => [Saga!Next]_<<Outcome, Fate>>
<1> SUFFICES ASSUME Inv, Inv', [Next]_vars PROVE [Saga!Next]_<<Outcome, Fate>>
  OBVIOUS
<1>0. (FateIs!1 /\ FateIs!2 /\ FateIs!3)' /\ (OutcomeIs!1 /\ OutcomeIs!2 /\ OutcomeIs!3)'
  BY FateIs, OutcomeIs, PTL
<1>1. CASE content' # content
  <2>1. Active' <=> Active
    BY <1>1, ContentMoves DEF Inv, Active
  <2>2. Fate' = Fate /\ Fate # "discarded"
    BY <1>0, <1>1, <2>1, ContentMoves, FateIs DEF Inv
  <2>3. \/ Outcome' = Outcome
        \/ Outcome = "open" /\ Outcome' \in {"saved", "refused"}
    BY <1>0, <1>1, ContentMoves, OutcomeIs DEF Inv, Saved
  <2> QED BY <2>2, <2>3 DEF Saga!Next, Saga!Save, Saga!Refuse
<1>2. CASE content' = content
  <2>1. Outcome' = Outcome
    BY <1>2 DEF Outcome
  <2>2. CASE op \in Discarding
    BY <1>0, <2>1, <2>2, DiscardingStays, FateIs
  <2>3. CASE op \notin Discarding /\ op' \in Discarding
    <3>1. ~ Saved /\ ~ Active
      BY <1>2, <2>3 DEF Inv, SavedInv, KeptInv, Saved, Sent, Active
    <3>2. Outcome # "saved" /\ Fate = "open" /\ Fate' = "discarded"
      BY <1>0, <2>3, <3>1, FateIs, OutcomeIs
    <3> QED BY <2>1, <3>2 DEF Saga!Next, Saga!Discard
  <2>4. CASE op \notin Discarding /\ op' \notin Discarding
    <3>1. Active => Active'
      BY <2>4, ActiveStays DEF Active
    <3>2. Active' => Outcome = "saved"
      BY <1>2, OutcomeIs DEF Inv, KeptInv, Active, Saved
    <3> QED BY <1>0, <2>1, <2>4, <3>1, <3>2, FateIs DEF Saga!Next, Saga!Keep
  <2> QED BY <2>2, <2>3, <2>4
<1> QED BY <1>1, <1>2

\* The code keeps the promise of MediaSaga: the media of a save are kept only
\* once the Mainserver has saved its content, and are discarded only when the
\* Mainserver has not saved it and never will.
THEOREM SagaImplemented == Spec => ImplementsSaga
<1>1. Inv /\ [Next]_vars => Inv'
  BY StepTyped, StepSaved, StepKept DEF Inv
<1> QED BY Invariant, InitSaga, StepSaga, PTL DEF Spec, ImplementsSaga, Saga!Spec

-----------------------------------------------------------------------------
(***************************************************************************)
(* What the recovery job and the cleanup leave behind.  An operation that  *)
(* is settled stays settled: whoever still acts on it afterwards, a late   *)
(* browser or correlation, finds a status its statement does not match.    *)
(***************************************************************************)
RecoveryInv == (op = "none" => job # "queued") /\ RecoveredIsSettled

LEMMA SettledStays == ASSUME op \in Settled, [Next]_vars PROVE op' \in Settled
<1> USE DEF Settled, Unclear
<1>1. CASE ClientNext
  BY <1>1 DEF ClientNext, CreateOperation, StartUpload, saveVars, FinishUploads, ReplaceReferences,
              GiveUp, MarkSaving, AwaitContent, ReportUnknown, MarkSaved, ContentSaved, Commit,
              RetrySync, Abandon
<1>2. ASSUME NEW c \in Cleaners, CleanupStep(c) PROVE op' \in Settled
  BY <1>2 DEF CleanupStep, ListAssets, DeleteObjects, FinalizeCleanup, CleanupFails
<1>3. CASE LibraryNext
  BY <1>3 DEF LibraryNext, CheckDelete, EmptyAsset, DeleteAsset, SetReferences
<1>4. CASE Expire \/ WriteContent \/ Correlate \/ Recover
  BY <1>4 DEF Expire, WriteContent, Correlate, ContentSaved, Recover
<1> QED BY <1>1, <1>2, <1>3, <1>4 DEF Next, UploadNext, vars

\* The job only ends well where the operation is settled.
LEMMA JobEndsSettled ==
    ASSUME Typed, RecoveryInv, [Next]_vars, job' = "done", job # "done"
    PROVE  op' \in Settled
<1> USE DEF Settled, Unclear
<1>1. CASE Recover
  BY <1>1 DEF Recover, RecoveryInv, Typed, TypeOK, Statuses
<1>2. ASSUME NEW c \in Cleaners, CleanupStep(c) PROVE op' \in Settled
  BY <1>2 DEF CleanupStep, ListAssets, DeleteObjects, FinalizeCleanup, CleanupFails, EndAttempt
<1>3. CASE ClientNext
  BY <1>3 DEF ClientNext, CreateOperation, StartUpload, saveVars, FinishUploads, ReplaceReferences,
              GiveUp, MarkSaving, AwaitContent, ReportUnknown, MarkSaved, Commit, RetrySync, Abandon
<1>4. CASE LibraryNext \/ UploadNext \/ Expire \/ WriteContent \/ Correlate
  BY <1>4 DEF LibraryNext, CheckDelete, EmptyAsset, DeleteAsset, SetReferences, UploadNext, saveVars,
              Expire, WriteContent, Correlate
<1> QED BY <1>1, <1>2, <1>3, <1>4 DEF Next, vars, saveVars

\* An operation that does not exist has no job that waits.
LEMMA NoneHasNoJob ==
    ASSUME op = "none" => job # "queued", [Next]_vars, op' = "none"
    PROVE  job' # "queued"
<1>1. CASE ClientNext
  BY <1>1 DEF ClientNext, CreateOperation, StartUpload, saveVars, FinishUploads, ReplaceReferences,
              GiveUp, MarkSaving, AwaitContent, ReportUnknown, MarkSaved, ContentSaved, Commit,
              RetrySync, Abandon
<1>2. ASSUME NEW c \in Cleaners, CleanupStep(c) PROVE job' # "queued"
  BY <1>2 DEF CleanupStep, ListAssets, DeleteObjects, FinalizeCleanup, CleanupFails, EndAttempt
<1>3. CASE Recover
  BY <1>3 DEF Recover
<1>4. CASE LibraryNext
  BY <1>4 DEF LibraryNext, CheckDelete, EmptyAsset, DeleteAsset, SetReferences
<1>5. CASE UploadNext \/ Expire \/ WriteContent \/ Correlate
  BY <1>5 DEF UploadNext, saveVars, Expire, WriteContent, Correlate, ContentSaved
<1> QED BY <1>1, <1>2, <1>3, <1>4, <1>5 DEF Next, vars, saveVars

\* A recovery job that has ended well has nothing left to recover, and nothing
\* that happens later takes the operation back to where it would be needed.
THEOREM RecoveredSettled == Spec => []RecoveredIsSettled
<1>1. Init => RecoveryInv
  BY DEF Init, RecoveryInv, RecoveredIsSettled
<1>2. Typed /\ RecoveryInv /\ [Next]_vars => RecoveryInv'
  BY SettledStays, JobEndsSettled, NoneHasNoJob DEF RecoveryInv, RecoveredIsSettled
<1>3. Spec => []Typed
  BY InitTyped, StepTyped, PTL DEF Spec
<1>4. RecoveryInv => RecoveredIsSettled
  BY DEF RecoveryInv
<1> QED BY <1>1, <1>2, <1>3, <1>4, PTL DEF Spec

-----------------------------------------------------------------------------
(***************************************************************************)
(* Discarded uploads.  The cleanup ends when it finds no provisional draft; *)
(* an active one there cannot be (KeptInv).  A draft that is registered    *)
(* late is not booked, and its worker, which has read it provisional, does *)
(* not publish for an operation that is not open.                          *)
(***************************************************************************)
NothingBooked == \A d \in Drafts : row[d] = "absent" \/ upload[d] # "processed"

DiscardedInv == op \in {"none", "abandoned"} => NothingBooked

LEMMA UploadsBookNothing ==
    ASSUME Inv, UploadNext, ~ Open, ~ Saved, NothingBooked
    PROVE  NothingBooked'
<1> USE TypesOfUploads DEF NothingBooked
<1>0. upload \in [Assets -> {"pending", "processed", "failed"}] /\ Typed
  BY DEF Inv, Typed, TypeOK, UploadTypeOK
<1>1. ASSUME NEW e \in Drafts, RegisterDraft(e) PROVE NothingBooked'
  BY <1>0, <1>1 DEF RegisterDraft, Insert
<1>2. ASSUME NEW a \in Library, RegisterInLibrary(a) PROVE NothingBooked'
  BY <1>0, <1>2, MediaAssumption DEF RegisterInLibrary, Insert
<1>3. ASSUME NEW w \in Workers, PersistFailure(w) PROVE NothingBooked'
  BY <1>0, <1>3 DEF PersistFailure
<1>4. ASSUME NEW w \in Workers, pc[w] = "finalize", MayPublish(w), Publish(w)
      PROVE  NothingBooked'
  <2>1. asset[w] \notin Drafts
    BY <1>0, <1>4 DEF MayPublish, Inv, KeptInv, Writing, Typed, SeenInFlight
  <2> QED BY <1>0, <1>4, <2>1 DEF Publish
<1>5. ASSUME NEW w \in Workers, FailClaimed(w) \/ Finalize(w) PROVE NothingBooked'
  BY <1>3, <1>4, <1>5 DEF FailClaimed, Finalize, database
<1>6. CASE UNCHANGED <<row, upload>>
  BY <1>6
<1> QED BY <1>1, <1>2, <1>5, <1>6 DEF UploadNext, UploadStep, Put, ClaimUpload, ReadUpload,
           SweepReplaced, FindInvalid, WriteVariants, DiscardVariants, DropObject, StorageFails,
           Crash, database

LEMMA StepDiscarded == Inv /\ DiscardedInv /\ [Next]_vars => DiscardedInv'
<1> SUFFICES ASSUME Inv, DiscardedInv, [Next]_vars, op' \in {"none", "abandoned"}
             PROVE  NothingBooked'
  BY DEF DiscardedInv
<1> USE DEF NothingBooked
<1>1. CASE UploadNext
  <2>1. op' = op /\ NothingBooked
    BY <1>1 DEF UploadNext, DiscardedInv
  <2>2. ~ Open /\ ~ Saved
    BY <2>1 DEF Open, Saved, Inv, SavedInv, Sent
  <2> QED BY <1>1, <2>1, <2>2, UploadsBookNothing
<1>2. CASE ClientNext
  <2>1. op' = op \/ op = "none"
    BY <1>2 DEF ClientNext, CreateOperation, StartUpload, saveVars, FinishUploads, ReplaceReferences,
              GiveUp, MarkSaving, AwaitContent, ReportUnknown, MarkSaved, ContentSaved, Commit,
              RetrySync, Abandon
  <2>2. NothingBooked
    BY <2>1 DEF DiscardedInv
  <2>3. UNCHANGED <<row, upload>>
    BY <1>2, <2>1 DEF ClientNext, CreateOperation, StartUpload, CheckDraft, database, uploadVars,
              FinishUploads, ReplaceReferences, GiveUp, MarkSaving, AwaitContent, ReportUnknown,
              MarkSaved, Commit, RetrySync, Abandon
  <2> QED BY <2>2, <2>3
<1>3. ASSUME NEW c \in Cleaners, CleanupStep(c) PROVE NothingBooked'
  <2>1. CASE FinalizeCleanup(c) /\ op \in Discarding
    <3>1. CASE op = "abandoned"
      BY <2>1, <3>1, TypesOfUploads DEF FinalizeCleanup, Remove, DiscardedInv, Inv
    <3>2. CASE op = "abandon_pending"
      <4>1. Provisional = {} /\ ~ Saved
        BY <2>1, <3>2 DEF FinalizeCleanup, Inv, SavedInv, Sent, Saved
      <4>2. \A d \in Drafts : row[d] = "absent"
        BY <4>1, TypesOfUploads DEF Provisional, Inv, KeptInv
      <4> QED BY <2>1, <4>1, <4>2 DEF FinalizeCleanup, Remove
    <3> QED BY <2>1, <3>1, <3>2
  <2>2. CASE UNCHANGED <<op, row, upload>>
    BY <2>2 DEF DiscardedInv
  <2> QED BY <1>3, <2>1, <2>2 DEF CleanupStep, ListAssets, DeleteObjects, FinalizeCleanup,
             CleanupFails, uploadVars, database
<1>4. CASE LibraryNext
  <2>1. \A d \in Drafts : row'[d] = row[d] /\ upload'[d] = upload[d]
    <3>1. ASSUME NEW a \in Deletable, DeleteAsset(a), NEW d \in Drafts
          PROVE  row'[d] = row[d] /\ upload'[d] = upload[d]
      <4>1. d # a
        BY MediaAssumption, SaveAssumption
      <4> QED BY <3>1, <4>1 DEF DeleteAsset, Remove, database
    <3> QED BY <1>4, <3>1 DEF LibraryNext, CheckDelete, EmptyAsset, SetReferences, uploadVars,
               database
  <2>2. op' = op
    BY <1>4 DEF LibraryNext, CheckDelete, EmptyAsset, DeleteAsset, SetReferences
  <2> QED BY <2>1, <2>2 DEF DiscardedInv
<1>5. CASE Expire \/ WriteContent \/ Correlate \/ Recover \/ UNCHANGED vars
  <2>1. UNCHANGED <<op, row, upload>>
    BY <1>5 DEF Expire, WriteContent, Correlate, ContentSaved, Recover, uploadVars, vars
  <2> QED BY <2>1 DEF DiscardedInv
<1> QED BY <1>1, <1>2, <1>3, <1>4, <1>5 DEF Next

\* No upload of an operation whose cleanup has ended is published or booked,
\* not even one that was registered after the end of the cleanup.
THEOREM AbandonedUnpublished == Spec => []AbandonedPublishesNothing
<1>1. Init => DiscardedInv
  <2> SUFFICES ASSUME Init PROVE NothingBooked
    BY DEF DiscardedInv
  <2>1. PICK ready \in SUBSET Library : InitUpload!(ready)
    BY DEF Init, InitUpload
  <2> QED BY <2>1, MediaAssumption DEF NothingBooked
<1>2. DiscardedInv => AbandonedPublishesNothing
  BY DEF DiscardedInv, NothingBooked, AbandonedPublishesNothing, Booked
<1> QED BY <1>1, <1>2, Invariant, StepDiscarded, PTL DEF Spec

=============================================================================
