----------------------------- MODULE ContentSave -----------------------------
(***************************************************************************)
(* A content save with local files: the saga of the browser               *)
(* (plugin-sdk/content-media-persistence.ts), the Mainserver, the          *)
(* content-save operation in the Studio database, its abandon handler, its *)
(* recovery job and the deletion of media, composed with the uploads of    *)
(* module MediaUpload.                                                     *)
(*                                                                         *)
(* Every call of the browser may be executed or not, and its answer may be *)
(* lost; the browser treats a call without an answer as failed.  The       *)
(* operation has one target, which the save replaces the references of.    *)
(***************************************************************************)
EXTENDS MediaUpload

CONSTANTS
    MaxAttempts,  \* attempts of the recovery job
    Deletable     \* library assets a user may delete

ASSUME SaveAssumption ==
    MaxAttempts \in Nat \ {0} /\ Deletable \subseteq Library

VARIABLES
    opRefs,    \* assets in media_content_save_operation_references
    refs,      \* assets in media_references of the target
    client,    \* where the saga of the browser is
    content,   \* what the Mainserver did: "none", "sent", "saved", "marked", "refused"
    expired,   \* the operation's expires_at has passed
    job,       \* the recovery job: "none", "queued", "done", "failed"
    attempts,  \* attempts of the recovery job so far
    cleaner,   \* progress of each cleanup: "idle", "list", "delete", "finalize"
    todo,      \* assets whose objects a cleanup still has to delete
    deleting   \* progress of the deletion of an asset: "no", "checked", "emptied"

saveVars == <<opRefs, refs, client, content, expired, job, attempts, cleaner, todo, deleting>>
vars == <<op, uploadVars, saveVars>>

Cleaners == {"abandon", "recovery"}
Discarding == {"abandon_pending", "abandoned"}
Unclear == {"content_saved", "outcome_unknown", "reconciliation_required"}
Statuses == {"none", "preparing", "uploading", "saving_content", "committed"}
                \cup Discarding \cup Unclear

Provisional == {a \in Assets : row[a] = "provisional"}
Booked == {a \in Assets : row[a] # "absent" /\ upload[a] = "processed"}

Init ==
    /\ InitUpload
    /\ op = "none"
    /\ opRefs = {}
    /\ \E used \in SUBSET {a \in Library : row[a] = "active"} : refs = used
    /\ client = "idle"
    /\ content = "none"
    /\ expired = FALSE
    /\ job = "none"
    /\ attempts = 0
    /\ cleaner = [c \in Cleaners |-> "idle"]
    /\ todo = [c \in Cleaners |-> {}]
    /\ deleting = [a \in Assets |-> "no"]

\* One call of the browser: it goes on to next, or the answer is lost.
Answered(next, lost) == client' \in {next, lost}

-----------------------------------------------------------------------------
(***************************************************************************)
(* Start of the operation.                                                 *)
(***************************************************************************)
CreateOperation ==
    /\ client = "idle" /\ op = "none"
    /\ \/ /\ op' = "preparing"
          /\ job' = "queued"
          /\ Answered("uploading", "given up")
       \* the handler dies between the insert and the scheduling
       \/ /\ "crash" \in Failures
          /\ op' = "preparing"
          /\ client' = "given up"
          /\ UNCHANGED job
       \* recoverFromSchedulingFailure: no asset yet, so one cleanup suffices
       \/ /\ "schedule" \in Failures
          /\ op' = "abandoned"
          /\ client' = "given up"
          /\ UNCHANGED job
    /\ UNCHANGED <<uploadVars, opRefs, refs, content, expired, attempts, cleaner, todo, deleting>>

Expire ==
    /\ op # "none" /\ ~ expired
    /\ expired' = TRUE
    /\ UNCHANGED <<op, uploadVars, opRefs, refs, client, content, job, attempts, cleaner,
                   todo, deleting>>

-----------------------------------------------------------------------------
(***************************************************************************)
(* prepareLocalMediaDrafts: one upload after the other, then the desired   *)
(* references.                                                             *)
(***************************************************************************)
StartUpload(d) ==
    /\ client = "uploading"
    /\ initiating = {}
    /\ \A e \in Drafts : session[e] \in {"none", "validated"}
    /\ CheckDraft(d)
    /\ UNCHANGED <<op, saveVars>>

FinishUploads ==
    /\ client = "uploading"
    /\ \A d \in Drafts : session[d] = "validated"
    /\ client' = "linking"
    /\ UNCHANGED <<op, uploadVars, opRefs, refs, content, expired, job, attempts, cleaner,
                   todo, deleting>>

\* replaceContentSaveOperationReferences.  A desired asset that is neither
\* active nor provisional for this operation is not inserted and refuses the
\* call, but what was deleted and inserted stays.
ReplaceReferences ==
    /\ client = "linking"
    /\ \E kept \in SUBSET Library :
           LET desired == kept \cup Drafts
               known   == {a \in desired : row[a] # "absent"}
           IN  IF op \in {"preparing", "uploading", "saving_content", "abandon_pending"}
               THEN /\ opRefs' = known
                    /\ op' = IF op = "preparing" /\ known = desired THEN "uploading" ELSE op
                    /\ IF known = desired THEN Answered("marking", "abandoning")
                                          ELSE client' = "abandoning"
               ELSE client' = "abandoning" /\ UNCHANGED <<op, opRefs>>
    /\ UNCHANGED <<uploadVars, refs, content, expired, job, attempts, cleaner, todo, deleting>>

\* Any of these calls fails or gets no answer: nothing was saved, so the
\* browser abandons.
GiveUp ==
    /\ client \in {"uploading", "linking", "marking"}
    /\ initiating = {} \/ "lateInit" \in Failures
    /\ client' = "abandoning"
    /\ UNCHANGED <<op, uploadVars, opRefs, refs, content, expired, job, attempts, cleaner,
                   todo, deleting>>

-----------------------------------------------------------------------------
(***************************************************************************)
(* The write of the content.                                               *)
(***************************************************************************)
MarkSaving ==
    /\ client = "marking"
    /\ IF op \in {"uploading", "saving_content"}
       THEN /\ op' = "saving_content"
            /\ \/ client' = "saving" /\ content' = "sent"
               \/ client' = "abandoning" /\ UNCHANGED content
       ELSE client' = "abandoning" /\ UNCHANGED <<op, content>>
    /\ UNCHANGED <<uploadVars, opRefs, refs, expired, job, attempts, cleaner, todo, deleting>>

\* The Mainserver saves or refuses, possibly long after the browser gave up.
WriteContent ==
    /\ content = "sent"
    /\ content' \in {"saved", "refused"}
    /\ UNCHANGED <<op, uploadVars, opRefs, refs, client, expired, job, attempts, cleaner, todo,
                   deleting>>

ContentSaved ==
    IF op \in {"preparing", "uploading", "saving_content", "content_saved", "committed"}
    THEN op' = "content_saved"
    ELSE UNCHANGED op

\* markMediaContentSaveFromMainserverMutation; its failure is only logged.
Correlate ==
    /\ content = "saved"
    /\ content' = "marked"
    /\ ContentSaved \/ UNCHANGED op
    /\ UNCHANGED <<uploadVars, opRefs, refs, client, expired, job, attempts, cleaner, todo,
                   deleting>>

\* handleLocalMediaSaveFailure: only a refusal (4xx) lets the browser abandon;
\* any other failure, a timeout included, leaves the outcome unknown.
AbandonsOnAnyFailure == client' = "abandoning"  \* mutant
OutcomeUnknown == client' = "unknown"

AwaitContent ==
    /\ client = "saving"
    /\ \/ content = "marked" /\ client' = "syncing"
       \/ content = "refused" /\ client' = "abandoning"
       \/ OutcomeUnknown
    /\ UNCHANGED <<op, uploadVars, opRefs, refs, content, expired, job, attempts, cleaner, todo,
                   deleting>>

ReportUnknown ==
    /\ client = "unknown"
    /\ client' = "given up"
    /\ \/ op \in {"saving_content", "outcome_unknown"} /\ op' = "outcome_unknown"
       \/ UNCHANGED op
    /\ UNCHANGED <<uploadVars, opRefs, refs, content, expired, job, attempts, cleaner, todo,
                   deleting>>

-----------------------------------------------------------------------------
(***************************************************************************)
(* sync: mark the content saved, then commit; a failed sync can be retried *)
(***************************************************************************)
MarkSaved ==
    /\ client = "syncing"
    /\ \/ ContentSaved
       \/ UNCHANGED op
    /\ IF op' = "content_saved" THEN Answered("committing", "unsynced")
                                    ELSE client' = "unsynced"
    /\ UNCHANGED <<uploadVars, opRefs, refs, content, expired, job, attempts, cleaner, todo,
                   deleting>>

\* commitContentSaveOperation, one statement on one snapshot: the references
\* of the target are replaced and their provisional assets activated; the
\* status only changes if no asset of the operation is left out.
Activated == [a \in Assets |-> IF a \in opRefs /\ row[a] = "provisional" THEN "active" ELSE row[a]]

Commit ==
    /\ client = "committing"
    /\ IF op = "content_saved"
       THEN /\ refs' = opRefs
            /\ row' = Activated
            /\ op' = IF Provisional \subseteq opRefs THEN "committed" ELSE op
       ELSE UNCHANGED <<op, row, refs>>
    /\ IF op' = "committed" THEN Answered("done", "unsynced") ELSE client' = "unsynced"
    /\ UNCHANGED <<upload, session, claim, issued, published, object, variants, usage, initiating,
                   worker, opRefs, content, expired, job, attempts, cleaner, todo, deleting>>

RetrySync ==
    /\ client = "unsynced"
    /\ client' = "syncing"
    /\ UNCHANGED <<op, uploadVars, opRefs, refs, content, expired, job, attempts, cleaner, todo,
                   deleting>>

-----------------------------------------------------------------------------
(***************************************************************************)
(* Cleanup, by the abandon handler and by the recovery job.                *)
(***************************************************************************)
StartCleanup(c) == cleaner' = [cleaner EXCEPT ![c] = "list"]

Abandon ==
    /\ client = "abandoning"
    /\ client' = "given up"
    /\ \/ /\ op \in {"preparing", "uploading", "saving_content", "abandon_pending"}
          /\ op' = "abandon_pending"
          /\ StartCleanup("abandon")
       \/ UNCHANGED <<op, cleaner>>
    /\ UNCHANGED <<uploadVars, opRefs, refs, content, expired, job, attempts, todo, deleting>>

\* claimContentSaveOperationRecovery.  The lease belongs to the only job there
\* is for the operation, so it never keeps the job out.
RecoverAnyStatus ==  \* mutant: an interrupted save is taken for a safe one
    /\ job = "queued" /\ expired /\ cleaner["recovery"] = "idle"
    /\ attempts < MaxAttempts
    /\ attempts' = attempts + 1
    /\ IF op \in {"preparing", "uploading", "saving_content", "abandon_pending"}
       THEN op' = "abandon_pending" /\ StartCleanup("recovery") /\ UNCHANGED job
       ELSE job' = "done" /\ UNCHANGED <<op, cleaner>>
    /\ UNCHANGED <<uploadVars, opRefs, refs, client, content, expired, todo, deleting>>
RecoverOpenOnly ==  \* mutant: a cleanup that was begun is not taken up again
    /\ job = "queued" /\ expired /\ cleaner["recovery"] = "idle"
    /\ attempts < MaxAttempts
    /\ attempts' = attempts + 1
    /\ IF op \in {"preparing", "uploading"}
       THEN op' = "abandon_pending" /\ StartCleanup("recovery") /\ UNCHANGED job
       ELSE /\ job' = "done"
            /\ op' = IF op = "saving_content" THEN "reconciliation_required" ELSE op
            /\ UNCHANGED cleaner
    /\ UNCHANGED <<uploadVars, opRefs, refs, client, content, expired, todo, deleting>>
Recover ==
    /\ job = "queued" /\ expired /\ cleaner["recovery"] = "idle"
    /\ attempts < MaxAttempts
    /\ attempts' = attempts + 1
    /\ IF op \in {"preparing", "uploading", "abandon_pending"}
       THEN op' = "abandon_pending" /\ StartCleanup("recovery") /\ UNCHANGED job
       ELSE /\ job' = "done"
            /\ op' = IF op = "saving_content" THEN "reconciliation_required" ELSE op
            /\ UNCHANGED cleaner
    /\ UNCHANGED <<uploadVars, opRefs, refs, client, content, expired, todo, deleting>>

\* The attempt throws; after the last one the job has failed for good.
EndAttemptForGood(c) ==  \* mutant: a cleanup that throws is not retried
    /\ cleaner' = [cleaner EXCEPT ![c] = "idle"]
    /\ job' = IF c = "recovery" THEN "failed" ELSE job
EndAttempt(c) ==
    /\ cleaner' = [cleaner EXCEPT ![c] = "idle"]
    /\ job' = IF c = "recovery" /\ attempts = MaxAttempts THEN "failed" ELSE job

ListAssets(c) ==
    /\ cleaner[c] = "list"
    /\ todo' = [todo EXCEPT ![c] = Provisional]
    /\ cleaner' = [cleaner EXCEPT ![c] = "delete"]
    /\ UNCHANGED <<op, uploadVars, opRefs, refs, client, content, expired, job, attempts, deleting>>

\* The original and the variants the database lists.
DeleteObjects(c) ==
    /\ cleaner[c] = "delete"
    /\ IF todo[c] = {}
       THEN /\ cleaner' = [cleaner EXCEPT ![c] = "finalize"]
            /\ UNCHANGED <<object, variants, todo>>
       ELSE \E a \in todo[c] :
            /\ object' = [object EXCEPT ![a] = FALSE]
            /\ variants' = [variants EXCEPT ![a] = @ \ {published[a]}]
            /\ todo' = [todo EXCEPT ![c] = @ \ {a}]
            /\ UNCHANGED cleaner
    /\ UNCHANGED <<op, row, upload, session, claim, issued, published, usage, initiating, worker,
                   opRefs, refs, client, content, expired, job, attempts, deleting>>

\* Rows and sessions go; sessions and variants are deleted by cascade.
RemoveUnfloored(gone) ==  \* mutant: GREATEST(0, ...) is missing
    /\ row' = [a \in Assets |-> IF a \in gone THEN "absent" ELSE row[a]]
    /\ upload' = [a \in Assets |-> IF a \in gone THEN "pending" ELSE upload[a]]
    /\ session' = [a \in Assets |-> IF a \in gone THEN "none" ELSE session[a]]
    /\ claim' = [a \in Assets |-> IF a \in gone THEN 0 ELSE claim[a]]
    /\ published' = [a \in Assets |-> IF a \in gone THEN 0 ELSE published[a]]
    /\ usage' = usage - Cardinality(gone)
Remove(gone) ==
    /\ row' = [a \in Assets |-> IF a \in gone THEN "absent" ELSE row[a]]
    /\ upload' = [a \in Assets |-> IF a \in gone THEN "pending" ELSE upload[a]]
    /\ session' = [a \in Assets |-> IF a \in gone THEN "none" ELSE session[a]]
    /\ claim' = [a \in Assets |-> IF a \in gone THEN 0 ELSE claim[a]]
    /\ published' = [a \in Assets |-> IF a \in gone THEN 0 ELSE published[a]]
    /\ usage' = IF usage > Cardinality(gone) THEN usage - Cardinality(gone) ELSE 0

\* finalizeContentSaveOperationCleanup.  Its last part sees the assets that the
\* same statement deletes: only a cleanup that finds none ends the operation.
FinalizeCleanup(c) ==
    /\ cleaner[c] = "finalize"
    /\ IF op \in Discarding
       THEN /\ opRefs' = {}
            /\ Remove(Provisional)
            /\ op' = IF Provisional = {} THEN "abandoned" ELSE op
       ELSE UNCHANGED <<opRefs, database, op>>
    /\ IF op' = "abandoned" /\ Provisional = {}
       THEN /\ cleaner' = [cleaner EXCEPT ![c] = "idle"]
            /\ job' = IF c = "recovery" THEN "done" ELSE job
       ELSE EndAttempt(c)
    /\ UNCHANGED <<issued, object, variants, initiating, worker, refs, client, content, expired,
                   attempts, todo, deleting>>

\* The storage fails or the process dies.
CleanupFails(c) ==
    /\ Failures \cap {"storage", "crash"} # {}
    /\ cleaner[c] \in {"list", "delete", "finalize"}
    /\ EndAttempt(c)
    /\ todo' = [todo EXCEPT ![c] = {}]
    /\ UNCHANGED <<op, uploadVars, opRefs, refs, client, content, expired, attempts, deleting>>

-----------------------------------------------------------------------------
(***************************************************************************)
(* The media library: deletion of an asset and the references of content   *)
(* that is saved without local files.                                      *)
(***************************************************************************)
CheckDelete(a) ==
    /\ deleting[a] = "no"
    /\ row[a] = "active" /\ upload[a] = "processed" /\ a \notin refs
    /\ deleting' = [deleting EXCEPT ![a] = "checked"]
    /\ UNCHANGED <<op, uploadVars, opRefs, refs, client, content, expired, job, attempts, cleaner,
                   todo>>

EmptyAsset(a) ==
    /\ deleting[a] = "checked"
    /\ deleting' = [deleting EXCEPT ![a] = "emptied"]
    /\ object' = [object EXCEPT ![a] = FALSE]
    /\ variants' = [variants EXCEPT ![a] = @ \ {published[a]}]
    /\ UNCHANGED <<op, database, issued, initiating, worker, opRefs, refs, client, content,
                   expired, job, attempts, cleaner, todo>>

\* The foreign key of the operation's references restricts the deletion.
DeleteAsset(a) ==
    /\ deleting[a] = "emptied"
    /\ deleting' = [deleting EXCEPT ![a] = "no"]
    /\ IF a \in opRefs THEN UNCHANGED <<database, refs>>
                       ELSE Remove({a}) /\ refs' = refs \ {a}
    /\ UNCHANGED <<op, issued, object, variants, initiating, worker, opRefs, client, content,
                   expired, job, attempts, cleaner, todo>>

SetReferences ==
    /\ \E S \in SUBSET {a \in Library : row[a] = "active"} : refs' = S
    /\ UNCHANGED <<op, uploadVars, opRefs, client, content, expired, job, attempts, cleaner, todo,
                   deleting>>

-----------------------------------------------------------------------------
UploadNext ==
    /\ \/ \E d \in Drafts : RegisterDraft(d)
       \/ \E a \in Library : RegisterInLibrary(a)
       \/ \E a \in Assets : Put(a)
       \/ \E w \in Workers : UploadStep(w)
    /\ UNCHANGED <<op, saveVars>>

ClientNext ==
    \/ CreateOperation
    \/ \E d \in Drafts : StartUpload(d)
    \/ FinishUploads \/ ReplaceReferences \/ GiveUp \/ MarkSaving \/ AwaitContent
    \/ ReportUnknown \/ MarkSaved \/ Commit \/ RetrySync \/ Abandon

CleanupStep(c) == ListAssets(c) \/ DeleteObjects(c) \/ FinalizeCleanup(c) \/ CleanupFails(c)

LibraryNext ==
    \/ \E a \in Deletable : CheckDelete(a) \/ EmptyAsset(a) \/ DeleteAsset(a)
    \/ SetReferences

Next ==
    \/ UploadNext \/ ClientNext \/ LibraryNext
    \/ Expire \/ WriteContent \/ Correlate \/ Recover
    \/ \E c \in Cleaners : CleanupStep(c)

Spec == Init /\ [][Next]_vars

\* The recovery job is started when it is due and goes on unless it fails.
FairSpec == Spec /\ WF_vars(Expire) /\ WF_vars(Recover)
                 /\ \A c \in Cleaners : WF_vars(CleanupStep(c))

-----------------------------------------------------------------------------
(***************************************************************************)
(* Properties.                                                             *)
(***************************************************************************)

\* Every variable of the composition keeps its type.
TypeOK ==
    /\ UploadTypeOK
    /\ op \in Statuses
    /\ opRefs \subseteq Assets /\ refs \subseteq Assets
    /\ client \in {"idle", "uploading", "linking", "marking", "saving", "unknown", "syncing",
                   "committing", "unsynced", "abandoning", "given up", "done"}
    /\ content \in {"none", "sent", "saved", "marked", "refused"}
    /\ expired \in BOOLEAN
    /\ job \in {"none", "queued", "done", "failed"}
    /\ attempts \in 0..MaxAttempts
    /\ cleaner \in [Cleaners -> {"idle", "list", "delete", "finalize"}]
    /\ todo \in [Cleaners -> SUBSET Assets]
    /\ deleting \in [Assets -> {"no", "checked", "emptied"}]

\* Whatever browser, Mainserver, correlation, expiry and recovery do to each
\* other: once the Mainserver has saved the content, and while it may still
\* save it, the operation is not on the way to be discarded and every draft it
\* refers to is there.
SavedKeepsMedia ==
    content \in {"sent", "saved", "marked"} =>
        /\ op \notin Discarding
        /\ \A d \in Drafts : d \in opRefs /\ row[d] # "absent"

\* What the database publishes is in the storage: no superseded worker, sweep
\* of a replaced claim or cleanup deletes the original or the variants of a
\* validated upload, except for an operation that is being discarded.  What
\* a user deletes is left to UsedIsStored.
PublishedIsStored ==
    \A a \in Assets \ Deletable :
        session[a] = "validated" /\ (a \in Drafts => op \notin Discarding)
            => object[a] /\ published[a] \in variants[a]

\* However often a completion is repeated, claimed again or overtaken, an asset
\* is booked once: the usage never exceeds the processed assets.
NoDoubleBooking == usage <= Cardinality(Booked)

\* No upload of a discarded operation is ever published: what is left when the
\* cleanup has ended was never validated, so it is not booked and not listed.
AbandonedPublishesNothing == op = "abandoned" => Booked \cap Drafts = {}

\* A recovery job that ended well leaves nothing to recover.
Settled == {"committed", "abandoned"} \cup Unclear
RecoveredIsSettled == job = "done" => op \in Settled

\* Every operation is settled by its recovery job, if not by its browser.
RecoverySettles == job = "queued" ~> op \in Settled

\* The operation keeps the promise of MediaSaga.
Outcome == CASE content \in {"saved", "marked"} -> "saved"
             [] content = "refused" -> "refused"
             [] OTHER -> "open"
Fate == IF op \in Discarding THEN "discarded"
        ELSE IF \E d \in Drafts : row[d] = "active" THEN "kept" ELSE "open"
Saga == INSTANCE MediaSaga WITH content <- Outcome, media <- Fate
ImplementsSaga == Saga!Spec

-----------------------------------------------------------------------------
(***************************************************************************)
(* What documents say and the code does not do.                            *)
(***************************************************************************)

\* The cleanup corrects the usage by what it removes: the usage is what the
\* processed assets take.
UsageIsExact == usage = Cardinality(Booked)

\* An abandoned operation has no assets of its own left.
AbandonedIsEmpty == op = "abandoned" => Provisional = {}

\* Deletion spares an asset that is in use.
UsedIsStored == \A a \in refs : upload[a] = "processed" => object[a]

=============================================================================
