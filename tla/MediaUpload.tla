----------------------------- MODULE MediaUpload -----------------------------
(***************************************************************************)
(* The upload of media: registration, the PUT to the signed URL, and the   *)
(* handlers that complete an upload (iam-media/upload-*.ts, processing.ts  *)
(* and the claim and quota statements of data-repositories/src/media).     *)
(*                                                                         *)
(* An upload session is claimed with a fencing token; its worker writes    *)
(* variants under keys of that token without holding a transaction, and    *)
(* one short transaction publishes them.  A claim untouched for ten        *)
(* minutes can be replaced, so two workers of one session may overlap.     *)
(* Ten minutes may pass between any two steps.                             *)
(*                                                                         *)
(* A draft belongs to the content-save operation op (module ContentSave)   *)
(* and is provisional until that operation commits; a library asset is     *)
(* active from the start.  Every object counts one unit of storage.        *)
(***************************************************************************)
EXTENDS Integers, FiniteSets

CONSTANTS
    Drafts,     \* the local files of the content save
    Library,    \* assets of the media library
    Workers,    \* requests that complete an upload
    MaxClaims,  \* bound: claims ever issued
    Quota,      \* storage units of the instance
    Failures    \* what goes wrong in this instance, see FailureKinds

Assets == Drafts \cup Library
Claims == 0..MaxClaims

\* crash: a handler dies between two steps.  storage: a storage call fails.
\* ackLost: the connection fails while a transaction commits, before or after.
\* lateInit: a client gives up an initialization the server still executes.
\* schedule: the recovery job cannot be enqueued.
FailureKinds == {"crash", "storage", "ackLost", "lateInit", "schedule"}

ASSUME MediaAssumption ==
    /\ Drafts # {} /\ Drafts \cap Library = {}
    /\ IsFiniteSet(Drafts) /\ IsFiniteSet(Library)
    /\ MaxClaims \in Nat \ {0} /\ Quota \in Nat
    /\ Failures \subseteq FailureKinds

VARIABLES
    op,          \* media_content_save_operations.status, "none" before
    row,         \* media_assets.lifecycle_status of an asset, or "absent"
    upload,      \* its upload_status
    session,     \* status of its upload session, or "none"
    claim,       \* claim_token of the session, 0 for NULL
    issued,      \* claims issued so far
    published,   \* the claim whose variants the database lists, 0 for none
    object,      \* is the original in the object storage?
    variants,    \* the claims with variants in the object storage
    usage,       \* media_storage_usage
    initiating,  \* drafts between the check and the insert of initialization
    pc, asset, token, replaced, seen  \* of each worker

uploadVars == <<row, upload, session, claim, issued, published, object,
                variants, usage, initiating, pc, asset, token, replaced, seen>>

worker == <<pc, asset, token, replaced, seen>>
database == <<row, upload, session, claim, published, usage>>

Open == op \in {"preparing", "uploading"}

InitUpload ==
    \E ready \in SUBSET Library :
        /\ row = [a \in Assets |-> IF a \in ready THEN "active" ELSE "absent"]
        /\ upload = [a \in Assets |-> IF a \in ready THEN "processed" ELSE "pending"]
        /\ session = [a \in Assets |-> IF a \in ready THEN "validated" ELSE "none"]
        /\ claim = [a \in Assets |-> 0]
        /\ issued = 1
        /\ published = [a \in Assets |-> IF a \in ready THEN 1 ELSE 0]
        /\ object = [a \in Assets |-> a \in ready]
        /\ variants = [a \in Assets |-> IF a \in ready THEN {1} ELSE {}]
        /\ usage = Cardinality(ready)
        /\ initiating = {}
        /\ pc = [w \in Workers |-> "idle"]
        /\ asset = [w \in Workers |-> CHOOSE a \in Assets : TRUE]
        /\ token = [w \in Workers |-> 0]
        /\ replaced = [w \in Workers |-> 0]
        /\ seen = [w \in Workers |-> "active"]

-----------------------------------------------------------------------------
(***************************************************************************)
(* Initialization.  The handler checks that the operation is open and that *)
(* the draft has no asset, asks the storage for a signed URL and inserts   *)
(* asset and session in a later transaction.                               *)
(***************************************************************************)
CheckDraft(d) ==
    /\ Open
    /\ row[d] = "absent"
    /\ initiating' = initiating \cup {d}
    /\ UNCHANGED <<database, issued, object, variants, worker>>

Insert(a, lifecycle) ==
    /\ row' = [row EXCEPT ![a] = lifecycle]
    /\ upload' = [upload EXCEPT ![a] = "pending"]
    /\ session' = [session EXCEPT ![a] = "pending"]

\* The unique index on the draft refuses a second asset.
RegisterDraft(d) ==
    /\ d \in initiating
    /\ initiating' = initiating \ {d}
    /\ IF row[d] = "absent" THEN Insert(d, "provisional")
                            ELSE UNCHANGED <<row, upload, session>>
    /\ UNCHANGED <<claim, published, usage, issued, object, variants, worker>>

RegisterInLibrary(a) ==
    /\ row[a] = "absent"
    /\ Insert(a, "active")
    /\ UNCHANGED <<claim, published, usage, issued, object, variants, initiating, worker>>

Put(a) ==
    /\ session[a] = "pending"
    /\ object' = [object EXCEPT ![a] = TRUE]
    /\ UNCHANGED <<database, issued, variants, initiating, worker>>

-----------------------------------------------------------------------------
(***************************************************************************)
(* Completion.                                                             *)
(***************************************************************************)
Goto(w, l) == pc' = [pc EXCEPT ![w] = l]

\* The session is still claimed with the worker's token.
OwnsClaimByStatus(w) == session[asset[w]] = "uploaded"  \* mutant: the token is not compared
OwnsClaim(w) == session[asset[w]] = "uploaded" /\ claim[asset[w]] = token[w]

ClaimUpload(w, a) ==
    /\ pc[w] = "idle"
    /\ issued < MaxClaims
    /\ session[a] \in {"pending", "uploaded"}
    /\ Goto(w, "read")
    /\ asset' = [asset EXCEPT ![w] = a]
    /\ token' = [token EXCEPT ![w] = issued + 1]
    /\ replaced' = [replaced EXCEPT ![w] = claim[a]]
    /\ issued' = issued + 1
    /\ session' = [session EXCEPT ![a] = "uploaded"]
    /\ claim' = [claim EXCEPT ![a] = issued + 1]
    /\ UNCHANGED <<row, upload, published, usage, object, variants, initiating, seen>>

\* completeUpload loads session and asset; an upload that a later claim has
\* finished in the meantime needs nothing more.
ReadUpload(w) ==
    /\ pc[w] = "read"
    /\ IF row[asset[w]] = "absent"
       THEN Goto(w, "idle") /\ UNCHANGED seen
       ELSE /\ Goto(w, "sweep")
            /\ seen' = [seen EXCEPT ![w] =
                            IF session[asset[w]] = "validated" THEN "finished"
                                                               ELSE row[asset[w]]]
    /\ UNCHANGED <<database, issued, object, variants, initiating, asset, token, replaced>>

\* cleanupReplacedClaimVariants
SweepReplaced(w) ==
    /\ pc[w] = "sweep"
    /\ variants' = [variants EXCEPT ![asset[w]] = @ \ {replaced[w]}]
    /\ Goto(w, IF seen[w] = "finished" THEN "idle" ELSE "process")
    /\ UNCHANGED <<database, issued, object, initiating, asset, token, replaced, seen>>

\* The object is missing, too large or not an image of the declared type.
FindInvalid(w) ==
    /\ pc[w] = "process"
    /\ Goto(w, "fail")
    /\ UNCHANGED <<database, issued, object, variants, initiating, asset, token, replaced, seen>>

WriteVariants(w) ==
    /\ pc[w] = "process"
    /\ object[asset[w]]
    /\ variants' = [variants EXCEPT ![asset[w]] = @ \cup {token[w]}]
    /\ Goto(w, "finalize")
    /\ UNCHANGED <<database, issued, object, initiating, asset, token, replaced, seen>>

\* persistUploadFailure writes the asset back as it was read.
PersistFailure(w) ==
    /\ row' = [row EXCEPT ![asset[w]] = seen[w]]
    /\ upload' = [upload EXCEPT ![asset[w]] = "failed"]
    /\ session' = [session EXCEPT ![asset[w]] = "failed"]
    /\ claim' = [claim EXCEPT ![asset[w]] = 0]
    /\ UNCHANGED <<published, usage>>

FailClaimed(w) ==
    /\ pc[w] = "fail"
    /\ IF OwnsClaim(w) THEN PersistFailure(w) /\ Goto(w, "drop")
                       ELSE Goto(w, "idle") /\ UNCHANGED database
    /\ UNCHANGED <<issued, object, variants, initiating, asset, token, replaced, seen>>

-----------------------------------------------------------------------------
(***************************************************************************)
(* finalizeProcessedUpload: one transaction that locks the claim, then the *)
(* operation of a provisional asset, books the storage and publishes.      *)
(***************************************************************************)
MayPublishAfterClose(w) == OwnsClaim(w)  \* mutant: the operation is not locked
MayPublishUnfenced(w) == seen[w] = "provisional" => Open  \* mutant: the claim is not locked
MayPublish(w) == OwnsClaim(w) /\ (seen[w] = "provisional" => Open)

Publish(w) ==
    /\ row' = [row EXCEPT ![asset[w]] = seen[w]]
    /\ upload' = [upload EXCEPT ![asset[w]] = "processed"]
    /\ session' = [session EXCEPT ![asset[w]] = "validated"]
    /\ claim' = [claim EXCEPT ![asset[w]] = 0]
    /\ published' = [published EXCEPT ![asset[w]] = token[w]]
    /\ usage' = usage + 1

\* tryApplyStorageUsageWithinQuota
WithinQuota == usage + 1 <= Quota

\* The answer of a transaction goes on at l; without one its error is caught.
Reply(w, l) == Goto(w, l) \/ ("ackLost" \in Failures /\ Goto(w, "discard"))

Finalize(w) ==
    /\ pc[w] = "finalize"
    /\ \/ MayPublish(w) /\ WithinQuota /\ Publish(w) /\ Reply(w, "idle")
       \/ MayPublish(w) /\ ~ WithinQuota /\ PersistFailure(w) /\ Reply(w, "dropAll")
       \/ /\ ~ MayPublish(w) \/ "ackLost" \in Failures
          /\ UNCHANGED database
          /\ Goto(w, "discard")
    /\ UNCHANGED <<issued, object, variants, initiating, asset, token, replaced, seen>>

\* cleanupPersistedVariants, of a superseded worker or after an error
DiscardVariants(w) ==
    /\ pc[w] \in {"discard", "dropAll"}
    /\ variants' = [variants EXCEPT ![asset[w]] = @ \ {token[w]}]
    /\ Goto(w, IF pc[w] = "discard" THEN "idle" ELSE "drop")
    /\ UNCHANGED <<database, issued, object, initiating, asset, token, replaced, seen>>

DropObject(w) ==
    /\ pc[w] = "drop"
    /\ object' = [object EXCEPT ![asset[w]] = FALSE]
    /\ Goto(w, "idle")
    /\ UNCHANGED <<database, issued, variants, initiating, asset, token, replaced, seen>>

\* The storage is unavailable, before or while variants are written.
StorageFails(w) ==
    /\ "storage" \in Failures
    /\ \/ pc[w] \in {"sweep", "process"} /\ Goto(w, "idle") /\ UNCHANGED variants
       \/ /\ pc[w] = "process" /\ object[asset[w]]
          /\ variants' = [variants EXCEPT ![asset[w]] = @ \cup {token[w]}]
          /\ Goto(w, "discard")
    /\ UNCHANGED <<database, issued, object, initiating, asset, token, replaced, seen>>

Crash(w) ==
    /\ "crash" \in Failures
    /\ pc[w] # "idle"
    /\ Goto(w, "idle")
    /\ UNCHANGED <<database, issued, object, variants, initiating, asset, token, replaced, seen>>

UploadStep(w) ==
    \/ \E a \in Assets : ClaimUpload(w, a)
    \/ ReadUpload(w) \/ SweepReplaced(w) \/ FindInvalid(w) \/ WriteVariants(w)
    \/ FailClaimed(w) \/ Finalize(w) \/ DiscardVariants(w) \/ DropObject(w)
    \/ StorageFails(w) \/ Crash(w)

\* The types of the variables of this module.
UploadTypeOK ==
    /\ row \in [Assets -> {"absent", "provisional", "active"}]
    /\ upload \in [Assets -> {"pending", "processed", "failed"}]
    /\ session \in [Assets -> {"none", "pending", "uploaded", "validated", "failed"}]
    /\ claim \in [Assets -> Claims] /\ published \in [Assets -> Claims]
    /\ issued \in Claims
    /\ object \in [Assets -> BOOLEAN]
    /\ variants \in [Assets -> SUBSET Claims]
    /\ usage \in Nat
    /\ initiating \subseteq Drafts
    /\ pc \in [Workers -> {"idle", "read", "sweep", "process", "fail", "finalize", "discard",
                           "dropAll", "drop"}]
    /\ asset \in [Workers -> Assets]
    /\ token \in [Workers -> Claims] /\ replaced \in [Workers -> Claims]
    /\ seen \in [Workers -> {"provisional", "active", "finished"}]

=============================================================================
