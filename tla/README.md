# SVA Studio in TLA+

Models, model checks and proofs for the server side of SVA Studio: the parts in
which several processes, a database, a queue, Redis, an object store or an
identity provider act on the same state, and in which a unit test reaches only
one order of events.

- `X.tla` specifies a component: `VARIABLES`, `Init`, one action per operation or
  per awaited step of it, `Next`, `Spec`, and its properties.
- `MCX.tla` extends it for TLC; `X_<question>.cfg` gives the bounds of one run.
- `XProofs.tla` holds theorems and proofs for TLAPS.
- `PROJECT.json` maps each definition to the lines it models and lists the runs,
  the mutants (a plausible bug per property that makes it fail), the hazards and
  the findings. A definition commented `mutant` is used by nothing but that.

Check one module with `tlc -config StudioJobs_crash.cfg MCStudioJobs`, prove one with
`tlapm PermissionCacheProofs.tla`.

## The system

SVA Studio is a multi-tenant content studio. A TanStack Start app
(`apps/sva-studio-react`) serves the UI and the HTTP handlers of
`packages/auth-runtime`; PostgreSQL (schema `iam`, SQL in
`packages/data-repositories` and `packages/data/migrations`) holds the state; a
graphile-worker queue runs background jobs; Redis holds sessions and permission
snapshots; S3-compatible storage holds media; Keycloak holds identities; the
content itself lives in an external "Mainserver". App processes are replicated,
restarted at any time, and share nothing but these services.

| Component | State | Operations | Talks to | What is hard |
| --- | --- | --- | --- | --- |
| Studio jobs (`plugin-operations`) | `studio_jobs`, `studio_job_events`, queue entry | start, run, retry, cancel, delete, progress | queue, handlers of plugins | two writes per status change that are not one transaction, crashes, lost locks, retries |
| Idempotent requests and user creation (`shared-idempotency.ts`, `iam-admin`) | `idempotency_keys`, accounts, Keycloak identities | reserve, create, persist, compensate, complete, expire; import | Keycloak, PostgreSQL | concurrent twins, a handler that dies or fails between two systems, expiry, the import next to it |
| Permission resolution (`iam-authorization`) | revisions, memory cache, Redis cache | mutate, notify, evict, resolve | PostgreSQL, Redis, all protected handlers | snapshots published late, joined recomputes, lost notifications |
| Media content save (`iam-media`, `media/index.ts`) | save operation, provisional assets, references, quota | create, save, commit, abandon, recover, clean up | Mainserver, storage, jobs | a foreign commit in the middle, leases, late answers, cleanup next to commit |
| Media upload and processing (`iam-media`) | upload session, claim, asset, object, usage | initialise, upload, complete, process, finalise, reap | storage, save operation | reclaimed workers, quota counted once, cleanup next to late work |
| Data subject requests (`iam-governance`, `iam-data-subject-rights`) | requests, export jobs, holds | request, export, restrict, delete, mature | jobs, Keycloak | unclaimed re-runs, deletion against a legal hold |
| Legal texts and consents (`legal-text-*`, `governance-workflow-executor.ts`) | versions, consents, a cache per process | publish, edit, delete, consent, withdraw, check | PostgreSQL, all protected handlers | lookups and writes that are two steps, answers under way, a cache |
| Governance workflows (`iam-governance`) | change requests, delegations, impersonation | submit, approve, apply, revoke, expire | permission tables | four-eyes over several requests |
| Role administration (`iam-admin`) | roles and their sync state, realm roles | create, update, delete, reconcile | Keycloak, PostgreSQL, revisions | database and Keycloak are written one after the other, with compensation, next to a reconciliation |
| Changes and deletion of users (`iam-admin`) | accounts, identities | update, deactivate, delete, in bulk | Keycloak, sessions, revisions | the same two systems |
| Sessions and login (`auth-server`, `redis-session.ts`) | Redis sessions, their index, control states, a cache per process | login, resolve, refresh, logout, revoke, readmit | Keycloak, Redis | reads and writes of one session or control state by separate commands |
| Instance provisioning (`iam-instance-registry`, `instance-registry`) | instances, provisioning runs, snapshots | create, provision, claim, step, retry | Keycloak, DNS, secrets | run claims, crash between steps |
| Organisation provisioning, technical accounts | provisioning requests | request, run, retry | Mainserver, jobs | retry of what was done |
| Waste management (`plugin-waste-management`, `email-reminders.ts`) | tours, reminders, deliveries | import, schedule, send, verify | jobs, mail | send once |
| Backup agent (`deploy/backup-agent`) | a flag in memory, requests and results in the object store | trigger, run, report | object store | single run at a time |
| Content list, Mainserver client, UI, plugins, SDK, routing, monitoring, MCP | projections, pure functions, React state | read, map, render | Mainserver | mostly none that is concurrent |

Interactions that matter: a start handler reserves an idempotency key, creates the
job row and enqueues; the queue runs the job through the lifecycle orchestrator;
media recovery is such a job; every handler asks the permission store first; every
IAM mutation raises a permission revision in its own transaction; media
finalisation locks the save operation that a recovery may own at the same time; every
protected handler resolves its session and checks the legal texts first; changes of a
user's status and data subject requests revoke sessions; creating and updating a user
ensures that the realm roles exist that the reconciliation keeps.

## Modules

### StudioJobs, JobLifecycle, StudioJobsProofs

`StudioJobs` models one job. `job` and `events` are its row and its history, `entry`
the row of the queue, `run` the executions that are under way (an execution whose
lock expired and the one that replaced it coexist), `late` the database writes that
nobody awaits any more, `start` the start handler. `CreateStudioJob`,
`QueueStudioJob`, `MarkEnqueueFailed` are the awaits of
`executeStartPluginOperationJob`; `LoadJob`, `CommitState`, `CommitEvent`,
`WriteFails`, `Persisted`, `Handle` those of `createJobLifecycleOrchestrator`, in
which a status change is two transactions issued with `Promise.all`; `GetJob`,
`CompleteEntry`, `FailEntry`, `LockExpires`, `LockIsLost` are graphile-worker as the
code uses it (external); `RequestJobCancellation` and `DeleteJob*` the monitoring
handlers. Progress and heartbeat writes touch neither status nor attempts and are left
out, as are the start and stop of the worker pool.

Jobs share nothing but the pool, so one job is enough. `MaxAttempts`, and the
budgets of crashes, lost locks and rejected calls (a rejected enqueue counts as one),
are the bounds; three attempts with two crashes reach "first, middle and last
attempt" of every path, two run slots are what one lost lock needs. A delete reads the
status and removes the row in two steps, so every property has to hold next to it.

| Run | Question |
| --- | --- |
| `studio_jobs_crash` | With crashes only: does an accepted job that left the queue show how it ended, in row and history, does a handler only work while the row says "running" in its attempt, and does the row live the life of `JobLifecycle`, the contract its readers rely on? |
| `studio_jobs_faults` | With every fault at once: is an accepted job ever lost without an end in its history, and does it leave the queue? |

`DequeuedIsTerminal`, `HandlerIsVisible` and the refinement need that no database call
was rejected and no lock was lost so far (`Undisturbed`): with `Promise.all` a rejected
write leaves its twin under way, and either can land last. `AcceptedIsNeverLost` needs
nothing.

Fairness: the worker polls, the database answers, a handler ends (handlers have no
timeout in the code: this is an assumption about plugins), an expired lock is
released. Nobody has to cancel or delete, no fault has to happen, and a crash on
the last attempt legitimately leaves the entry (graphile keeps exhausted entries)
and the row behind; `AcceptedSettles` says so.

Proved for every number of runs, attempts and faults:

- `TypeCorrect`, and `AcceptedNeverLost` by the invariant that a run which will return
  normally has either met a deleted row or seen both its writes of a terminal status
  commit, and that only such a run removes the entry.
- `DequeuedTerminal` and `HandlerVisible`. Neither property is inductive. `CalmInv` adds
  that at most one run exists, which holds the lock of the entry and works in its
  attempt (`Held`); that what a dead process left under way belongs to the latest
  attempt and is an end of it only where the row still allows one, at most one write of
  row and history each (`Calm`); and that the row says what the run at this point of
  the orchestrator has written (`RowOf`). Once the row is deleted nothing of this is
  needed, as nothing recreates it. `CalmInv` holds under every fault, as it only speaks
  of the time before the first one that counts.
- `LifecycleUntilDisturbed`: up to that fault every step is a step of `JobLifecycle` or
  none, so `LifecycleImplemented`: with `DbFaults = 0` and `Stalls = 0`, `ImplementsLifecycle`
  holds for any number of crashes. The code cannot exclude these faults; the two theorems
  say that they are the only ones that break the promise.

`AcceptedSettles` is liveness and only model-checked.

### PermissionCache, PermissionCacheProofs

`instanceRevision` and `userRevision` are the revision tables; a set of permissions is
represented by the vector it belongs to and by the number of changes that raised no
revision (`silent`). `memory[p]` is the cache of a process, `versions[p]` the map its
`invalidate` walks, `redis` the shared cache, `inbox[p]` the notifications under way to
a process whose LISTEN connection is up (`Listening`). A request goes through
`ReadRevision`, `MemoryHit`/`MemoryMiss`, `RedisHit`/`RedisMiss`, `Recompute` (one
REPEATABLE READ transaction), `Recheck`, `Publish`, `StoreInMemory`: one action per
await, so that changes, notifications, expiries and other requests come in between.
`leader` and the pc "join" are the single flight. Any cache entry may expire at any
time, which also covers the Redis scan of an eviction, integrity failures and
restarts.

Bounds: two requests, in one or two processes, two revised changes (one more than the
retry), one silent change, one fault. Process and subject of each request are chosen
in `Init`.

| Run | Question |
| --- | --- |
| `permission_snapshots` | Is every snapshot stored under the revision it belongs to, does every answer reflect the revised changes that preceded its request, and does a request fail only after two of them? |
| `permission_answers` | Is every request answered, with joined recomputes, notifications and evictions? |

Fairness: PostgreSQL and Redis answer or reject. Nothing else has to happen.

Proved for every number of processes, requests, subjects, changes and faults:
`TypeCorrect`, `SnapshotsCorrect`, `AnswersCurrent`, `StaleExcused`. The three
safety properties are not inductive; `Inv` adds, for each request, that its vector
lies between the one at its arrival and the current one, that what it is about
to publish was loaded under its vector, that a request that joined has the vector of
its leader, and that every attempt given up was overtaken by one more change. The
proof shows that the comparison inside the transaction is redundant: the one before
the publication carries the argument, because vectors only grow.

### MediaUpload, ContentSave, MediaSaga, ContentSaveProofs, MediaStorageProofs

A content save with local files spans three systems without a common transaction:
the browser uploads the files as provisional assets of an operation, lets the
Mainserver save the content that refers to them, and commits the operation.

`MediaUpload` holds the uploads: `row`, `upload`, `session`, `claim`, `published` and
`usage` are the database, `object` and `variants` the object storage, `pc`, `token`,
`replaced` and `seen` the locals of each request that completes an upload. Its
actions are the awaits of the handlers: `CheckDraft` and `RegisterDraft` are the two
transactions of an initialization, `ClaimUpload`, `ReadUpload`, `SweepReplaced`,
`WriteVariants`, `Finalize`, `FailClaimed` and the cleanups those of a completion. A
worker writes an asset back as it has read it (`seen`), as the code does.

`ContentSave` extends it with the saga: `client` is where
`saveContentWithHostMediaReferences` is, `content` what the Mainserver did with the
save (external), `op` the status of the operation, `expired` and `job` its expiry and
recovery job, `cleaner` the abandon handler and the job as they clean up,
`deleting` the handler that deletes a library asset. Each call of the browser may be
executed or not and may lose its answer; the Mainserver may answer after the browser
has given up; the recovery may run while all this is going on.

`MediaSaga` is the promise: media are kept only for saved content and discarded only
for content that was not and will not be saved. `ContentSave` implements it with
`Outcome` and `Fate` as the refinement mapping.

| Run | Question |
| --- | --- |
| `media_saga` | Does saved content keep its media, does a discarded operation publish nothing, does a recovery that ended well leave a settled operation, and does the save implement `MediaSaga`? |
| `media_upload` | Is what the database publishes in the storage, and is an asset booked at most once, with two workers, three claims, a full quota, crashes, storage failures and a deletion? |
| `media_settles` | Is every operation settled by its recovery job? |

Bounds: one draft, at most one library asset, one or two workers, two to four claims,
one to three attempts. Two workers on one session with three claims give a superseded
worker, its successor and a repeated completion; a second draft shares nothing with
the first but the quota, which the library asset also uses, and the proofs hold for
any number. `Failures` chooses what goes wrong: `PublishedIsStored` needs that commits
are answered (see "Other behaviour" below the findings), `RecoverySettles` that no attempt crashes, as
five attempts stand against any number of crashes in the code too. Three attempts
are needed because the statement that deletes the assets does not end the operation:
the first cleanup that finds assets always throws, and the retry ends it.

Fairness of `FairSpec`: time passes (`Expire`), the queue runs the job (`Recover`) and a
cleanup goes on. Browser, Mainserver and uploads may stop at any point.

Abstractions: one operation, one target, one save of it at a time. Every object counts
one unit of storage. The two reads at the start of a completion are one action:
nothing between them changes what follows, as the finalization checks the claim
again. The lease of a recovery never keeps the only job of an operation out. A retried
initialization, the expiry of a pending session and a PUT after the asset is gone are
not modelled, nor is `updateMedia`. A deletion is one at a time per asset and of library
assets.

Proved for every set of drafts, library assets and workers and every bound and set
of failures:

- `TypeCorrect`. `TypeOK` is not inductive: a worker that has found its upload
  finished writes nothing (`SeenInFlight`).
- `SavedContentKeepsMedia`, with `SavedInv`: before the content is sent the drafts are
  linked and there, and a browser that abandons has sent nothing or was refused.
- `SagaImplemented`: every step is a step of `MediaSaga` or none. A draft becomes active
  only by a commit, so after the save (`KeptInv`); and no worker that read it as
  provisional can undo that, because all uploads are validated before the content is
  sent and a validated upload has lost its claim (`ReadyInv`).

- `RecoveredSettled`: `RecoveryInv` adds that a job only waits for an operation that
  exists; that a settled operation stays settled (`SettledStays`) is what keeps it true
  when a late browser or correlation acts on it.
- `AbandonedUnpublished`: `DiscardedInv`. The cleanup ends when it finds no provisional
  draft, and an active one there cannot be (`KeptInv`); a draft registered later is not
  booked, and its worker, which read it provisional, does not publish for an operation
  that is not open.

`MediaStorageProofs` is about the tokens of the claims:

- `BookedOnce`: a session that is claimed is not validated and its asset not booked
  (`Sessions`), so the owner of the claim books a new asset; a removal takes off at least
  as many units as it unbooks assets. Needs nothing else.
- `OriginalStored`: a worker drops an original only after its own transaction has made
  the session fail (`DropsFailed`), nothing takes a session back from there
  (`FailedStays`), and a cleanup deletes objects of drafts only, while their operation is
  being discarded (`Cleanups`). What the owner of a claim has written stays until it
  publishes (`VariantsReady`): tokens are never issued twice (`Tokens`), and the claim a
  sweep is for has been replaced (`Sweeps`).
- `PublishedStored`: the same for the variants. It needs that a worker that goes on
  working has not published (`OwnTokens`), which a commit without an answer breaks,
  hence the assumption `"ackLost" \notin Failures`. The code does not exclude a lost
  answer: it is the one failure the property does not survive ("Other behaviour").

`DatabaseStep`, `WorkerStep`, `ObjectLost` and `VariantsLost` say once what any step can do
to the database, to a worker and to the storage. Each invariant was checked with TLC on the
instances of the runs before it was proved. `RecoverySettles` is liveness and only
model-checked.

### UserCreation, UserCreationProofs

`POST /api/v1/iam/users` is the handler in which the idempotency keys matter most: it
changes Keycloak and the database one after the other and has no transaction over
both. `record` is the row of each key in `iam.idempotency_keys` (status and payload;
a payload is an e-mail address), `identity` the Keycloak user of an address,
`account` its account in the database. Requests run in any processes, with `pc` the
await at which each of them is: `Reserve`, `Conflict`, `Replay` and `ReserveFails`
are the outcomes of `reserveIdempotency`, `ResolveProvider`, `CreateUser`,
`PersistCreatedUser`, `SyncRoles`, `Deactivate`, `CompleteIdempotency` and
`FailIdempotency` the steps of `executeCreateUserMutation`, with the failure each
of them can have. `Crash` ends a request anywhere, `Expire` is the cleanup of old
keys, `ImportUser` the import of Keycloak users or a first login, which may create the
account before the request does. Keycloak itself is external: it keeps user names
unique.

`incidents` records what went wrong so far, so that a property can say what it needs:
a crash, a commit without an acknowledgement, a creation in Keycloak that ended in an
error, a compensation that failed.

| Run | Question |
| --- | --- |
| `user_creation` | Does a key execute once, does its stored answer stand, does who is told "created" find a usable user, and can nobody log in whom the Studio does not know? |

Bounds: three requests, two keys, two users. Two requests of one key and a third with
another key for the same user give every pair of roles (twins, replay, competition
for a user name, compensation of one next to the other), and two users give one key
with two payloads. Safety only: no fairness is assumed.

Abstractions: a key expires when no request that uses it is left, that is, no request
lives for 24 hours. Payloads that create a disabled user are left out. The credentials
of the Mainserver and the invitation never fail a creation and change nothing the
properties see. A process that dies leaves the key in progress until it expires, and
repetitions of the request are answered with a conflict for as long: the model has
this outcome, no document promises another.

Proved for any sets of requests, keys and users: `TypeCorrect`, `KeyExclusive`,
`AnswerStands`, `CreatedStaysUsable` and `LoginIsKnown`. `KeyInv` says that a request in
flight has its key to itself (`KeyIsAlone`), has not answered (`Unanswered`) and holds
its own row (`RowIsHeld`): reserved, or completed by itself with an acknowledgement that
was lost. This is inductive because a reservation needs a free row and the expiry needs
that nobody is in flight, and it is why `StoredAnswerStands` leaves one way to replace a
stored answer: the request that stored a success, was not told, and stores a failure
before it answers. Nobody has seen the answer that is replaced. `UserInv` says that a request between
creation and answer works on an identity that is there (`UserIsThere`), that no two
requests have created the same one (`OneCreator`), and that a success, answered or stored, belongs to
an enabled identity with an account that no request can still disable (`SuccessIsSettled`): a
compensation only hits the identity its own request created, and Keycloak's unique
user names make that one request.

### LegalConsent, LegalConsentProofs

`text` is a version's status with the users its target roles and groups reach,
`consents` and `live` are the rows of `legal_text_acceptances`, ever written and not
revoked. `LookUpToAccept`, `Accept`, `LookUpToRevoke` and `Revoke` are
`acceptLegalText`, which looks the version up and then writes (`looking` is what lies
in between); `CreateLegalText`, `UpdateLegalText` and `DeleteLegalText` the
administration; an update writes any status, as it writes back one that it read
before it was changed. Whom a version reaches is kept while it is valid, when alone it
is looked at. `CheckCached`, `CheckAsks`, `CheckAnswered` and `CheckFails` are
`withLegalTextCompliance`: a fresh entry in `cache` answers, otherwise the database
counts what is pending, and the answer is handled, and cached, up to `Latency` later.

| Run | Question |
| --- | --- |
| `legal_consent` | Is nobody let in who had nothing left to accept only longer ago than a cache entry and one answer last, does no consent lose its text, and does a blocked user get in? |

Bounds: two versions, one user (users share only the versions), one process (another
one has a cache of its own; the theorem holds for any number), two checks at a time, a
lifetime of two ticks and an answer of at most one, three ticks, three changes. A text
published while an answer is under way, two checks that fill one entry, an edit between
lookup and consent, and a consent given twice, whose rows one withdrawal ends, all fit.

Fairness of `FairSpec`: the server answers and finishes a consent it has begun; a user
comes back and, when blocked, accepts what is offered. `BlockedGetIn` is about users
whom every valid text is addressed to: see "Other behaviour" for the others.

Proved for any texts, users, processes, checks and times: `TypeCorrect`,
`StalenessBounded` and `ConsentsStand`. `PassedWasCompliant` is not inductive: its
invariant adds that an entry of a cache ends less than its lifetime and one answer
after its user last had nothing pending (`CacheBounded`), and that an answer under way
that found nothing pending was given at a moment when nothing was (`AnswersBounded`).
`ConsentKeepsText` is inductive together with the types.

### Sessions, SessionsProofs

Everything a session depends on lies in Redis, and everything is keyed by the user: the
module has one user. `store` holds his sessions, `index` the set of their ids with its
expiry, `control` the control state (minimum version, time of the last revocation,
block), `cache` what each process remembers about it. `LoginStarts`, `LoginReads`,
`LoginStores`, `LoginIndexes` are the awaits of `persistSession` and `createSession`;
`ReadSession` to `UpdateWrites` those of `resolveSessionUser`, with its control check,
refresh and failed refresh; `AdminReads`, `RevokeWrites`, `RevokeLists`,
`RevokeDeletes` and `ReadmitWrites` those of `revokeUserSessions` and
`clearUserSessionLoginBlock`, in the four ways the administration calls them (`Modes`:
suspend, bar, delete, readmit); `AdminStops` ends one of them anywhere. `epoch` in a
record, `revokedAt`, `blockedAt`, `barred` and `lost` are history: which revocations a
login knew of, when each was written, since when the user is blocked, which revocation
ordered the bar in force, and how many writes have replaced a control state that their
operation had not read.

Such a write undoes the work of the other operation, and the code allows it. The
properties say how far that reaches instead of being silent once it has happened: a lost
write ends an era (`era` in a record is the value of `lost` at its login), and
`RevokedStaysOut` excuses the sessions of the eras before and no later one;
`BarredStaysBarred` excuses only an operation that had read the control state before the
bar was written (`KnowsBar`), and whatever begins later must carry the bar over.

| Run | Question |
| --- | --- |
| `sessions` | Does a blocked user stay out and a revoked session stay revoked, whatever is cached, written back or created late; does a bar stand; does no refresh prolong a session beyond its lifetime; and does a readmitted user get in? |

Bounds: one session id (reused as soon as nothing refers to it), one request, one
process, two administrative operations that overlap, two ticks, all lifetimes one
tick. This gives a login, a refresh and two revocations, or a revocation and a
readmission, in every order, which is what each property takes to fail. A revocation
after a lost write takes a third operation, which only the proofs cover: they hold for
any number of each.

Fairness of `FairSpec`: the server finishes what it has begun, a user without a session
logs in, one with a session comes back with it. `ReadmittedGetsIn` leaves out a user
who logs out for ever.

Abstractions: a deletion (GET, DEL, SREM) is one step, and so are the SET and SADD of an
update, as no property tells whether the index has a session the control state already
refuses. A revocation takes its time stamp at any time between its read and its write.
The user data that are fetched again (`session-resolution.ts:102`), login states and the
OIDC exchange, and the end of a control state after 30 days are left out.

Proved for any number of sessions, requests, processes and operations and any
lifetimes: `TypeCorrect`, `BlockBounded`, `RevocationBounded`, `BarStands` and
`LifetimeBounded`. What a process remembers and what a request has passed date from
before the block (`BlockInv`): an entry of the cache, and an answer that may become one,
are as old as their question. The same holds of each revocation (`RevokeInv`): within
an era the minimum version and the number of revocations differ by a constant
(`Offset`), and so do the version of a session and the number of revocations its login
knew of, so that a record which a refresh writes back is refused like the one that was
deleted. A lost write changes the offset but also ends the era, after which nothing is
claimed of the records there are. For the bar, `WritersRead` says that whoever has read
since it was written has read it, and that a readmission has not. `SameSession` says
that a request works on the session it began with, which is why a record written back is
not another session's.

### RoleSync, RoleSyncProofs

Only one role, `system_admin`, is kept both in `iam.roles` and in the realm of the
instance. `row` and `assigned` are the database, `realmRole` is Keycloak (external),
`op[o]` what an operation does and has read. `CreateRole`, `PersistCreatedRole`,
`CompleteKey`, `UndoCreate` are the creation; `ReadRole`, `ListSubjects`, `MarkPending`,
`UpdateRole`, `PersistUpdatedRole`, `UndoUpdate`, `DeleteRole`, `DeleteFromDatabase`,
`UndoDelete`, `Reassign` and `MarkFailed` update and deletion with their
compensations; `LoadRoles`, `ListRoles`, `CreateMissing`, `UpdateMatched`,
`MarkSynced` and `Import` the reconciliation, and with the kind "ensure" the check that
`ensureManagedRealmRolesExist` makes when users are created. Each step has its failure:
a call that failed with or without effect, a transaction that failed or whose
acknowledgement was lost, a process that died. `history` says what happened that
operations do not allow for: "disturbed" when two overlapped or a commit went
unacknowledged, "recreated" when a creation met a role that the database had. With
`paused`, administration and faults come to a pause.

| Run | Question |
| --- | --- |
| `roles` | Does a role that is synced agree with Keycloak, has a refused change left no trace there, and does the reconciliation bring the two together once administration and faults pause? |
| `roles_synced` (violation) | Does a synced role never need repair? |

Bounds: one slot for administrative operations and one for the scheduler, so that a
reconciliation overlaps with any operation; two names, one user, two row ids (the row
that was read and the one that replaced it). Two overlapping administrative operations
are covered by `TypeCorrect` only.

Fairness of `FairSpec`: what has begun goes on, and the timer of the scheduler starts
the next run (`reconcile-handler.ts:75`; an instance without a schedule depends on
somebody starting it by hand).

Abstractions: the id of the instance is that of the realm. The POST of a creation, the
PUT when the role exists and the lookup that follows are one call. Assignments do not
change while a role does. A row that an instance's provisioning protects is neither
updated nor deleted. `upsertProtectedRole`, which renames a row without marking it, is
only in `Init`.

Proved for any number of operations: `TypeCorrect`, `SyncedStands`, `RefusalUndone`.
As long as nothing disturbed, one operation works at a time (`Sole`), what it has read is
what there is, its row is marked before Keycloak is changed (`Fits`), and the row's
state and error code say how row and realm role are related (`Settled`); `SyncedIsTrue`
and `RefusedIsUndone` follow from the last.

## Findings

The run `roles_synced`, quoted in `PROJECT.json`: when the answer of a creation cannot be
stored, the realm role is deleted although its row is committed as synced; a creation
that meets an existing row adopts its realm role and then deletes it
(`role-create-sync.ts:165`).

Four further configurations state what a document says and the code does not do, and
end in a counterexample. They are not among the runs and their properties are no
claims of this project:

- `PermissionCache_silent.cfg` (`SeesEveryChange`): governance workflows, and validity
  windows, change permissions without a new revision; cached answers stay as they were
  until their entries expire (`governance-workflow-executor.ts:424`; against
  `openspec/specs/iam-access-control/spec.md:121`, `:608`).
- `ContentSave_booked.cfg` (`UsageIsExact`): discarding an operation subtracts assets
  from the storage usage that were never booked (`media/index.ts:1617`; against
  `openspec/changes/delay-content-media-persistence/specs/media-management/spec.md:26`).
- `ContentSave_orphan.cfg` (`AbandonedIsEmpty`): an initialization that was checked before
  its operation was abandoned registers its asset after the cleanup, which does not
  run again (`upload-initialization-handler.ts:177`; against `:25` of that document).
- `ContentSave_used.cfg` (`UsedIsStored`): the references of a library asset are checked
  before its objects are deleted; content that comes to use it in between loses its
  files (`asset-mutation-handlers.ts:176`; against
  `openspec/specs/media-management/spec.md:171`).

Other behaviour met while modelling that a reader should know of. The models contain
it; no run is devoted to it, mostly because no document says otherwise:

- A delete of a job reads the status and deletes without a lock or a condition
  (`core.monitoring.ts:166`), so it can remove a job that has just become active again.
- An instance-wide notification evicts only subjects that had a notification of their
  own before (`iam-authorization-cache.ts:134`). `SeesRevisedChanges` shows that no
  answer depends on it.
- A synchronisation that is retried after the answer of its commit was lost reopens
  the committed operation (`media/index.ts:1343`).
- A finalization whose commit is not acknowledged deletes the variants it has
  published (`processing.ts:470`); `PublishedIsStored` is checked where commits are
  answered.
- A user whose creation succeeded is answered, and possibly stored, as failed when
  the completion of the key fails (`user-create-handler-support.ts:136`).
- The Keycloak client repeats a creation that got no answer; if the first attempt
  had an effect, the repetition is a conflict and the identity is not compensated
  (`keycloak-admin-client/core.ts:1495`).
- A valid text blocks every user who has not consented to it, whatever its target roles
  and groups, while the list offers only the texts addressed to the user
  (`legal-text-enforcement.ts:76`, `legal-text-repository.ts:257`): others are blocked
  with nothing to accept. An update that was read before a version was archived makes
  it valid again (`legal-text-repository.ts:417`).
- Of two overlapping changes of a control state one is lost
  (`session-revocation.ts:70`). A logout during a refresh is undone by the write of the
  refresh (`redis-session.ts:379`), and a session that is deleted during its refresh
  still lets that request in; a revocation is not undone, as the control state refuses
  what was written back. Deleting a user lifts a bar before the deletion in Keycloak,
  which may fail (`user-delete-handler.ts:148`). The index of a user lives as long as
  the session added last.
- A deletion of a role whose compensation fails stays "pending" and is not marked as
  failed (`role-delete-handler.ts:230`). A reconciliation that creates a missing realm
  role restores no members, and one that overlaps with a deletion can import the role
  again. `docs/architecture/06-runtime-view.md` says of orphaned realm roles that they
  are only reported; `reconcile-core.ts:788` imports them.

## Further hazards

`PROJECT.json` lists the hazards the properties are aimed at and those at the top of
the plan. Smaller ones, or ones whose component comes later:

- Media: a commit repeated much later replaces references another save has set
  (`repository.ts:1401`); an operation with an unknown outcome keeps its media for good
  (`:1369`); the recovery compares the expiry with the clock of its own host (`:1556`);
  every answer from 400 to 499 counts as a refusal of the save; two deletions of one
  asset both correct the usage.
- Studio jobs: a refused enqueue leaves no event, and a queued row if recording the
  refusal fails as well (`core.shared.ts:87`); a crash of the last attempt leaves the row
  "running".
- User creation: a process that dies between reservation and completion leaves the key in
  progress for 24 hours (`shared-idempotency.ts:77`).
- Start of a job: a failed completion of the key is not caught, as the answer is returned
  without await (`core.start.ts:154`).
- Media: a process that dies before the recovery is scheduled leaves the operation
  preparing (`content-save-start-handler.ts:73`); `updateMedia` writes back a whole asset
  that it read in an earlier transaction (`asset-mutation-handlers.ts:24`).
- Sessions: the login state is read and deleted by two commands
  (`redis-session.ts:505`); two refreshes with one token (`session-refresh.ts:50`); a
  revocation after the commit of a data subject request that a crash loses
  (`iam-data-subject-rights/core.ts:1073`).
- Waste tenants: a job that died with its claim keeps every later one out
  (`repository-waste-provisioning.ts:128`).
- Reminders: a failed delivery becomes pending whatever the status of the entry
  (`email-reminders.ts:408`); one that was sent but not marked is sent again
  (`waste-management-email-reminders.server.ts:251`).
- Reminders: an entry is leased again while its first delivery is still under way
  (`email-reminders.ts:337`).
- Backup agent: an error while looking for the request object leaves the flag of the
  running job set (`agent.mjs:1865`).

## Plan

Done: StudioJobs with JobLifecycle; PermissionCache; MediaUpload, ContentSave and
MediaSaga; UserCreation; LegalConsent; Sessions; RoleSync; every invariant and every
refinement that a run checks is proved, the two that need it under the assumption their
run makes. A run answers one question, and a question
that needs the same instance joins an existing run, so that the whole project can be
checked within an hour.

Next, in this order:

1. Governance workflows: a change request with concurrent approval, rejection and
   application, delegations that expire. Properties: a decision stands, an
   application happens once and after an approval. On its permissions, PermissionCache.
2. Waste e-mail reminders: the outbox with leases, late deliveries and cancellation.
   Properties: nothing is sent after a cancellation was seen, every entry is sent or
   given up, two deliveries need a lease that expired or a lost mark.
3. Waste tenant provisioning and data subject exports, which add a status of their
   own to a studio job: composed with StudioJobs. Properties: what is ready or
   completed stays so, a claim is released, one generation is provisioned at a time.
4. Changes and deletion of users next to Sessions and UserCreation: the order of
   revocation, Keycloak and database. Keycloak provisioning runs (claims and crashes).
5. ContentSave: two saves of one target, `updateMedia`, concurrent deletions. The start
   of a studio job with an idempotency key, composed of StudioJobs and the reservation
   of UserCreation.
6. Proofs: the safety invariants of 1 to 4, each with its inductive invariant checked by
   TLC first.

## Limits

Liveness is model-checked only (`AcceptedSettles`, `Answered`, `RecoverySettles`,
`BlockedGetIn`, `ReadmittedGetsIn`, `Converges`): it is out of the prover's reach, as are
ENABLED, induction over data and RECURSIVE operators (none is used). These hold for the
bounds of their run; every other property that a passing run checks is a theorem. Time is not modelled: a
timeout is a step that may happen whenever its precondition holds, which covers every
duration. Isolation levels are modelled by the atomicity they give: one action per
statement or per transaction that takes a lock or a snapshot.
