--------------------------- MODULE PermissionCache ---------------------------
(***************************************************************************)
(* How a request learns the effective permissions of a subject             *)
(* (resolveEffectivePermissions): PostgreSQL holds the permissions and a   *)
(* revision for the instance and for each subject, every process holds a   *)
(* memory cache, all processes share a Redis cache.  A snapshot is stored  *)
(* under the revision vector its request has read, and is looked up only   *)
(* under a vector just read.                                               *)
(*                                                                         *)
(* Permissions are represented by what determines them: the revision       *)
(* vector, and the number of changes made without a new revision.  A       *)
(* subject stands for a subject in one organization and geo context.       *)
(***************************************************************************)
EXTENDS Integers, Sequences

CONSTANTS
    Processes,   \* app processes
    Listening,   \* those whose LISTEN connection is up
    Subjects,    \* keycloak subjects of one instance
    Requests,    \* requests that may be under way
    Bumps,       \* bound: changes of permissions that raise a revision
    Unrevised,   \* bound: changes of permissions that raise none
    Faults       \* bound: calls to Redis or PostgreSQL that are rejected

ASSUME PermissionCacheAssumption ==
    /\ {Bumps, Unrevised, Faults} \subseteq Nat
    /\ Listening \subseteq Processes
    /\ "instance" \notin Subjects

VARIABLES
    instanceRevision, userRevision,  \* the tables iam.permission_cache_*_revisions
    silent,    \* changes of a subject's permissions without a new revision
    memory,    \* permissionSnapshotCache of each process: a set of snapshots
    versions,  \* the subjects its "versions" map knows
    redis,     \* the shared snapshots
    inbox,     \* notifications on their way to each process
    left,      \* changes and faults that may still happen
    \* The requests: where each runs, whom it asks for, how far it is, the
    \* attempt, the request whose recompute it awaits (its own, or the one it
    \* joined), the vector it read, the permissions it found, and what its
    \* subject could do when it arrived.
    process, subject, pc, attempt, leader, rev, found, since

db      == <<instanceRevision, userRevision, silent, inbox>>
caches  == <<memory, versions, redis>>
request == <<process, subject, pc, attempt, leader, rev, found, since>>
vars    == <<db, caches, request, left>>

Vectors == [inst : Nat, user : Nat]
Contents == [rev : Vectors, silent : Nat]

Vector(s)  == [inst |-> instanceRevision, user |-> userRevision[s]]
Content(s) == [rev |-> Vector(s), silent |-> silent[s]]

\* Snapshots are keyed by subject and vector: a new one replaces the old one.
Snapshot(s, v, c) == [subject |-> s, rev |-> v, content |-> c]
FindBySubject(cache, s, v) ==  \* mutant: the vector is not part of the key
    {e \in cache : e.subject = s}
Find(cache, s, v) == {e \in cache : e.subject = s /\ e.rev = v}
Store(cache, s, v, c) == (cache \ Find(cache, s, v)) \cup {Snapshot(s, v, c)}

Working == {"read", "lookup", "redis", "recompute", "recheck", "join", "publish", "store"}
Final   == {"ok", "stale", "unavailable"}

Spend(what) == /\ left[what] > 0
               /\ left' = [left EXCEPT ![what] = @ - 1]

-----------------------------------------------------------------------------
NoVector  == [inst |-> 0, user |-> 0]
NoContent == [rev |-> NoVector, silent |-> 0]

Init ==
    /\ instanceRevision = 1
    /\ userRevision = [s \in Subjects |-> 1]
    /\ silent = [s \in Subjects |-> 0]
    /\ inbox = [p \in Processes |-> <<>>]
    /\ memory = [p \in Processes |-> {}]
    /\ versions = [p \in Processes |-> {}]
    /\ redis = {}
    /\ process \in [Requests -> Processes]
    /\ subject \in [Requests -> Subjects]
    /\ pc = [r \in Requests |-> "idle"]
    /\ attempt = [r \in Requests |-> 0]
    /\ leader = [r \in Requests |-> r]
    /\ rev = [r \in Requests |-> NoVector]
    /\ found = [r \in Requests |-> NoContent]
    /\ since = [r \in Requests |-> NoContent]
    /\ left = [bump |-> Bumps, silent |-> Unrevised, fault |-> Faults]

(***************************************************************************)
(* Mutations: the change, the new revision and the notification commit in  *)
(* one transaction.                                                        *)
(***************************************************************************)
Notify(scope) ==
    inbox' = [p \in Processes |-> IF p \in Listening THEN Append(inbox[p], scope) ELSE inbox[p]]

BumpUser(s) ==
    /\ Spend("bump")
    /\ userRevision' = [userRevision EXCEPT ![s] = @ + 1]
    /\ Notify(s)
    /\ UNCHANGED <<instanceRevision, silent, caches, request>>

BumpInstance ==
    /\ Spend("bump")
    /\ instanceRevision' = instanceRevision + 1
    /\ Notify("instance")
    /\ UNCHANGED <<userRevision, silent, caches, request>>

\* A change without a new revision: the governance workflow inserts a role
\* assignment, or the validity of an assignment begins or ends.
ChangeSilently(s) ==
    /\ Spend("silent")
    /\ silent' = [silent EXCEPT ![s] = @ + 1]
    /\ UNCHANGED <<instanceRevision, userRevision, inbox, caches, request>>

-----------------------------------------------------------------------------
(***************************************************************************)
(* Eviction.  A user event forgets the snapshots of the user, an instance  *)
(* event those of the users that the versions map knows.  Redis keys are   *)
(* deleted by a scan that may come at any time and miss any of them, or    *)
(* expire.                                                                 *)
(***************************************************************************)
Evicted(p) == IF Head(inbox[p]) = "instance" THEN versions[p] ELSE {Head(inbox[p])}

Receive(p) ==
    /\ inbox[p] # <<>>
    /\ inbox' = [inbox EXCEPT ![p] = Tail(@)]
    /\ versions' = [versions EXCEPT ![p] = @ \cup Evicted(p)]
    /\ memory' = [memory EXCEPT ![p] = {e \in @ : e.subject \notin Evicted(p)}]
    /\ UNCHANGED <<instanceRevision, userRevision, silent, redis, request, left>>

\* The listening connection is gone, with what it had not delivered.
LoseNotifications(p) ==
    /\ inbox[p] # <<>>
    /\ inbox' = [inbox EXCEPT ![p] = <<>>]
    /\ UNCHANGED <<instanceRevision, userRevision, silent, caches, request, left>>

\* A snapshot is past its time to live: 300 s in memory, 900 s in Redis.
ExpireMemory(p) ==
    /\ \E e \in memory[p] : memory' = [memory EXCEPT ![p] = @ \ {e}]
    /\ UNCHANGED <<db, versions, redis, request, left>>

ExpireRedis ==
    /\ \E e \in redis : redis' = redis \ {e}
    /\ UNCHANGED <<db, memory, versions, request, left>>

-----------------------------------------------------------------------------
(***************************************************************************)
(* A request (resolveEffectivePermissionsAttempt).                         *)
(***************************************************************************)
Goto(r, to) == pc' = [pc EXCEPT ![r] = to]

Arrive(r) ==
    /\ pc[r] = "idle"
    /\ Goto(r, "read")
    /\ since' = [since EXCEPT ![r] = Content(subject[r])]
    /\ UNCHANGED <<db, caches, left, process, subject, attempt, leader, rev, found>>

ReadRevision(r) ==
    /\ pc[r] = "read"
    /\ Goto(r, "lookup")
    /\ rev' = [rev EXCEPT ![r] = Vector(subject[r])]
    /\ UNCHANGED <<db, caches, left, process, subject, attempt, leader, found, since>>

InMemory(r) == Find(memory[process[r]], subject[r], rev[r])
InRedis(r)  == Find(redis, subject[r], rev[r])

MemoryHit(r) ==
    /\ pc[r] = "lookup"
    /\ \E e \in InMemory(r) : found' = [found EXCEPT ![r] = e.content]
    /\ Goto(r, "ok")
    /\ UNCHANGED <<db, caches, left, process, subject, attempt, leader, rev, since>>

MemoryMiss(r) ==
    /\ pc[r] = "lookup" /\ InMemory(r) = {}
    /\ Goto(r, "redis")
    /\ UNCHANGED <<db, caches, left, process, subject, attempt, leader, rev, found, since>>

RedisHit(r) ==
    /\ pc[r] = "redis"
    /\ \E e \in InRedis(r) : found' = [found EXCEPT ![r] = e.content]
    /\ Goto(r, "store")
    /\ UNCHANGED <<db, caches, left, process, subject, attempt, leader, rev, since>>

\* Requests of one process that recompute the same snapshot share the work.
Flights(r) == {q \in Requests : /\ pc[q] \in {"recompute", "recheck"}
                                /\ process[q] = process[r]
                                /\ subject[q] = subject[r]
                                /\ rev[q] = rev[r]}

RedisMiss(r) ==
    /\ pc[r] = "redis" /\ InRedis(r) = {}
    /\ \/ /\ Flights(r) = {}
          /\ Goto(r, "recompute")
          /\ leader' = [leader EXCEPT ![r] = r]
       \/ \E q \in Flights(r) :
             /\ Goto(r, "join")
             /\ leader' = [leader EXCEPT ![r] = q]
    /\ UNCHANGED <<db, caches, left, process, subject, attempt, rev, found, since>>

\* The requests that await the recompute of r.
SettledAlone(r) == {r}  \* mutant: those that joined are not told
Settled(r) == {q \in Requests : q = r \/ (pc[q] = "join" /\ leader[q] = r)}

\* A stale recompute is retried once, from the start.
RetryForever(q) == "read"  \* mutant: no limit
RetryInPlace(q) == IF attempt[q] < 1 THEN "redis" ELSE "stale"  \* mutant: the old vector
Retry(q) == IF attempt[q] < 1 THEN "read" ELSE "stale"

Discard(r) ==
    /\ pc' = [q \in Requests |-> IF q \in Settled(r) THEN Retry(q) ELSE pc[q]]
    /\ attempt' = [q \in Requests |-> IF q \in Settled(r) /\ Retry(q) # "stale"
                                      THEN attempt[q] + 1 ELSE attempt[q]]
    /\ UNCHANGED found

\* One REPEATABLE READ transaction compares the vector and loads the
\* permissions: both are of the same moment.  Given the second comparison
\* below, the first one only saves the work.
Recompute(r) ==
    /\ pc[r] = "recompute"
    /\ \/ /\ Vector(subject[r]) = rev[r]
          /\ Goto(r, "recheck")
          /\ found' = [found EXCEPT ![r] = Content(subject[r])]
          /\ UNCHANGED attempt
       \/ Vector(subject[r]) # rev[r] /\ Discard(r)
    /\ UNCHANGED <<db, caches, left, process, subject, leader, rev, since>>

Recheck(r) ==
    /\ pc[r] = "recheck"
    /\ \/ /\ Vector(subject[r]) = rev[r]
          /\ pc' = [q \in Requests |-> IF q \in Settled(r) THEN "publish" ELSE pc[q]]
          /\ found' = [q \in Requests |-> IF q \in Settled(r) THEN found[r] ELSE found[q]]
          /\ UNCHANGED attempt
       \/ Vector(subject[r]) # rev[r] /\ Discard(r)
    /\ UNCHANGED <<db, caches, left, process, subject, leader, rev, since>>

PublishAsCurrent(r) ==  \* mutant: the key is made of the vector of this moment
    /\ pc[r] = "publish"
    /\ redis' = Store(redis, subject[r], Vector(subject[r]), found[r])
    /\ Goto(r, "store")
    /\ UNCHANGED <<db, memory, versions, left, process, subject, attempt, leader, rev, found, since>>

Publish(r) ==
    /\ pc[r] = "publish"
    /\ redis' = Store(redis, subject[r], rev[r], found[r])
    /\ Goto(r, "store")
    /\ UNCHANGED <<db, memory, versions, left, process, subject, attempt, leader, rev, found, since>>

\* The snapshot, from Redis or recomputed, goes to the memory of the process.
StoreInMemory(r) ==
    /\ pc[r] = "store"
    /\ memory' = [memory EXCEPT ![process[r]] = Store(@, subject[r], rev[r], found[r])]
    /\ Goto(r, "ok")
    /\ UNCHANGED <<db, versions, redis, left, process, subject, attempt, leader, rev, found, since>>

\* Redis or PostgreSQL rejects a call: there is no answer from a cache alone.
\* A rejected publish may have been stored.
Unavailable(r) ==
    /\ pc[r] \in {"read", "redis", "recompute", "recheck", "publish"}
    /\ Spend("fault")
    /\ pc' = [q \in Requests |-> IF q \in Settled(r) THEN "unavailable" ELSE pc[q]]
    /\ \/ UNCHANGED redis
       \/ pc[r] = "publish" /\ redis' = Store(redis, subject[r], rev[r], found[r])
    /\ UNCHANGED <<db, memory, versions, process, subject, attempt, leader, rev, found, since>>

-----------------------------------------------------------------------------
Change == BumpInstance \/ \E s \in Subjects : BumpUser(s) \/ ChangeSilently(s)

Evict == \/ \E p \in Processes : Receive(p) \/ LoseNotifications(p) \/ ExpireMemory(p)
         \/ ExpireRedis

Advance(r) == \/ ReadRevision(r) \/ MemoryHit(r) \/ MemoryMiss(r)
              \/ RedisHit(r) \/ RedisMiss(r) \/ Recompute(r) \/ Recheck(r)
              \/ Publish(r) \/ StoreInMemory(r)

Next == Change \/ Evict \/ \E r \in Requests : Arrive(r) \/ Advance(r) \/ Unavailable(r)

\* PostgreSQL and Redis answer; nothing else has to happen.
Fairness == \A r \in Requests : WF_vars(Advance(r))

Spec == Init /\ [][Next]_vars
FairSpec == Spec /\ Fairness

-----------------------------------------------------------------------------
SnapshotType == [subject : Subjects, rev : Vectors, content : Contents]

TypeOK ==
    /\ instanceRevision \in Nat /\ userRevision \in [Subjects -> Nat]
    /\ silent \in [Subjects -> Nat]
    /\ inbox \in [Processes -> Seq(Subjects \cup {"instance"})]
    /\ memory \in [Processes -> SUBSET SnapshotType]
    /\ versions \in [Processes -> SUBSET Subjects]
    /\ redis \in SUBSET SnapshotType
    /\ left \in [{"bump", "silent", "fault"} -> Nat]
    /\ process \in [Requests -> Processes]
    /\ subject \in [Requests -> Subjects]
    /\ pc \in [Requests -> Working \cup Final \cup {"idle"}]
    /\ attempt \in [Requests -> 0..1]
    /\ leader \in [Requests -> Requests]
    /\ rev \in [Requests -> Vectors]
    /\ found \in [Requests -> Contents]
    /\ since \in [Requests -> Contents]

Older(v, w) == v.inst <= w.inst /\ v.user <= w.user

\* A snapshot, in any cache, holds the permissions of exactly the vector it is
\* stored under, however the change, the recompute that missed it and the
\* publication interleave: "nur ein weiterhin aktueller Kandidat" is stored.
SnapshotsMatchRevision ==
    \A e \in redis \cup UNION {memory[p] : p \in Processes} : e.content.rev = e.rev

\* "darf keine danach beginnende Autorisierungsanfrage einen Snapshot der
\* vorherigen Revision verwenden": whatever caches, lost notifications and joined
\* recomputes do, an answer reflects every change that raised a revision and
\* had committed when its request arrived.
SeesRevisedChanges ==
    \A r \in Requests : pc[r] = "ok" => Older(since[r].rev, found[r].rev)

Raised(r) == (Vector(subject[r]).inst - since[r].rev.inst)
               + (Vector(subject[r]).user - since[r].rev.user)

\* Without a fault a request fails only when two changes of its subject commit
\* while it works, although it may have joined a recompute that began earlier.
StaleNeedsTwoChanges ==
    \A r \in Requests : pc[r] = "stale" => Raised(r) >= 2

\* Every request is answered, those that joined the recompute of another one
\* included.
Answered == \A r \in Requests : pc[r] = "read" ~> pc[r] \in Final

\* "TTL und physische Aufbewahrung dürfen keine veraltete Entscheidung
\* erlauben": an answer reflects every change that had committed when its
\* request arrived.
SeesEveryChange ==
    \A r \in Requests : pc[r] = "ok" =>
        /\ Older(since[r].rev, found[r].rev)
        /\ since[r].silent <= found[r].silent
=============================================================================
