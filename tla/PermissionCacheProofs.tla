------------------------ MODULE PermissionCacheProofs ------------------------
(***************************************************************************)
(* Proofs about PermissionCache for any number of processes, subjects,     *)
(* requests, changes and faults.                                           *)
(***************************************************************************)
EXTENDS PermissionCache, TLAPS

LEMMA LeftType ==
    ASSUME TypeOK, NEW k \in {"bump", "silent", "fault"}, Spend(k)
    PROVE  left' \in [{"bump", "silent", "fault"} -> Nat]
BY DEF TypeOK, Spend

LEMMA VectorType ==
    ASSUME TypeOK, NEW s \in Subjects
    PROVE  Vector(s) \in Vectors
BY DEF TypeOK, Vector, Vectors

LEMMA ContentType ==
    ASSUME TypeOK, NEW s \in Subjects
    PROVE  Content(s) \in Contents /\ Content(s).rev = Vector(s)
BY VectorType DEF TypeOK, Content, Contents

LEMMA StoreType ==
    ASSUME NEW cache \in SUBSET SnapshotType, NEW s \in Subjects,
           NEW v \in Vectors, NEW c \in Contents
    PROVE  Store(cache, s, v, c) \in SUBSET SnapshotType
BY DEF Store, Find, Snapshot, SnapshotType

LEMMA InitType == Init => TypeOK
<1> SUFFICES ASSUME Init PROVE TypeOK
  OBVIOUS
<1>1. left \in [{"bump", "silent", "fault"} -> Nat]
  BY PermissionCacheAssumption DEF Init
<1>2. instanceRevision \in Nat /\ userRevision \in [Subjects -> Nat]
  BY DEF Init
<1>3. NoVector \in Vectors /\ NoContent \in Contents
  BY DEF NoVector, NoContent, Vectors, Contents
<1>4. /\ rev \in [Requests -> Vectors]
      /\ found \in [Requests -> Contents]
      /\ since \in [Requests -> Contents]
  BY <1>3 DEF Init
<1>5. pc \in [Requests -> Working \cup Final \cup {"idle"}] /\ attempt \in [Requests -> 0..1]
  BY DEF Init
<1> QED BY <1>1, <1>2, <1>4, <1>5 DEF TypeOK, Init

LEMMA NextType == TypeOK /\ [Next]_vars => TypeOK'
<1> SUFFICES ASSUME TypeOK, [Next]_vars PROVE TypeOK'
  OBVIOUS
<1>1. ASSUME NEW s \in Subjects, BumpUser(s) PROVE TypeOK'
  <2>2. inbox' \in [Processes -> Seq(Subjects \cup {"instance"})]
    BY <1>1 DEF TypeOK, BumpUser, Notify
  <2> QED BY <1>1, <2>2, LeftType DEF TypeOK, BumpUser, caches, request
<1>2. CASE BumpInstance
  <2>2. inbox' \in [Processes -> Seq(Subjects \cup {"instance"})]
    BY <1>2 DEF TypeOK, BumpInstance, Notify
  <2> QED BY <1>2, <2>2, LeftType DEF TypeOK, BumpInstance, caches, request
<1>3. ASSUME NEW s \in Subjects, ChangeSilently(s) PROVE TypeOK'
  BY <1>3, LeftType DEF TypeOK, ChangeSilently, caches, request
<1>4. ASSUME NEW p \in Processes, Receive(p) PROVE TypeOK'
  <2>1. Head(inbox[p]) \in Subjects \cup {"instance"} /\ Tail(inbox[p]) \in Seq(Subjects \cup {"instance"})
    BY <1>4 DEF TypeOK, Receive
  <2>2. Evicted(p) \subseteq Subjects
    BY <2>1 DEF TypeOK, Evicted
  <2>3. versions' \in [Processes -> SUBSET Subjects]
    BY <1>4, <2>2 DEF TypeOK, Receive
  <2>4. memory' \in [Processes -> SUBSET SnapshotType]
    BY <1>4 DEF TypeOK, Receive
  <2> QED BY <1>4, <2>1, <2>3, <2>4 DEF TypeOK, Receive, request
<1>5. ASSUME NEW p \in Processes, LoseNotifications(p) PROVE TypeOK'
  BY <1>5 DEF TypeOK, LoseNotifications, caches, request
<1>6. ASSUME NEW p \in Processes, ExpireMemory(p) PROVE TypeOK'
  BY <1>6 DEF TypeOK, ExpireMemory, db, request
<1>7. CASE ExpireRedis
  BY <1>7 DEF TypeOK, ExpireRedis, db, request
<1>8. ASSUME NEW r \in Requests, Arrive(r) PROVE TypeOK'
  BY <1>8, ContentType DEF TypeOK, Arrive, Goto, Working, db, caches
<1>9. ASSUME NEW r \in Requests, ReadRevision(r) PROVE TypeOK'
  BY <1>9, VectorType DEF TypeOK, ReadRevision, Goto, Working, db, caches
<1>10. ASSUME NEW r \in Requests, MemoryHit(r) PROVE TypeOK'
  <2>1. \A e \in InMemory(r) : e.content \in Contents
    BY DEF TypeOK, InMemory, Find, SnapshotType
  <2> QED BY <1>10, <2>1 DEF TypeOK, MemoryHit, Goto, Final, db, caches
<1>11. ASSUME NEW r \in Requests, MemoryMiss(r) PROVE TypeOK'
  BY <1>11 DEF TypeOK, MemoryMiss, Goto, Working, db, caches
<1>12. ASSUME NEW r \in Requests, RedisHit(r) PROVE TypeOK'
  <2>1. \A e \in InRedis(r) : e.content \in Contents
    BY DEF TypeOK, InRedis, Find, SnapshotType
  <2> QED BY <1>12, <2>1 DEF TypeOK, RedisHit, Goto, Working, db, caches
<1>13. ASSUME NEW r \in Requests, RedisMiss(r) PROVE TypeOK'
  <2>1. PICK q \in Requests, to \in {"recompute", "join"} :
           pc' = [pc EXCEPT ![r] = to] /\ leader' = [leader EXCEPT ![r] = q]
    BY <1>13 DEF RedisMiss, Flights, Goto
  <2> QED BY <1>13, <2>1 DEF TypeOK, RedisMiss, Working, db, caches
<1>14. ASSUME NEW r \in Requests, Discard(r)
       PROVE  /\ pc' \in [Requests -> Working \cup Final \cup {"idle"}]
              /\ attempt' \in [Requests -> 0..1]
              /\ found' \in [Requests -> Contents]
  BY <1>14 DEF TypeOK, Discard, Retry, Working, Final
<1>15. ASSUME NEW r \in Requests, Recompute(r) PROVE TypeOK'
  <2>1. CASE Discard(r)
    BY <1>14, <1>15, <2>1 DEF TypeOK, Recompute, db, caches
  <2>2. CASE ~Discard(r)
    <3>1. /\ pc' = [pc EXCEPT ![r] = "recheck"]
          /\ found' = [found EXCEPT ![r] = Content(subject[r])]
          /\ attempt' = attempt
      BY <1>15, <2>2 DEF Recompute, Goto
    <3>2. Content(subject[r]) \in Contents
      BY ContentType DEF TypeOK
    <3> QED BY <1>15, <3>1, <3>2 DEF TypeOK, Recompute, Working, db, caches
  <2> QED BY <2>1, <2>2
<1>16. ASSUME NEW r \in Requests, Recheck(r) PROVE TypeOK'
  <2>1. CASE Discard(r)
    BY <1>14, <1>16, <2>1 DEF TypeOK, Recheck, db, caches
  <2>2. CASE ~Discard(r)
    BY <1>16, <2>2 DEF TypeOK, Recheck, Working, db, caches
  <2> QED BY <2>1, <2>2
<1>17. ASSUME NEW r \in Requests, Publish(r) PROVE TypeOK'
  BY <1>17, StoreType DEF TypeOK, Publish, Goto, Working, db
<1>18. ASSUME NEW r \in Requests, StoreInMemory(r) PROVE TypeOK'
  BY <1>18, StoreType DEF TypeOK, StoreInMemory, Goto, Final, db
<1>19. ASSUME NEW r \in Requests, Unavailable(r) PROVE TypeOK'
  BY <1>19, StoreType, LeftType DEF TypeOK, Unavailable, Final, db
<1>20. CASE UNCHANGED vars
  BY <1>20 DEF vars, db, caches, request, TypeOK
<1> QED
  BY <1>1, <1>2, <1>3, <1>4, <1>5, <1>6, <1>7, <1>8, <1>9, <1>10, <1>11, <1>12, <1>13,
     <1>15, <1>16, <1>17, <1>18, <1>19, <1>20
     DEF Next, Change, Evict, Advance

\* Every state has the type its variables announce.
THEOREM TypeCorrect == Spec => []TypeOK
<1> QED BY InitType, NextType, PTL DEF Spec

-----------------------------------------------------------------------------
(***************************************************************************)
(* The inductive invariant.  A request never works with a vector older     *)
(* than its arrival or newer than the database; what it publishes was      *)
(* loaded under that vector; a request that has joined a recompute has the *)
(* vector of its leader; and each attempt that is given up has been        *)
(* overtaken by a change.                                                  *)
(***************************************************************************)
Reading == {"lookup", "redis", "recompute", "recheck", "join", "publish", "store"}

Steps(v, w) == (w.inst - v.inst) + (w.user - v.user)

RequestInv(r) ==
    /\ pc[r] = "idle" => attempt[r] = 0
    /\ pc[r] # "idle" => Older(since[r].rev, Vector(subject[r]))
    /\ pc[r] \in Reading => /\ Older(since[r].rev, rev[r])
                            /\ Older(rev[r], Vector(subject[r]))
    /\ pc[r] \in {"recheck", "publish", "store"} => found[r].rev = rev[r]
    /\ pc[r] = "ok" => Older(since[r].rev, found[r].rev)
    /\ pc[r] = "join" => /\ pc[leader[r]] \in {"recompute", "recheck"}
                         /\ subject[leader[r]] = subject[r]
                         /\ rev[leader[r]] = rev[r]
    /\ pc[r] = "read" /\ attempt[r] = 1 => Steps(since[r].rev, Vector(subject[r])) >= 1
    /\ pc[r] \in Reading /\ attempt[r] = 1 => Steps(since[r].rev, rev[r]) >= 1
    /\ pc[r] = "stale" => Steps(since[r].rev, Vector(subject[r])) >= 2

Inv == TypeOK /\ SnapshotsMatchRevision /\ \A r \in Requests : RequestInv(r)

LEMMA VectorFacts ==
    ASSUME NEW v \in Vectors, NEW w \in Vectors
    PROVE  /\ Older(v, v)
           /\ v.inst \in Nat /\ v.user \in Nat
           /\ v = w <=> v.inst = w.inst /\ v.user = w.user
           /\ Steps(v, w) \in Int
           /\ Older(v, w) => Steps(v, w) >= 0
<1>1. v = [inst |-> v.inst, user |-> v.user] /\ w = [inst |-> w.inst, user |-> w.user]
  BY DEF Vectors
<1>2. v.inst = w.inst /\ v.user = w.user => v = w
  BY <1>1
<1> QED BY <1>2 DEF Vectors, Older, Steps

LEMMA OlderTransitive ==
    ASSUME NEW u \in Vectors, NEW v \in Vectors, NEW w \in Vectors, Older(u, v), Older(v, w)
    PROVE  /\ Older(u, w)
           /\ Steps(u, w) >= Steps(u, v)
           /\ Steps(u, w) >= Steps(v, w)
           /\ v # w => Steps(u, w) >= Steps(u, v) + 1
BY DEF Vectors, Older, Steps

\* Vectors only grow.
LEMMA VectorsGrow ==
    ASSUME TypeOK, TypeOK', [Next]_vars, NEW s \in Subjects
    PROVE  Older(Vector(s), Vector(s)')
<1>1. ASSUME NEW t \in Subjects, BumpUser(t) PROVE Older(Vector(s), Vector(s)')
  BY <1>1 DEF BumpUser, TypeOK, Vector, Older
<1>2. CASE BumpInstance
  BY <1>2 DEF BumpInstance, TypeOK, Vector, Older
<1>3. CASE UNCHANGED <<instanceRevision, userRevision>>
  BY <1>3, VectorType, VectorFacts DEF Vector
<1>4. (\E t \in Subjects : BumpUser(t)) \/ BumpInstance \/ UNCHANGED <<instanceRevision, userRevision>>
  BY DEF Next, Change, Evict, Advance, ChangeSilently, Receive, LoseNotifications, ExpireMemory,
     ExpireRedis, Arrive, Unavailable, ReadRevision, MemoryHit, MemoryMiss, RedisHit, RedisMiss,
     Recompute, Recheck, Publish, StoreInMemory, vars, db
<1> QED BY <1>1, <1>2, <1>3, <1>4

\* A request that a step leaves alone keeps its invariant while vectors grow.
LEMMA Undisturbed ==
    ASSUME TypeOK, TypeOK', [Next]_vars, NEW q \in Requests, RequestInv(q),
           pc'[q] = pc[q], attempt'[q] = attempt[q], rev'[q] = rev[q],
           found'[q] = found[q], since'[q] = since[q], subject' = subject,
           leader'[q] = leader[q],
           pc[q] = "join" => /\ pc'[leader[q]] \in {"recompute", "recheck"}
                             /\ rev'[leader[q]] = rev[leader[q]]
    PROVE  RequestInv(q)'
<1> DEFINE s == subject[q]
<1>1. s \in Subjects /\ Vector(s) \in Vectors /\ Vector(s)' \in Vectors
      /\ since[q].rev \in Vectors /\ rev[q] \in Vectors
  BY VectorType DEF TypeOK, Contents, Vector, Vectors
<1>2. Older(Vector(s), Vector(s)')
  BY <1>1, VectorsGrow
<1> HIDE DEF s
<1>3. Older(since[q].rev, Vector(s)) => /\ Older(since[q].rev, Vector(s)')
                                       /\ Steps(since[q].rev, Vector(s)') >= Steps(since[q].rev, Vector(s))
  BY <1>1, <1>2, OlderTransitive
<1>4. Older(rev[q], Vector(s)) => Older(rev[q], Vector(s)')
  BY <1>1, <1>2, OlderTransitive
<1>5. Steps(since[q].rev, Vector(s)) \in Int /\ Steps(since[q].rev, Vector(s)') \in Int
  BY <1>1, VectorFacts
<1>6. Vector(subject[q])' = Vector(s)' /\ subject[q] = s
  BY DEF s
<1> QED BY <1>3, <1>4, <1>5, <1>6 DEF RequestInv


\* What the steps of requests have in common.
LEMMA RequestFacts ==
    ASSUME TypeOK, NEW q \in Requests
    PROVE  /\ subject[q] \in Subjects /\ Vector(subject[q]) \in Vectors
           /\ since[q].rev \in Vectors /\ rev[q] \in Vectors /\ attempt[q] \in 0..1
BY VectorType DEF TypeOK, Contents

\* A step of one request that is not the leader of another.
LEMMA OthersUndisturbed ==
    ASSUME Inv, TypeOK', [Next]_vars, NEW r \in Requests, NEW q \in Requests, q # r,
           NEW to, pc' = [pc EXCEPT ![r] = to],
           pc[r] \in {"recompute", "recheck"} => to \in {"recompute", "recheck"},
           attempt' = attempt, subject' = subject, leader'[q] = leader[q],
           rev' = rev \/ (pc[r] = "read" /\ \A x \in Requests \ {r} : rev'[x] = rev[x]),
           found'[q] = found[q], since'[q] = since[q]
    PROVE  RequestInv(q)'
<1>1. RequestInv(q) /\ TypeOK /\ TypeOK' /\ leader[q] \in Requests
  BY DEF Inv, TypeOK
<1>2. pc'[q] = pc[q] /\ attempt'[q] = attempt[q] /\ rev'[q] = rev[q]
  BY <1>1 DEF TypeOK
<1>3. ASSUME pc[q] = "join"
      PROVE  pc'[leader[q]] \in {"recompute", "recheck"} /\ rev'[leader[q]] = rev[leader[q]]
  <2>1. pc[leader[q]] \in {"recompute", "recheck"}
    BY <1>1, <1>3 DEF RequestInv
  <2>2. pc'[leader[q]] \in {"recompute", "recheck"}
    BY <1>1, <2>1 DEF TypeOK
  <2>3. leader[q] # r \/ rev' = rev
    BY <2>1
  <2> QED BY <1>1, <2>2, <2>3
<1> QED BY <1>1, <1>2, <1>3, Undisturbed

\* The recompute of r is discarded: it has been overtaken by a change.
LEMMA Discarded ==
    ASSUME Inv, TypeOK', [Next]_vars, NEW r \in Requests,
           pc[r] \in {"recompute", "recheck"}, Vector(subject[r]) # rev[r], Discard(r),
           UNCHANGED <<db, process, subject, leader, rev, since>>,
           NEW q \in Requests
    PROVE  RequestInv(q)'
<1>1. RequestInv(q) /\ RequestInv(r) /\ TypeOK
  BY DEF Inv
<1>2. CASE q \in Settled(r)
  <2>1. subject[q] = subject[r] /\ rev[q] = rev[r] /\ pc[q] \in Reading
    BY <1>1, <1>2 DEF Settled, RequestInv, Reading
  <2> DEFINE u == since[q].rev  v == rev[q]  w == Vector(subject[q])
  <2>2. u \in Vectors /\ v \in Vectors /\ w \in Vectors /\ attempt[q] \in 0..1
    BY <1>1, RequestFacts
  <2>3. Older(u, v) /\ Older(v, w) /\ v # w /\ (attempt[q] = 1 => Steps(u, v) >= 1)
    BY <1>1, <2>1 DEF RequestInv
  <2>4. w' = w /\ u' = u
    BY DEF Vector, db
  <2>5. \/ attempt[q] = 0 /\ pc'[q] = "read" /\ attempt'[q] = 1
        \/ attempt[q] = 1 /\ pc'[q] = "stale"
    <3>1. pc'[q] = Retry(q) /\ attempt'[q] = IF Retry(q) # "stale" THEN attempt[q] + 1 ELSE attempt[q]
      BY <1>2 DEF Discard
    <3>2. \/ attempt[q] = 0 /\ Retry(q) = "read"
          \/ attempt[q] = 1 /\ Retry(q) = "stale"
      BY <2>2 DEF Retry
    <3> QED BY <3>1, <3>2
  <2> HIDE DEF u, v, w
  <2>6. Older(u, w) /\ Steps(u, w) >= Steps(u, v) + 1 /\ Steps(u, v) >= 0
        /\ Steps(u, v) \in Int /\ Steps(u, w) \in Int
    BY <2>2, <2>3, OlderTransitive, VectorFacts
  <2>7. Older(u', w') /\ Steps(u', w') >= 1 /\ (attempt[q] = 1 => Steps(u', w') >= 2)
    BY <2>2, <2>3, <2>4, <2>6
  <2>8. u' = since'[q].rev /\ w' = Vector(subject[q])'
    BY DEF u, w
  <2> QED BY <2>5, <2>7, <2>8 DEF RequestInv, Reading
<1>3. CASE q \notin Settled(r)
  <2>1. pc'[q] = pc[q] /\ attempt'[q] = attempt[q] /\ found' = found
    BY <1>3 DEF Discard
  <2>2. ASSUME pc[q] = "join" PROVE pc'[leader[q]] \in {"recompute", "recheck"}
    <3>1. leader[q] \in Requests /\ leader[q] # r /\ pc[leader[q]] \in {"recompute", "recheck"}
      BY <1>1, <1>3, <2>2 DEF Settled, RequestInv, TypeOK
    <3>2. leader[q] \notin Settled(r)
      BY <3>1 DEF Settled
    <3> QED BY <3>1, <3>2 DEF Discard
  <2> QED BY <1>1, <2>1, <2>2, Undisturbed
<1> QED BY <1>2, <1>3


LEMMA RequestStep ==
    ASSUME Inv, TypeOK', [Next]_vars, NEW q \in Requests
    PROVE  RequestInv(q)'
<1>0. TypeOK /\ SnapshotsMatchRevision /\ \A x \in Requests : RequestInv(x)
  BY DEF Inv
<1>1. CASE UNCHANGED request
  <2>1. pc[q] = "join" => pc[leader[q]] \in {"recompute", "recheck"}
    BY <1>0 DEF RequestInv
  <2> QED BY <1>0, <1>1, <2>1, Undisturbed DEF request
<1>2. ASSUME NEW r \in Requests, Arrive(r) PROVE RequestInv(q)'
  <2>1. CASE q = r
    <3>1. pc'[q] = "read" /\ since'[q] = Content(subject[q]) /\ attempt'[q] = 0
      BY <1>0, <1>2, <2>1 DEF Arrive, Goto, TypeOK, RequestInv
    <3>2. Vector(subject[q])' = Vector(subject[q]) /\ since'[q].rev = Vector(subject[q])
      BY <1>0, <1>2, <3>1, ContentType DEF Arrive, db, Vector, TypeOK
    <3>3. Older(Vector(subject[q]), Vector(subject[q]))
      BY <1>0, RequestFacts, VectorFacts
    <3> QED BY <3>1, <3>2, <3>3 DEF RequestInv, Reading
  <2>2. CASE q # r
    <3>1. /\ pc[r] = "idle" /\ pc' = [pc EXCEPT ![r] = "read"] /\ since'[q] = since[q]
          /\ UNCHANGED <<attempt, subject, leader, rev, found>>
      BY <1>0, <1>2, <2>2 DEF Arrive, Goto, TypeOK
    <3> QED BY <2>2, <3>1, OthersUndisturbed
  <2> QED BY <2>1, <2>2
<1>3. ASSUME NEW r \in Requests, ReadRevision(r) PROVE RequestInv(q)'
  <2>1. CASE q = r
    <3>1. pc'[q] = "lookup" /\ rev'[q] = Vector(subject[q]) /\ attempt' = attempt
      BY <1>0, <1>3, <2>1 DEF ReadRevision, Goto, TypeOK
    <3>2. Vector(subject[q])' = Vector(subject[q]) /\ since' = since
      BY <1>3 DEF ReadRevision, db, Vector
    <3>3. Older(Vector(subject[q]), Vector(subject[q]))
      BY <1>0, RequestFacts, VectorFacts
    <3> QED BY <1>0, <1>3, <2>1, <3>1, <3>2, <3>3 DEF RequestInv, Reading, ReadRevision
  <2>2. CASE q # r
    BY <1>0, <1>3, <2>2, OthersUndisturbed DEF ReadRevision, Goto, TypeOK
  <2> QED BY <2>1, <2>2
<1>4. ASSUME NEW r \in Requests, MemoryHit(r) \/ RedisHit(r) PROVE RequestInv(q)'
  <2>1. CASE q = r
    <3>1. PICK e \in redis \cup UNION {memory[p] : p \in Processes} :
             e.rev = rev[q] /\ found'[q] = e.content
      BY <1>0, <1>4, <2>1 DEF MemoryHit, RedisHit, InMemory, InRedis, Find, TypeOK
    <3>2. found'[q].rev = rev[q]
      BY <1>0, <3>1 DEF SnapshotsMatchRevision
    <3>3. pc'[q] \in {"ok", "store"} /\ pc[q] \in Reading
      BY <1>0, <1>4, <2>1 DEF MemoryHit, RedisHit, Goto, TypeOK, Reading
    <3>4. UNCHANGED <<db, subject, attempt, rev, since>>
      BY <1>4 DEF MemoryHit, RedisHit
    <3>5. Vector(subject[q])' = Vector(subject[q])
      BY <3>4 DEF db, Vector
    <3> QED BY <1>0, <3>2, <3>3, <3>4, <3>5 DEF RequestInv, Reading
  <2>2. CASE q # r
    <3>1. /\ pc[r] \in {"lookup", "redis"} /\ found'[q] = found[q]
          /\ UNCHANGED <<attempt, subject, leader, rev, since>>
          /\ (Goto(r, "ok") \/ Goto(r, "store"))
      BY <1>0, <1>4, <2>2 DEF MemoryHit, RedisHit, TypeOK
    <3>2. ASSUME NEW to, Goto(r, to) PROVE RequestInv(q)'
      BY <2>2, <3>1, <3>2, OthersUndisturbed DEF Goto
    <3> QED BY <3>1, <3>2
  <2> QED BY <2>1, <2>2
<1>5. ASSUME NEW r \in Requests, MemoryMiss(r) PROVE RequestInv(q)'
  <2>1. CASE q = r
    <3>1. pc'[q] = "redis" /\ pc[q] = "lookup"
      BY <1>0, <1>5, <2>1 DEF MemoryMiss, Goto, TypeOK
    <3>2. Vector(subject[q])' = Vector(subject[q])
      BY <1>5 DEF MemoryMiss, db, Vector
    <3> QED BY <1>0, <1>5, <3>1, <3>2 DEF RequestInv, Reading, MemoryMiss
  <2>2. CASE q # r
    BY <1>0, <1>5, <2>2, OthersUndisturbed DEF MemoryMiss, Goto
  <2> QED BY <2>1, <2>2
<1>6. ASSUME NEW r \in Requests, RedisMiss(r) PROVE RequestInv(q)'
  <2>0. pc[r] = "redis" /\ UNCHANGED <<db, subject, attempt, rev, found, since>>
    BY <1>6 DEF RedisMiss
  <2>1. CASE q = r
    <3>1. \/ pc'[q] = "recompute"
          \/ \E l \in Flights(r) : pc'[q] = "join" /\ leader'[q] = l /\ pc'[l] = pc[l]
      <4>1. CASE \E l \in Flights(r) : Goto(r, "join") /\ leader' = [leader EXCEPT ![r] = l]
        <5>1. PICK l \in Flights(r) : Goto(r, "join") /\ leader' = [leader EXCEPT ![r] = l]
          BY <4>1
        <5>2. l \in Requests /\ l # r
          BY <2>0 DEF Flights
        <5> QED BY <1>0, <2>1, <5>1, <5>2 DEF Goto, TypeOK
      <4>2. CASE Goto(r, "recompute")
        BY <1>0, <2>1, <4>2 DEF Goto, TypeOK
      <4> QED BY <1>6, <4>1, <4>2 DEF RedisMiss
    <3>2. Vector(subject[q])' = Vector(subject[q])
      BY <2>0 DEF db, Vector
    <3>3. pc'[q] = "join" => /\ pc'[leader'[q]] \in {"recompute", "recheck"}
                             /\ subject[leader'[q]] = subject[q]
                             /\ rev[leader'[q]] = rev[q]
      BY <2>1, <3>1 DEF Flights
    <3>4. pc'[q] \in {"recompute", "join"}
      BY <3>1
    <3> QED BY <1>0, <2>0, <2>1, <3>2, <3>3, <3>4 DEF RequestInv, Reading
  <2>2. CASE q # r
    <3>1. (Goto(r, "recompute") \/ Goto(r, "join")) /\ leader'[q] = leader[q]
      BY <1>0, <1>6, <2>2 DEF RedisMiss, TypeOK
    <3> QED BY <2>0, <2>2, <3>1, OthersUndisturbed DEF Goto
  <2> QED BY <2>1, <2>2
<1>7. ASSUME NEW r \in Requests, Recompute(r) PROVE RequestInv(q)'
  <2>0. pc[r] = "recompute" /\ UNCHANGED <<db, process, subject, leader, rev, since>>
    BY <1>7 DEF Recompute
  <2>1. CASE Vector(subject[r]) # rev[r]
    <3>1. Discard(r)
      BY <1>7, <2>1 DEF Recompute
    <3> QED BY <2>0, <2>1, <3>1, Discarded
  <2>2. CASE Vector(subject[r]) = rev[r]
    <3>0. /\ Goto(r, "recheck") /\ attempt' = attempt
          /\ found' = [found EXCEPT ![r] = Content(subject[r])]
      BY <1>7, <2>2 DEF Recompute
    <3>1. CASE q = r
      <4>1. pc'[q] = "recheck" /\ found'[q].rev = rev[q]
        BY <1>0, <2>2, <3>0, <3>1, ContentType DEF Goto, TypeOK
      <4>2. Vector(subject[q])' = Vector(subject[q])
        BY <2>0 DEF db, Vector
      <4> QED BY <1>0, <2>0, <3>0, <3>1, <4>1, <4>2 DEF RequestInv, Reading
    <3>2. CASE q # r
      BY <1>0, <2>0, <3>0, <3>2, OthersUndisturbed DEF Goto, TypeOK
    <3> QED BY <3>1, <3>2
  <2> QED BY <2>1, <2>2
<1>8. ASSUME NEW r \in Requests, Recheck(r) PROVE RequestInv(q)'
  <2>0. pc[r] = "recheck" /\ UNCHANGED <<db, process, subject, leader, rev, since>>
    BY <1>8 DEF Recheck
  <2>1. CASE Vector(subject[r]) # rev[r]
    <3>1. Discard(r)
      BY <1>8, <2>1 DEF Recheck
    <3> QED BY <2>0, <2>1, <3>1, Discarded
  <2>2. CASE Vector(subject[r]) = rev[r]
    <3>0. /\ pc' = [x \in Requests |-> IF x \in Settled(r) THEN "publish" ELSE pc[x]]
          /\ found' = [x \in Requests |-> IF x \in Settled(r) THEN found[r] ELSE found[x]]
          /\ attempt' = attempt
      BY <1>8, <2>2 DEF Recheck
    <3>1. CASE q \in Settled(r)
      <4>1. pc'[q] = "publish" /\ found'[q] = found[r] /\ rev[q] = rev[r] /\ pc[q] \in Reading
        BY <1>0, <2>0, <3>0, <3>1 DEF Settled, RequestInv, Reading
      <4>2. found'[q].rev = rev[q]
        BY <1>0, <2>0, <4>1 DEF RequestInv
      <4>3. Vector(subject[q])' = Vector(subject[q])
        BY <2>0 DEF db, Vector
      <4> QED BY <1>0, <2>0, <3>0, <4>1, <4>2, <4>3 DEF RequestInv, Reading
    <3>2. CASE q \notin Settled(r)
      <4>1. pc'[q] = pc[q] /\ found'[q] = found[q]
        BY <3>0, <3>2
      <4>2. ASSUME pc[q] = "join" PROVE pc'[leader[q]] \in {"recompute", "recheck"}
        <5>1. leader[q] \in Requests /\ leader[q] # r /\ pc[leader[q]] \in {"recompute", "recheck"}
          BY <1>0, <3>2, <4>2 DEF Settled, RequestInv, TypeOK
        <5>2. leader[q] \notin Settled(r)
          BY <5>1 DEF Settled
        <5> QED BY <3>0, <5>1, <5>2
      <4> QED BY <1>0, <2>0, <3>0, <4>1, <4>2, Undisturbed
    <3> QED BY <3>1, <3>2
  <2> QED BY <2>1, <2>2
<1>9. ASSUME NEW r \in Requests, Publish(r) \/ StoreInMemory(r) PROVE RequestInv(q)'
  <2>0. /\ pc[r] \in {"publish", "store"} /\ UNCHANGED <<db, subject, attempt, leader, rev, found, since>>
        /\ \/ Goto(r, "store") /\ pc[r] = "publish"
           \/ Goto(r, "ok") /\ pc[r] = "store"
    BY <1>9 DEF Publish, StoreInMemory
  <2>1. CASE q = r
    <3>1. pc'[q] \in {"store", "ok"} /\ pc[q] \in {"publish", "store"} /\ found[q].rev = rev[q]
      BY <1>0, <2>0, <2>1 DEF Goto, TypeOK, RequestInv
    <3>2. Vector(subject[q])' = Vector(subject[q])
      BY <2>0 DEF db, Vector
    <3> QED BY <1>0, <2>0, <3>1, <3>2 DEF RequestInv, Reading
  <2>2. CASE q # r
    BY <2>0, <2>2, OthersUndisturbed DEF Goto
  <2> QED BY <2>1, <2>2
<1>10. ASSUME NEW r \in Requests, Unavailable(r) PROVE RequestInv(q)'
  <2>0. /\ UNCHANGED <<db, subject, attempt, leader, rev, found, since>>
        /\ pc' = [x \in Requests |-> IF x \in Settled(r) THEN "unavailable" ELSE pc[x]]
        /\ pc[r] # "idle"
    BY <1>10 DEF Unavailable
  <2>1. CASE q \in Settled(r)
    <3>1. pc'[q] = "unavailable" /\ pc[q] # "idle"
      BY <2>0, <2>1 DEF Settled
    <3>2. Vector(subject[q])' = Vector(subject[q])
      BY <2>0 DEF db, Vector
    <3> QED BY <1>0, <2>0, <3>1, <3>2 DEF RequestInv, Reading
  <2>2. CASE q \notin Settled(r)
    <3>1. pc'[q] = pc[q]
      BY <2>0, <2>2
    <3>2. ASSUME pc[q] = "join" PROVE pc'[leader[q]] \in {"recompute", "recheck"}
      <4>1. leader[q] \in Requests /\ leader[q] # r /\ pc[leader[q]] \in {"recompute", "recheck"}
        BY <1>0, <2>2, <3>2 DEF Settled, RequestInv, TypeOK
      <4>2. leader[q] \notin Settled(r)
        BY <4>1 DEF Settled
      <4> QED BY <2>0, <4>1, <4>2
    <3> QED BY <1>0, <2>0, <3>1, <3>2, Undisturbed
  <2> QED BY <2>1, <2>2
<1>11. Change \/ Evict \/ UNCHANGED vars => UNCHANGED request
  BY DEF Change, Evict, BumpInstance, BumpUser, ChangeSilently, Receive, LoseNotifications,
     ExpireMemory, ExpireRedis, vars
<1> QED BY <1>1, <1>2, <1>3, <1>4, <1>5, <1>6, <1>7, <1>8, <1>9, <1>10, <1>11 DEF Next, Advance

LEMMA SnapshotStep ==
    ASSUME Inv, TypeOK', [Next]_vars
    PROVE  SnapshotsMatchRevision'
<1>0. TypeOK /\ SnapshotsMatchRevision /\ \A x \in Requests : RequestInv(x)
  BY DEF Inv
<1>1. ASSUME NEW r \in Requests, pc[r] \in {"publish", "store"}
      PROVE  found[r].rev = rev[r]
  BY <1>0, <1>1 DEF RequestInv
<1>2. /\ \A e \in redis : e.content.rev = e.rev
      /\ \A p \in Processes : \A e \in memory[p] : e.content.rev = e.rev
  BY <1>0 DEF SnapshotsMatchRevision
<1>3. redis' \subseteq redis \/ \E r \in Requests :
          pc[r] = "publish" /\ redis' = Store(redis, subject[r], rev[r], found[r])
  BY DEF Next, Change, Evict, Advance, BumpInstance, BumpUser, ChangeSilently, Receive,
     LoseNotifications, ExpireMemory, ExpireRedis, Arrive, Unavailable, ReadRevision, MemoryHit,
     MemoryMiss, RedisHit, RedisMiss, Recompute, Recheck, Publish, StoreInMemory, vars, caches
<1>4. \/ \A p \in Processes : memory'[p] \subseteq memory[p]
      \/ \E r \in Requests : StoreInMemory(r)
  <2>1. ASSUME NEW p \in Processes, Receive(p) \/ ExpireMemory(p), NEW x \in Processes
        PROVE  memory'[x] \subseteq memory[x]
    <3>1. PICK kept : memory' = [memory EXCEPT ![p] = kept] /\ kept \subseteq memory[p]
      BY <1>0, <2>1 DEF Receive, ExpireMemory, TypeOK
    <3> QED BY <1>0, <3>1 DEF TypeOK
  <2>2. CASE UNCHANGED memory
    BY <2>2
  <2> QED
    BY <2>1, <2>2 DEF Next, Change, Evict, Advance, BumpInstance, BumpUser, ChangeSilently,
       LoseNotifications, ExpireRedis, Arrive, Unavailable, ReadRevision, MemoryHit, MemoryMiss,
       RedisHit, RedisMiss, Recompute, Recheck, Publish, vars, caches
<1>5. \A e \in redis' : e.content.rev = e.rev
  <2>1. CASE redis' \subseteq redis
    BY <1>2, <2>1
  <2>2. ASSUME NEW r \in Requests, pc[r] = "publish",
               redis' = Store(redis, subject[r], rev[r], found[r])
        PROVE  \A e \in redis' : e.content.rev = e.rev
    BY <1>1, <1>2, <2>2 DEF Store, Snapshot
  <2> QED BY <1>3, <2>1, <2>2
<1>6. \A p \in Processes : \A e \in memory'[p] : e.content.rev = e.rev
  <2>1. ASSUME NEW r \in Requests, StoreInMemory(r), NEW p \in Processes
        PROVE  \A e \in memory'[p] : e.content.rev = e.rev
    <3>1. pc[r] = "store"
      BY <2>1 DEF StoreInMemory
    <3>2. CASE p = process[r]
      <4>1. memory'[p] = Store(memory[p], subject[r], rev[r], found[r])
        BY <1>0, <2>1, <3>2 DEF StoreInMemory, TypeOK
      <4> QED BY <1>1, <1>2, <3>1, <4>1 DEF Store, Snapshot
    <3>3. CASE p # process[r]
      <4>1. memory'[p] = memory[p]
        BY <1>0, <2>1, <3>3 DEF StoreInMemory, TypeOK
      <4> QED BY <1>2, <4>1
    <3> QED BY <3>2, <3>3
  <2> QED BY <1>2, <1>4, <2>1
<1> QED BY <1>5, <1>6 DEF SnapshotsMatchRevision

LEMMA InvInductive == Spec => []Inv
<1>1. Init => Inv
  <2> SUFFICES ASSUME Init PROVE Inv
    OBVIOUS
  <2>1. TypeOK
    BY InitType
  <2>2. SnapshotsMatchRevision
    BY DEF Init, SnapshotsMatchRevision
  <2>3. \A r \in Requests : RequestInv(r)
    BY DEF Init, RequestInv, Reading
  <2> QED BY <2>1, <2>2, <2>3 DEF Inv
<1>2. Inv /\ [Next]_vars => Inv'
  <2> SUFFICES ASSUME Inv, [Next]_vars PROVE Inv'
    OBVIOUS
  <2>1. TypeOK'
    BY NextType DEF Inv
  <2> QED BY <2>1, SnapshotStep, RequestStep DEF Inv
<1> QED BY <1>1, <1>2, PTL DEF Spec

\* A snapshot holds the permissions of exactly the revisions it is stored
\* under, in every cache and at any moment.
THEOREM SnapshotsCorrect == Spec => []SnapshotsMatchRevision
<1>1. Inv => SnapshotsMatchRevision
  BY DEF Inv
<1> QED BY <1>1, InvInductive, PTL

\* An answer reflects every revised change that had committed on arrival.
THEOREM AnswersCurrent == Spec => []SeesRevisedChanges
<1>1. Inv => SeesRevisedChanges
  BY DEF Inv, RequestInv, SeesRevisedChanges
<1> QED BY <1>1, InvInductive, PTL

\* A request that no fault hits fails only if two changes overtake it.
THEOREM StaleExcused == Spec => []StaleNeedsTwoChanges
<1>1. Inv => StaleNeedsTwoChanges
  BY DEF Inv, RequestInv, StaleNeedsTwoChanges, Raised, Steps
<1> QED BY <1>1, InvInductive, PTL
=============================================================================
