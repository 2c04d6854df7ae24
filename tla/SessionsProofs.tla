--------------------------- MODULE SessionsProofs ---------------------------
(***************************************************************************)
(* Proofs about Sessions, for any number of sessions, requests, processes   *)
(* and administrative operations and any lifetimes.                        *)
(***************************************************************************)
EXTENDS Sessions, TLAPS

Logins == {Idle} \cup [pc : {"stamped"}, issued : 0..MaxTime]
                 \cup [pc : {"read", "stored"}, rec : Record]
States == {Idle} \cup Pending \cup Admitted
Operations == {Idle, [pc |-> "list"]}
                 \cup [pc : {"deleting"}, ids : SUBSET SessionIds]
                 \cup [pc : {"write"}, mode : Modes, seen : Control,
                     began : 0..MaxTime, since : Nat]

RedisOK ==
    /\ store \in [SessionIds -> Record \cup {None}]
    /\ index \in [ids : SUBSET SessionIds, until : 0..MaxTime + SessionTTL + Buffer]
    /\ control \in Control

HistoryOK ==
    /\ revokedAt \in Seq(0..MaxTime)
    /\ blockedAt \in -1..MaxTime /\ barred \in 0..Len(revokedAt) /\ lost \in Nat

LEMMA TypeParts ==
  TypeOK <=> /\ RedisOK /\ HistoryOK
             /\ cache \in [Processes -> 0..MaxTime + TTL]
             /\ now \in 0..MaxTime /\ writes \in 0..MaxWrites
             /\ login \in [SessionIds -> Logins]
             /\ request \in [Requests -> States]
             /\ writer \in [Writers -> Operations]
  BY DEF TypeOK, RedisOK, HistoryOK, Logins, States, Operations

LEMMA NextTypeParts ==
  TypeOK' <=> /\ RedisOK' /\ HistoryOK'
              /\ cache' \in [Processes -> 0..MaxTime + TTL]
              /\ now' \in 0..MaxTime /\ writes' \in 0..MaxWrites
              /\ login' \in [SessionIds -> Logins]
              /\ request' \in [Requests -> States]
              /\ writer' \in [Writers -> Operations]
  BY DEF TypeOK, RedisOK, HistoryOK, Logins, States, Operations

-----------------------------------------------------------------------------
(***************************************************************************)
(* The shape of a request, a login and an operation follows from its pc.    *)
(***************************************************************************)
LEMMA PendingShape ==
  ASSUME TypeOK, NEW r \in Requests, request[r].pc \in Stages
  PROVE  request[r] \in Pending
  <1>1. request[r] \in States BY TypeParts
  <1>2. request[r] # Idle /\ request[r] \notin Admitted BY DEF Idle, Admitted, Stages
  <1> QED BY <1>1, <1>2 DEF States

LEMMA LoginShape ==
  ASSUME TypeOK, NEW s \in SessionIds, login[s].pc \in {"read", "stored"}
  PROVE  login[s].rec \in Record
  <1>1. login[s] \in Logins BY TypeParts
  <1> QED BY <1>1 DEF Logins, Idle

LEMMA StampedShape ==
  ASSUME TypeOK, NEW s \in SessionIds, login[s].pc = "stamped"
  PROVE  login[s].issued \in 0..MaxTime
  <1>1. login[s] \in Logins BY TypeParts
  <1> QED BY <1>1 DEF Logins, Idle

LEMMA WriteShape ==
  ASSUME TypeOK, NEW w \in Writers, writer[w].pc = "write"
  PROVE  writer[w] \in [pc : {"write"}, mode : Modes, seen : Control,
                     began : 0..MaxTime, since : Nat]
  <1>1. writer[w] \in Operations BY TypeParts
  <1> QED BY <1>1 DEF Operations, Idle

LEMMA DeletingShape ==
  ASSUME TypeOK, NEW w \in Writers, writer[w].pc = "deleting"
  PROVE  writer[w] \in [pc : {"deleting"}, ids : SUBSET SessionIds]
  <1>1. writer[w] \in Operations BY TypeParts
  <1> QED BY <1>1 DEF Operations, Idle

LEMMA StoreShape ==
  ASSUME TypeOK, NEW s \in SessionIds, store[s] # None
  PROVE  store[s] \in Record
  BY TypeParts DEF RedisOK

-----------------------------------------------------------------------------
(***************************************************************************)
(* The pieces the actions are made of keep the types.                      *)
(***************************************************************************)
LEMMA IndexType ==
  ASSUME TypeOK, NEW ids \in SUBSET SessionIds
  PROVE  IndexOf(ids) \in [ids : SUBSET SessionIds, until : 0..MaxTime + SessionTTL + Buffer]
  <1>1. 0 \in 0..MaxTime + SessionTTL + Buffer BY TimesAssumption
  <1> QED BY <1>1, TypeParts DEF RedisOK, IndexOf

LEMMA DeleteType ==
  ASSUME TypeOK, NEW D \in SUBSET SessionIds, Delete(D)
  PROVE  RedisOK'
  <1>1. index.ids \ {s \in D : store[s] # None} \in SUBSET SessionIds BY TypeParts DEF RedisOK
  <1>2. index' \in [ids : SUBSET SessionIds, until : 0..MaxTime + SessionTTL + Buffer]
    BY <1>1, IndexType DEF Delete
  <1> QED BY <1>2, TypeParts DEF RedisOK, Delete, StoreWithout

LEMMA DeleteIfExpiredType ==
  ASSUME TypeOK, NEW s \in SessionIds, DeleteIfExpired(s)
  PROVE  RedisOK'
  <1>1. CASE Expired(s)
    <2>1. Delete({s}) BY <1>1 DEF DeleteIfExpired
    <2> QED BY <2>1, DeleteType
  <1>2. CASE ~Expired(s)
    <2>1. UNCHANGED redis BY <1>2 DEF DeleteIfExpired
    <2>2. RedisOK BY TypeParts
    <2> QED BY <2>1, <2>2 DEF RedisOK, redis
  <1> QED BY <1>1, <1>2

LEMMA PutType ==
  ASSUME TypeOK, NEW s \in SessionIds, NEW rec \in Record,
         store' = [store EXCEPT ![s] = rec], AddToIndex(s, rec), UNCHANGED control
  PROVE  RedisOK'
  <1>1. RedisOK BY TypeParts
  <1>2. rec.expires + Buffer \in 0..MaxTime + SessionTTL + Buffer BY TimesAssumption DEF Record
  <1> QED BY <1>1, <1>2 DEF RedisOK, AddToIndex

LEMMA GotoType ==
  ASSUME TypeOK, NEW r \in Requests, request[r] \in Pending, NEW pc \in Stages, Goto(r, pc)
  PROVE  request' \in [Requests -> States]
  <1>1. request \in [Requests -> States] BY TypeParts
  <1>2. 0 \in 0..MaxTime /\ None \in Control BY TimesAssumption DEF Control
  <1>3. [request[r] EXCEPT !.pc = pc, !.at = 0, !.control = None] \in Pending
    BY <1>2 DEF Pending
  <1>4. request' = [request EXCEPT ![r] =
                      [request[r] EXCEPT !.pc = pc, !.at = 0, !.control = None]]
    BY <1>1 DEF Goto
  <1> QED BY <1>1, <1>3, <1>4 DEF States

LEMMA LetInType ==
  ASSUME TypeOK, NEW r \in Requests, request[r] \in Pending, LetIn(r)
  PROVE  request' \in [Requests -> States]
  <1>1. request \in [Requests -> States] BY TypeParts
  <1>2. [pc |-> "in", started |-> request[r].started, issued |-> request[r].rec.issued,
         epoch |-> request[r].rec.epoch, era |-> request[r].rec.era] \in Admitted
    BY DEF Pending, Admitted, Record
  <1> QED BY <1>1, <1>2 DEF States, LetIn

LEMMA TurnAwayType ==
  ASSUME TypeOK, NEW r \in Requests, TurnAway(r)
  PROVE  request' \in [Requests -> States]
  BY TypeParts DEF TurnAway, States

LEMMA PassesType ==
  ASSUME TypeOK, NEW r \in Requests, request[r] \in Pending, Passes(r)
  PROVE  request' \in [Requests -> States]
  BY GotoType, LetInType DEF Passes, Stages

LEMMA RefreshFailedType ==
  ASSUME TypeOK, NEW r \in Requests, request[r] \in Pending, RefreshFailed(r)
  PROVE  RedisOK' /\ request' \in [Requests -> States]
  <1>1. request[r].session \in SessionIds BY DEF Pending
  <1>2. CASE Delete({request[r].session}) /\ TurnAway(r)
    BY <1>1, <1>2, DeleteType, TurnAwayType
  <1>3. CASE UNCHANGED redis /\ LetIn(r)
    <2>1. RedisOK BY TypeParts
    <2>2. RedisOK' BY <1>3, <2>1 DEF RedisOK, redis
    <2> QED BY <1>3, <2>2, LetInType
  <1> QED BY <1>2, <1>3 DEF RefreshFailed

-----------------------------------------------------------------------------
LEMMA InitType == Init => TypeOK
  <1> SUFFICES ASSUME Init PROVE TypeOK OBVIOUS
  <1>1. RedisOK BY TimesAssumption DEF Init, RedisOK, Control
  <1>2. HistoryOK
    <2>1. revokedAt \in Seq(0..MaxTime) BY DEF Init
    <2>2. -1 \in -1..MaxTime /\ 0 \in 0..Len(revokedAt) BY <2>1, TimesAssumption DEF Init
    <2> QED BY <2>1, <2>2 DEF Init, HistoryOK
  <1>3. /\ cache \in [Processes -> 0..MaxTime + TTL]
        /\ now \in 0..MaxTime /\ writes \in 0..MaxWrites
    BY TimesAssumption DEF Init
  <1>4. /\ login \in [SessionIds -> Logins]
        /\ request \in [Requests -> States]
        /\ writer \in [Writers -> Operations]
    BY DEF Init, Logins, States, Operations
  <1> QED BY <1>1, <1>2, <1>3, <1>4, TypeParts

LEMMA LoginTypes ==
  ASSUME TypeOK, NEW s \in SessionIds, LoginStarts(s) \/ LoginStep(s) \/ Logout(s)
  PROVE  TypeOK'
  <1> USE DEF vars, redis, history
  <1>1. CASE LoginStarts(s)
    <2>0. index.ids \ {s} \in SUBSET SessionIds BY TypeParts DEF RedisOK
    <2>1. RedisOK' BY <1>1, <2>0, IndexType, TypeParts DEF LoginStarts, RedisOK
    <2>2. login' \in [SessionIds -> Logins] BY <1>1, TypeParts, NextTypeParts DEF LoginStarts, Logins
    <2>3. ASSUME NEW w \in Writers, writer[w].pc = "deleting"
          PROVE  [writer[w] EXCEPT !.ids = @ \ {s}] \in Operations
      BY <2>3, DeletingShape DEF Operations
    <2>4. writer' \in [Writers -> Operations] BY <1>1, <2>3, TypeParts, NextTypeParts DEF LoginStarts
    <2> QED BY <1>1, <2>1, <2>2, <2>4, TypeParts, NextTypeParts DEF LoginStarts, HistoryOK
  <1>2. CASE LoginReads(s)
    <2>1. login[s].issued \in 0..MaxTime BY <1>2, StampedShape DEF LoginReads
    <2>2. Len(revokedAt) \in Nat /\ lost \in Nat BY TypeParts, NextTypeParts DEF HistoryOK
    <2>3. (IF control = None THEN 1 ELSE control.min) \in Nat \ {0}
      BY TypeParts, NextTypeParts DEF RedisOK, Control
    <2>4. login[s].issued + Least(TokenTTL, SessionTTL) \in 0..MaxTime + SessionTTL
      BY <2>1, TimesAssumption DEF Least
    <2>5. login' \in [SessionIds -> Logins]
      BY <1>2, <2>1, <2>2, <2>3, <2>4, TypeParts, NextTypeParts DEF LoginReads, Logins, Record
    <2> QED BY <1>2, <2>5, TypeParts, NextTypeParts DEF LoginReads, RedisOK, HistoryOK
  <1>3. CASE LoginStores(s)
    <2>1. login[s].rec \in Record /\ login[s] \in [pc : {"read", "stored"}, rec : Record]
      <3>1. login[s] \in Logins BY TypeParts, NextTypeParts
      <3> QED BY <1>3, <3>1 DEF LoginStores, Logins, Idle
    <2>2. RedisOK' BY <1>3, <2>1, TypeParts, NextTypeParts DEF LoginStores, Put, RedisOK
    <2>3. login' \in [SessionIds -> Logins] BY <1>3, <2>1, TypeParts, NextTypeParts DEF LoginStores, Logins
    <2> QED BY <1>3, <2>2, <2>3, TypeParts, NextTypeParts DEF LoginStores, HistoryOK
  <1>4. CASE LoginIndexes(s)
    <2>1. login[s].rec.expires + Buffer \in 0..MaxTime + SessionTTL + Buffer
      BY <1>4, LoginShape, TimesAssumption DEF LoginIndexes, Record
    <2>2. RedisOK' BY <1>4, <2>1, TypeParts, NextTypeParts DEF LoginIndexes, AddToIndex, RedisOK
    <2>3. login' \in [SessionIds -> Logins] BY <1>4, TypeParts, NextTypeParts DEF LoginIndexes, Logins
    <2> QED BY <1>4, <2>2, <2>3, TypeParts, NextTypeParts DEF LoginIndexes, HistoryOK
  <1>5. CASE Logout(s)
    <2>1. RedisOK' BY <1>5, DeleteType DEF Logout
    <2> QED BY <1>5, <2>1, TypeParts, NextTypeParts DEF Logout, HistoryOK
  <1> QED BY <1>1, <1>2, <1>3, <1>4, <1>5 DEF LoginStep

LEMMA RequestTypes ==
  ASSUME TypeOK, NEW r \in Requests, RequestStep(r) \/ GrantFails(r)
  PROVE  TypeOK'
  <1> USE DEF redis, history
  <1>0. request[r] \in Pending
    BY PendingShape DEF RequestStep, GrantFails, CacheHit, CacheMiss, ReadControl, Judge,
       DeleteRefused, Reread, UpdateReads, UpdateWrites, Stages
  <1>01. request[r].process \in Processes /\ request[r].session \in SessionIds
         /\ request[r].rec \in Record /\ request[r].at \in 0..MaxTime
    BY <1>0 DEF Pending
  <1>1. CASE CacheHit(r)
    BY <1>0, <1>1, PassesType, TypeParts, NextTypeParts DEF CacheHit, RedisOK, HistoryOK
  <1>2. CASE CacheMiss(r)
    <2>1. [request[r] EXCEPT !.pc = "ask", !.at = now] \in Pending
      BY <1>0, TypeParts, NextTypeParts DEF Pending, Stages
    <2>2. request' = [request EXCEPT ![r] = [request[r] EXCEPT !.pc = "ask", !.at = now]]
      BY <1>2, TypeParts, NextTypeParts DEF CacheMiss
    <2>3. request' \in [Requests -> States] BY <2>1, <2>2, TypeParts, NextTypeParts DEF States
    <2>4. cache' \in [Processes -> 0..MaxTime + TTL]
      BY <1>2, <1>01, TypeParts, NextTypeParts, TimesAssumption DEF CacheMiss
    <2> QED BY <1>2, <2>3, <2>4, TypeParts, NextTypeParts DEF CacheMiss, RedisOK, HistoryOK
  <1>3. CASE ReadControl(r)
    <2>0. control \in Control BY TypeParts, NextTypeParts DEF RedisOK
    <2>1. [request[r] EXCEPT !.pc = "judge", !.control = control] \in Pending
      BY <1>0, <2>0 DEF Pending, Stages
    <2>2. request' = [request EXCEPT ![r] = [request[r] EXCEPT !.pc = "judge", !.control = control]]
      BY <1>3, TypeParts, NextTypeParts DEF ReadControl
    <2>3. request' \in [Requests -> States] BY <2>1, <2>2, TypeParts, NextTypeParts DEF States
    <2> QED BY <1>3, <2>3, TypeParts, NextTypeParts DEF ReadControl, RedisOK, HistoryOK
  <1>4. CASE Judge(r)
    <2>1. request' \in [Requests -> States]
      BY <1>0, <1>4, GotoType, PassesType DEF Judge, Stages
    <2>2. request[r].at + TTL \in 0..MaxTime + TTL BY <1>01, TimesAssumption
    <2>3. cache' \in [Processes -> 0..MaxTime + TTL]
      BY <1>4, <1>01, <2>2, TypeParts, NextTypeParts, TimesAssumption DEF Judge
    <2> QED BY <1>4, <2>1, <2>3, TypeParts, NextTypeParts DEF Judge, RedisOK, HistoryOK
  <1>5. CASE DeleteRefused(r)
    <2>1. RedisOK' BY <1>5, <1>01, DeleteType DEF DeleteRefused
    <2>2. request' \in [Requests -> States] BY <1>5, TurnAwayType DEF DeleteRefused
    <2> QED BY <1>5, <2>1, <2>2, TypeParts, NextTypeParts DEF DeleteRefused, HistoryOK
  <1>6. CASE Reread(r)
    <2> DEFINE s == request[r].session
    <2>1. RedisOK' BY <1>6, <1>01, DeleteIfExpiredType DEF Reread
    <2>2. ASSUME Serves(s)
          PROVE  request' \in [Requests -> States]
      <3>1. store[s] \in Record BY <1>01, <2>2, StoreShape DEF Serves
      <3>2. CASE request' = [request EXCEPT ![r].pc = "grant", ![r].rec = store[s]]
        <4>1. [request[r] EXCEPT !.pc = "grant", !.rec = store[s]] \in Pending
          BY <1>0, <3>1 DEF Pending, Stages
        <4>2. request' = [request EXCEPT ![r] = [request[r] EXCEPT !.pc = "grant", !.rec = store[s]]]
          BY <3>2, TypeParts, NextTypeParts
        <4> QED BY <4>1, <4>2, TypeParts, NextTypeParts DEF States
      <3>3. CASE request' = [request EXCEPT ![r] = [pc |-> "in", started |-> @.started,
                                 issued |-> store[s].issued, epoch |-> store[s].epoch,
                                 era |-> store[s].era]]
        <4>1. [pc |-> "in", started |-> request[r].started, issued |-> store[s].issued,
               epoch |-> store[s].epoch, era |-> store[s].era] \in Admitted
          BY <1>0, <3>1 DEF Pending, Admitted, Record
        <4> QED BY <3>3, <4>1, TypeParts, NextTypeParts DEF States
      <3> QED BY <1>6, <2>2, <3>2, <3>3 DEF Reread
    <2>3. ASSUME ~Serves(s)
          PROVE  request' \in [Requests -> States]
      BY <1>6, <2>3, TurnAwayType DEF Reread
    <2> QED BY <1>6, <2>1, <2>2, <2>3, TypeParts, NextTypeParts DEF Reread, HistoryOK
  <1>7. CASE UpdateReads(r)
    <2> DEFINE s == request[r].session
    <2>1. CASE Serves(s)
      <3>1. store[s] \in Record BY <1>01, <2>1, StoreShape DEF Serves
      <3>2. [request[r] EXCEPT !.pc = "write", !.rec = store[s], !.at = now] \in Pending
        BY <1>0, <3>1, TypeParts DEF Pending, Stages, HistoryOK
      <3>3. request' = [request EXCEPT ![r] = [request[r] EXCEPT !.pc = "write", !.rec = store[s], !.at = now]]
        BY <1>7, <2>1, TypeParts, NextTypeParts DEF UpdateReads
      <3>4. request' \in [Requests -> States] BY <3>2, <3>3, TypeParts, NextTypeParts DEF States
      <3> QED BY <1>7, <2>1, <3>4, TypeParts, NextTypeParts DEF UpdateReads, RedisOK, HistoryOK
    <2>2. CASE ~Serves(s)
      <3>1. RedisOK' /\ request' \in [Requests -> States]
        BY <1>0, <1>7, <2>2, RefreshFailedType DEF UpdateReads
      <3> QED BY <1>7, <3>1, TypeParts, NextTypeParts DEF UpdateReads, HistoryOK
    <2> QED BY <2>1, <2>2
  <1>8. CASE UpdateWrites(r)
    <2> DEFINE rec == [request[r].rec EXCEPT
                         !.expires = Least(request[r].at + TokenTTL, request[r].rec.issued + SessionTTL)]
    <2>1. Least(request[r].at + TokenTTL, request[r].rec.issued + SessionTTL) \in 0..MaxTime + SessionTTL
      BY <1>0, <1>01, TypeParts, NextTypeParts, TimesAssumption DEF Least, Record, Pending
    <2>2. rec \in Record BY <1>01, <2>1 DEF Record
    <2>3. RedisOK' BY <1>8, <1>01, <2>2, PutType DEF UpdateWrites
    <2>4. request' \in [Requests -> States] BY <1>0, <1>8, LetInType DEF UpdateWrites
    <2> QED BY <1>8, <2>3, <2>4, TypeParts, NextTypeParts DEF UpdateWrites, HistoryOK
  <1>9. CASE GrantFails(r)
    <2>1. RedisOK' /\ request' \in [Requests -> States]
      BY <1>0, <1>9, RefreshFailedType DEF GrantFails
    <2> QED BY <1>9, <2>1, TypeParts, NextTypeParts DEF GrantFails, HistoryOK
  <1> QED BY <1>1, <1>2, <1>3, <1>4, <1>5, <1>6, <1>7, <1>8, <1>9 DEF RequestStep

LEMMA ReadSessionType ==
  ASSUME TypeOK, NEW r \in Requests, NEW p \in Processes, NEW s \in SessionIds,
         ReadSession(r, p, s)
  PROVE  TypeOK'
  <1>1. RedisOK' BY DeleteIfExpiredType DEF ReadSession
  <1>2. CASE Serves(s)
    <2>1. store[s] \in Record BY <1>2, StoreShape DEF Serves
    <2>2. [pc |-> "check", process |-> p, session |-> s, started |-> now, rec |-> store[s],
           at |-> 0, control |-> None] \in Pending
      BY <2>1, TypeParts, NextTypeParts, TimesAssumption DEF Pending, Stages, Control
    <2>3. request' \in [Requests -> States] BY <1>2, <2>2, TypeParts, NextTypeParts DEF ReadSession, States
    <2> QED BY <1>1, <2>3, TypeParts, NextTypeParts DEF ReadSession, HistoryOK, history
  <1>3. CASE ~Serves(s)
    <2>1. request' \in [Requests -> States] BY <1>3, TurnAwayType DEF ReadSession
    <2> QED BY <1>1, <2>1, TypeParts, NextTypeParts DEF ReadSession, HistoryOK, history
  <1> QED BY <1>2, <1>3

LEMMA NextBlockType ==
  ASSUME NEW seen \in Control, NEW mode \in Modes
  PROVE  NextBlock(seen, mode) \in {"no", "suspended", "barred"}
  BY DEF NextBlock

LEMMA NoteWriteType ==
  ASSUME TypeOK, NEW w \in Writers, NoteWrite(w)
  PROVE  blockedAt' \in -1..MaxTime /\ lost' \in Nat
  <1>1. -1 \in -1..MaxTime /\ now \in -1..MaxTime BY TypeParts, TimesAssumption
  <1>2. blockedAt' \in -1..MaxTime BY <1>1, TypeParts DEF NoteWrite, HistoryOK
  <1>3. lost' \in Nat BY TypeParts DEF NoteWrite, HistoryOK
  <1> QED BY <1>2, <1>3

LEMMA NoteRevocationType ==
  ASSUME TypeOK, NEW w \in Writers, NoteRevocation(w)
  PROVE  HistoryOK'
  <1>1. blockedAt' \in -1..MaxTime /\ lost' \in Nat BY NoteWriteType DEF NoteRevocation
  <1>2. revokedAt \in Seq(0..MaxTime) /\ now \in 0..MaxTime /\ barred \in 0..Len(revokedAt)
    BY TypeParts DEF HistoryOK
  <1>3. revokedAt' \in Seq(0..MaxTime) /\ Len(revokedAt') = Len(revokedAt) + 1
    BY <1>2 DEF NoteRevocation
  <1>4. Len(revokedAt) \in Nat BY <1>2
  <1>5. barred' \in {barred, 0, Len(revokedAt')} BY DEF NoteRevocation
  <1>6. barred' \in 0..Len(revokedAt') BY <1>2, <1>3, <1>4, <1>5
  <1> QED BY <1>1, <1>3, <1>6 DEF HistoryOK

LEMMA AdminTypes ==
  ASSUME TypeOK, NEW w \in Writers,
         AdminStep(w) \/ AdminStops(w) \/ \E m \in Modes : AdminReads(w, m)
  PROVE  TypeOK'
  <1> USE DEF redis, history
  <1>1. CASE RevokeWrites(w)
    <2> DEFINE q == writer[w]
    <2>1. q.seen \in Control /\ q.mode \in Modes /\ q.began \in 0..MaxTime
      BY <1>1, WriteShape DEF RevokeWrites
    <2>2. (IF q.seen = None THEN 1 ELSE q.seen.min) + 1 \in Nat \ {0, 1} BY <2>1 DEF Control
    <2>3. PICK t \in q.began..now :
             control' = [min |-> (IF q.seen = None THEN 1 ELSE q.seen.min) + 1,
                         reauth |-> t, block |-> NextBlock(q.seen, q.mode)]
      BY <1>1 DEF RevokeWrites
    <2>4. t \in 0..MaxTime BY <2>1, TypeParts, TimesAssumption
    <2>5. control' \in Control BY <2>1, <2>2, <2>3, <2>4, NextBlockType DEF Control
    <2>6. HistoryOK' BY <1>1, NoteRevocationType DEF RevokeWrites
    <2>7. writer' \in [Writers -> Operations] BY <1>1, TypeParts DEF RevokeWrites, Operations
    <2>8. RedisOK' BY <1>1, <2>5, TypeParts DEF RevokeWrites, RedisOK
    <2> QED BY <1>1, <2>6, <2>7, <2>8, TypeParts, NextTypeParts DEF RevokeWrites
  <1>2. CASE RevokeLists(w)
    <2>1. [pc |-> "deleting", ids |-> index.ids] \in Operations
      BY TypeParts DEF RedisOK, Operations
    <2>2. writer' \in [Writers -> Operations] BY <1>2, <2>1, TypeParts DEF RevokeLists
    <2> QED BY <1>2, <2>2, TypeParts, NextTypeParts DEF RevokeLists, RedisOK, HistoryOK
  <1>3. CASE RevokeDeletes(w)
    <2>1. CASE writer[w].ids = {}
      <3>1. writer' \in [Writers -> Operations]
        BY <1>3, <2>1, TypeParts DEF RevokeDeletes, Operations
      <3> QED BY <1>3, <2>1, <3>1, TypeParts, NextTypeParts DEF RevokeDeletes, RedisOK, HistoryOK
    <2>2. CASE writer[w].ids # {}
      <3>1. writer[w] \in [pc : {"deleting"}, ids : SUBSET SessionIds]
        BY <1>3, DeletingShape DEF RevokeDeletes
      <3>2. PICK s \in writer[w].ids : Delete({s}) /\ writer' = [writer EXCEPT ![w].ids = @ \ {s}]
        BY <1>3, <2>2 DEF RevokeDeletes
      <3>3. RedisOK' BY <3>1, <3>2, DeleteType
      <3>4. [writer[w] EXCEPT !.ids = @ \ {s}] \in Operations BY <3>1 DEF Operations
      <3>5. writer' \in [Writers -> Operations] BY <3>2, <3>4, TypeParts
      <3> QED BY <1>3, <3>3, <3>5, TypeParts, NextTypeParts DEF RevokeDeletes, HistoryOK
    <2> QED BY <2>1, <2>2
  <1>4. CASE ReadmitWrites(w)
    <2>1. writer[w].seen \in Control BY <1>4, WriteShape DEF ReadmitWrites
    <2>2. control' = [writer[w].seen EXCEPT !.block = "no"] /\ NoteWrite(w)
          /\ barred' \in {barred, 0}
      BY <1>4 DEF ReadmitWrites
    <2>3. control' \in Control BY <2>1, <2>2 DEF Control, None
    <2>4. blockedAt' \in -1..MaxTime /\ lost' \in Nat BY <2>2, NoteWriteType
    <2>5. 0 \in 0..Len(revokedAt) BY TypeParts DEF HistoryOK
    <2>6. revokedAt' = revokedAt BY <1>4 DEF ReadmitWrites
    <2>7. HistoryOK' BY <2>2, <2>4, <2>5, <2>6, TypeParts DEF HistoryOK
    <2>8. writer' \in [Writers -> Operations] BY <1>4, TypeParts DEF ReadmitWrites, Operations
    <2>9. RedisOK' BY <1>4, <2>3, TypeParts DEF ReadmitWrites, RedisOK
    <2> QED BY <1>4, <2>7, <2>8, <2>9, TypeParts, NextTypeParts DEF ReadmitWrites
  <1>5. CASE AdminStops(w)
    <2>1. writer' \in [Writers -> Operations] BY <1>5, TypeParts DEF AdminStops, Operations
    <2> QED BY <1>5, <2>1, TypeParts, NextTypeParts DEF AdminStops, RedisOK, HistoryOK
  <1>6. ASSUME NEW m \in Modes, AdminReads(w, m) PROVE TypeOK'
    <2>1. [pc |-> "write", mode |-> m, seen |-> control, began |-> now,
           since |-> Len(revokedAt)] \in Operations
      BY TypeParts DEF RedisOK, HistoryOK, Operations
    <2>2. writer' \in [Writers -> Operations] BY <1>6, <2>1, TypeParts DEF AdminReads
    <2>3. writes' \in 0..MaxWrites BY <1>6, TypeParts, TimesAssumption DEF AdminReads
    <2> QED BY <1>6, <2>2, <2>3, TypeParts, NextTypeParts DEF AdminReads, RedisOK, HistoryOK
  <1> QED BY <1>1, <1>2, <1>3, <1>4, <1>5, <1>6 DEF AdminStep

LEMMA StepType == TypeOK /\ [Next]_vars => TypeOK'
  <1> SUFFICES ASSUME TypeOK, [Next]_vars PROVE TypeOK' OBVIOUS
  <1>1. CASE \E s \in SessionIds : LoginStarts(s) \/ LoginStep(s) \/ Logout(s)
    BY <1>1, LoginTypes
  <1>2. CASE \E r \in Requests : RequestStep(r) \/ GrantFails(r) BY <1>2, RequestTypes
  <1>3. CASE \E r \in Requests, p \in Processes, s \in SessionIds : ReadSession(r, p, s)
    BY <1>3, ReadSessionType
  <1>4. CASE \E w \in Writers :
               AdminStep(w) \/ AdminStops(w) \/ \E m \in Modes : AdminReads(w, m)
    BY <1>4, AdminTypes
  <1>5. CASE IndexExpires
    BY <1>5, IndexType, TypeParts, NextTypeParts DEF IndexExpires, RedisOK, HistoryOK, history
  <1>6. CASE Tick
    <2>1. now' \in 0..MaxTime BY <1>6, TypeParts, TimesAssumption DEF Tick
    <2> QED BY <1>6, <2>1, TypeParts, NextTypeParts DEF Tick, RedisOK, HistoryOK, redis, history
  <1>7. CASE UNCHANGED vars
    BY <1>7, TypeParts, NextTypeParts DEF vars, RedisOK, HistoryOK, redis, history
  <1> QED BY <1>1, <1>2, <1>3, <1>4, <1>5, <1>6, <1>7 DEF Next

\* Every variable has its type in every reachable state.
THEOREM TypeCorrect == Spec => []TypeOK
  BY InitType, StepType, PTL DEF Spec

-----------------------------------------------------------------------------
(***************************************************************************)
(* The inductive invariant.  What a request knows of a block, or of a       *)
(* revocation, is as old as its question, and so is what a process          *)
(* remembers: an entry of the cache dates from before the first of them.    *)
(***************************************************************************)
Passed == {"reread", "grant", "write", "in"}
Epoch(r) == IF request[r].pc = "in" THEN request[r].epoch ELSE request[r].rec.epoch
Era(r) == IF request[r].pc = "in" THEN request[r].era ELSE request[r].rec.era
Issued(r) == IF request[r].pc = "in" THEN request[r].issued ELSE request[r].rec.issued

Times ==
    /\ \A p \in Processes : cache[p] <= now + TTL
    /\ \A r \in Requests :
          /\ request[r].pc # "idle" => request[r].started <= now
          /\ request[r].pc \in {"ask", "judge"} =>
                request[r].started <= request[r].at /\ request[r].at <= now
    /\ blockedAt <= now
    /\ \A i \in 1..Len(revokedAt) : revokedAt[i] <= now

\* A block.
BlockDated == blockedAt = -1 <=> ~Blocks(control)
CacheBeforeBlock == blockedAt # -1 => \A p \in Processes : cache[p] <= blockedAt + TTL
JudgeBeforeBlock ==
    blockedAt # -1 => \A r \in Requests :
        request[r].pc = "judge" /\ ~Blocks(request[r].control) => request[r].at <= blockedAt
PassedBeforeBlock ==
    blockedAt # -1 => \A r \in Requests :
        request[r].pc \in Passed => request[r].started < blockedAt + TTL
BlockInv == BlockDated /\ CacheBeforeBlock /\ JudgeBeforeBlock /\ PassedBeforeBlock

\* An irrevocable block: whoever has read the control state since knows of it,
\* and who readmits has read a block that may be lifted.
WritersRead ==
    \A w \in Writers : writer[w].pc = "write" =>
        /\ writer[w].since <= Len(revokedAt)
        /\ KnowsBar(w) => writer[w].seen # None /\ writer[w].seen.block = "barred"
        /\ writer[w].mode = "readmit" =>
              writer[w].seen # None /\ writer[w].seen.block = "suspended"

\* An id belongs to one session as long as a request uses it.
SameSession ==
    \A r \in Requests : request[r].pc \in Stages =>
        /\ login[request[r].session] = Idle
        /\ store[request[r].session] # None =>
              /\ store[request[r].session].epoch = request[r].rec.epoch
              /\ store[request[r].session].era = request[r].rec.era
              /\ store[request[r].session].issued = request[r].rec.issued
              /\ store[request[r].session].version = request[r].rec.version
        /\ \A o \in Requests :
              request[o].pc \in Stages /\ request[o].session = request[r].session =>
                  /\ request[o].rec.epoch = request[r].rec.epoch
                  /\ request[o].rec.era = request[r].rec.era
                  /\ request[o].rec.issued = request[r].rec.issued
                  /\ request[o].rec.version = request[r].rec.version

\* Absolute lifetimes.
Limited(rec) == rec.expires <= rec.issued + SessionTTL
Lifetimes ==
    /\ \A s \in SessionIds : store[s] # None => Limited(store[s])
    /\ \A s \in SessionIds : login[s].pc \in {"read", "stored"} => Limited(login[s].rec)
    /\ \A r \in Requests : request[r].pc # "idle" => request[r].started <= Issued(r) + SessionTTL

\* Revocations.  Between two lost writes, an era, every revocation raises the
\* minimum version by one: the session of an earlier epoch of the same era has a
\* lower version.  What an earlier era left behind says nothing of the sessions.
Known(c) == IF c = None THEN 0 ELSE c.min - 1
Offset == Known(control) - Len(revokedAt)
Versioned(rec) ==
    /\ rec.era <= lost
    /\ rec.era = lost => rec.version = rec.epoch + 1 + Offset
VersionsCount ==
    /\ Len(revokedAt) > 0 => control # None
    /\ \A s \in SessionIds : store[s] # None => Versioned(store[s])
    /\ \A s \in SessionIds : login[s].pc \in {"read", "stored"} => Versioned(login[s].rec)
    /\ \A r \in Requests : request[r].pc \in Stages => Versioned(request[r].rec)
    /\ \A r \in Requests : request[r].pc \in Stages \cup {"in"} => Era(r) <= lost
CacheBeforeRevocation ==
    Len(revokedAt) > 0 => \A p \in Processes : \A i \in 1..Len(revokedAt) :
                              cache[p] <= revokedAt[i] + TTL
JudgeBeforeRevocation ==
    \A r \in Requests : request[r].pc = "judge" =>
        /\ request[r].control = None =>
              \A i \in 1..Len(revokedAt) : request[r].at <= revokedAt[i]
        /\ /\ ~Refuses(request[r].control, request[r].rec)
           /\ request[r].rec.era = lost /\ request[r].rec.epoch < Len(revokedAt)
           => request[r].at <= revokedAt[request[r].rec.epoch + 1]
PassedBeforeRevocation ==
    \A r \in Requests : request[r].pc \in Passed /\ Era(r) = lost /\ Epoch(r) < Len(revokedAt) =>
        request[r].started < revokedAt[Epoch(r) + 1] + TTL
RevokeInv ==
    VersionsCount /\ CacheBeforeRevocation /\ JudgeBeforeRevocation /\ PassedBeforeRevocation

Inv ==
    /\ TypeOK /\ Times /\ BlockInv
    /\ BarredStaysBarred /\ WritersRead
    /\ SameSession /\ Lifetimes /\ RevokeInv

LEMMA InitInv == Init => Inv
  <1> SUFFICES ASSUME Init PROVE Inv OBVIOUS
  <1>1. Times BY TimesAssumption DEF Init, Times, Idle
  <1>2. BlockInv
    BY DEF Init, BlockInv, BlockDated, CacheBeforeBlock, JudgeBeforeBlock, PassedBeforeBlock, Blocks
  <1>3. BarredStaysBarred /\ WritersRead
    BY DEF Init, BarredStaysBarred, WritersRead, Idle
  <1>4. SameSession /\ Lifetimes
    BY DEF Init, SameSession, Lifetimes, Idle, Stages
  <1>5. RevokeInv
    <2>1. Len(revokedAt) = 0 BY DEF Init
    <2>2. VersionsCount BY <2>1 DEF Init, VersionsCount, Idle, Stages
    <2>3. CacheBeforeRevocation /\ JudgeBeforeRevocation /\ PassedBeforeRevocation
      BY <2>1 DEF Init, CacheBeforeRevocation, JudgeBeforeRevocation, PassedBeforeRevocation,
                  Idle, Passed
    <2> QED BY <2>2, <2>3 DEF RevokeInv
  <1> QED BY <1>1, <1>2, <1>3, <1>4, <1>5, InitType DEF Inv

-----------------------------------------------------------------------------
(***************************************************************************)
(* What a step of a request does to the request, the records and the cache. *)
(***************************************************************************)
Continues(r) ==
    /\ request[r].pc \in Stages
    /\ request'[r].pc \in Stages \cup {"in"}
    /\ request'[r].started = request[r].started
    /\ Epoch(r)' = Epoch(r) /\ Issued(r)' = Issued(r) /\ Era(r)' = Era(r)
    /\ request'[r].pc \in Stages =>
          /\ request'[r].session = request[r].session
          /\ request'[r].rec.version = request[r].rec.version

Approved(r) == Judge(r) /\ ~Refuses(request[r].control, request[r].rec)

LEMMA GotoEffect ==
  ASSUME TypeOK, NEW r \in Requests, request[r] \in Pending, NEW pc \in Stages, Goto(r, pc)
  PROVE  request'[r].pc = pc /\ Continues(r)
  <1>1. request'[r] = [request[r] EXCEPT !.pc = pc, !.at = 0, !.control = None]
    BY TypeParts DEF Goto
  <1>2. request[r].pc \in Stages /\ "in" \notin Stages BY DEF Pending, Stages
  <1>3. request'[r].pc = pc /\ request'[r].rec = request[r].rec
        /\ request'[r].started = request[r].started /\ request'[r].session = request[r].session
    BY <1>1 DEF Pending
  <1> QED BY <1>2, <1>3 DEF Continues, Epoch, Issued, Era

LEMMA LetInEffect ==
  ASSUME TypeOK, NEW r \in Requests, request[r] \in Pending, LetIn(r)
  PROVE  request'[r].pc = "in" /\ Continues(r)
  <1>1. request'[r] = [pc |-> "in", started |-> request[r].started,
                       issued |-> request[r].rec.issued, epoch |-> request[r].rec.epoch,
                       era |-> request[r].rec.era]
    BY TypeParts DEF LetIn
  <1>2. request[r].pc \in Stages /\ "in" \notin Stages BY DEF Pending, Stages
  <1> QED BY <1>1, <1>2 DEF Continues, Epoch, Issued, Era

LEMMA PassesEffect ==
  ASSUME TypeOK, NEW r \in Requests, request[r] \in Pending, Passes(r)
  PROVE  request'[r].pc \in {"reread", "in"} /\ Continues(r)
  BY GotoEffect, LetInEffect DEF Passes, Stages

LEMMA RefreshFailedEffect ==
  ASSUME TypeOK, NEW r \in Requests, request[r] \in Pending, RefreshFailed(r)
  PROVE  /\ request'[r] = Idle \/ (request'[r].pc = "in" /\ Continues(r))
         /\ \A s \in SessionIds : store'[s] \in {store[s], None}
         /\ control' = control
  <1>1. request[r].session \in SessionIds BY DEF Pending
  <1>2. CASE Delete({request[r].session}) /\ TurnAway(r)
    BY <1>2, TypeParts DEF Delete, StoreWithout, TurnAway
  <1>3. CASE UNCHANGED redis /\ LetIn(r) BY <1>3, LetInEffect DEF redis
  <1> QED BY <1>2, <1>3 DEF RefreshFailed

LEMMA RequestEffect ==
  ASSUME TypeOK, SameSession, NEW r \in Requests, RequestStep(r) \/ GrantFails(r)
  PROVE  /\ request[r] \in Pending
         /\ request'[r] = Idle \/ Continues(r)
         /\ request'[r].pc \in Passed =>
               request[r].pc \in Passed \/ CacheHit(r) \/ Approved(r)
         /\ request'[r].pc = "ask" => request'[r].at = now
         /\ request'[r].pc = "judge" => ReadControl(r)
         /\ \A s \in SessionIds : store'[s] \in {store[s], None} \/ UpdateWrites(r)
         /\ control' = control
  <1>0. request[r] \in Pending
    BY PendingShape DEF RequestStep, GrantFails, CacheHit, CacheMiss, ReadControl, Judge,
       DeleteRefused, Reread, UpdateReads, UpdateWrites, Stages
  <1>01. request[r].session \in SessionIds /\ request[r].pc \in Stages /\ "in" \notin Stages
    BY <1>0 DEF Pending, Stages
  <1>1. CASE CacheHit(r)
    BY <1>0, <1>1, PassesEffect DEF CacheHit, redis, Passed
  <1>2. CASE CacheMiss(r)
    <2>1. request'[r] = [request[r] EXCEPT !.pc = "ask", !.at = now]
      BY <1>2, TypeParts DEF CacheMiss
    <2>2. request'[r].pc = "ask" /\ request'[r].at = now /\ request'[r].rec = request[r].rec
          /\ request'[r].started = request[r].started /\ request'[r].session = request[r].session
      BY <1>0, <2>1 DEF Pending
    <2>3. Continues(r) BY <1>01, <2>2 DEF Continues, Epoch, Issued, Era, Stages
    <2> QED BY <1>0, <1>2, <2>2, <2>3 DEF CacheMiss, redis, Passed
  <1>3. CASE ReadControl(r)
    <2>1. request'[r] = [request[r] EXCEPT !.pc = "judge", !.control = control]
      BY <1>3, TypeParts DEF ReadControl
    <2>2. request'[r].pc = "judge" /\ request'[r].rec = request[r].rec
          /\ request'[r].started = request[r].started /\ request'[r].session = request[r].session
      BY <1>0, <2>1 DEF Pending
    <2>3. Continues(r) BY <1>01, <2>2 DEF Continues, Epoch, Issued, Era, Stages
    <2> QED BY <1>0, <1>3, <2>2, <2>3 DEF ReadControl, redis, Passed
  <1>4. CASE Judge(r)
    <2>1. CASE Refuses(request[r].control, request[r].rec)
      <3>1. request'[r].pc = "delete" /\ Continues(r)
        BY <1>0, <1>4, <2>1, GotoEffect DEF Judge, Stages
      <3> QED BY <1>0, <1>4, <3>1 DEF Judge, redis, Passed
    <2>2. CASE ~Refuses(request[r].control, request[r].rec)
      <3>1. request'[r].pc \in {"reread", "in"} /\ Continues(r)
        BY <1>0, <1>4, <2>2, PassesEffect DEF Judge
      <3>2. Approved(r) BY <1>4, <2>2 DEF Approved
      <3> QED BY <1>0, <1>4, <3>1, <3>2 DEF Judge, redis
    <2> QED BY <2>1, <2>2
  <1>5. CASE DeleteRefused(r)
    BY <1>0, <1>01, <1>5, TypeParts DEF DeleteRefused, Delete, StoreWithout, TurnAway, Idle, Passed
  <1>6. CASE Reread(r)
    <2> DEFINE s == request[r].session
    <2>1. control' = control /\ \A x \in SessionIds : store'[x] \in {store[x], None}
      BY <1>01, <1>6, TypeParts DEF Reread, DeleteIfExpired, Delete, StoreWithout, redis
    <2>2. CASE ~Serves(s)
      BY <1>0, <1>6, <2>1, <2>2, TypeParts DEF Reread, TurnAway, Idle, Passed
    <2>3. CASE Serves(s)
      <3>1. store[s].epoch = request[r].rec.epoch /\ store[s].issued = request[r].rec.issued
            /\ store[s].era = request[r].rec.era
            /\ store[s].version = request[r].rec.version
        BY <1>01, <2>3 DEF SameSession, Serves
      <3>2. CASE request' = [request EXCEPT ![r].pc = "grant", ![r].rec = store[s]]
        <4>1. request'[r] = [request[r] EXCEPT !.pc = "grant", !.rec = store[s]]
          BY <3>2, TypeParts
        <4>2. request'[r].pc = "grant" /\ request'[r].rec = store[s]
              /\ request'[r].started = request[r].started /\ request'[r].session = s
          BY <1>0, <4>1 DEF Pending
        <4>3. Continues(r) BY <1>01, <3>1, <4>2 DEF Continues, Epoch, Issued, Era, Stages
        <4> QED BY <1>0, <1>6, <2>1, <4>2, <4>3 DEF Reread, Passed
      <3>3. CASE request' = [request EXCEPT ![r] = [pc |-> "in", started |-> @.started,
                                 issued |-> store[s].issued, epoch |-> store[s].epoch,
                                 era |-> store[s].era]]
        <4>1. request'[r] = [pc |-> "in", started |-> request[r].started,
                             issued |-> store[s].issued, epoch |-> store[s].epoch,
                             era |-> store[s].era]
          BY <3>3, TypeParts
        <4>2. Continues(r) BY <1>01, <3>1, <4>1 DEF Continues, Epoch, Issued, Era, Stages
        <4> QED BY <1>0, <1>6, <2>1, <4>1, <4>2 DEF Reread, Passed
      <3> QED BY <1>6, <2>3, <3>2, <3>3 DEF Reread
    <2> QED BY <2>2, <2>3
  <1>7. CASE UpdateReads(r)
    <2> DEFINE s == request[r].session
    <2>1. CASE Serves(s)
      <3>1. store[s].epoch = request[r].rec.epoch /\ store[s].issued = request[r].rec.issued
            /\ store[s].era = request[r].rec.era
            /\ store[s].version = request[r].rec.version
        BY <1>01, <2>1 DEF SameSession, Serves
      <3>2. request'[r] = [request[r] EXCEPT !.pc = "write", !.rec = store[s], !.at = now]
        BY <1>7, <2>1, TypeParts DEF UpdateReads
      <3>3. request'[r].pc = "write" /\ request'[r].rec = store[s]
            /\ request'[r].started = request[r].started /\ request'[r].session = s
        BY <1>0, <3>2 DEF Pending
      <3>4. Continues(r) BY <1>01, <3>1, <3>3 DEF Continues, Epoch, Issued, Era, Stages
      <3> QED BY <1>0, <1>7, <2>1, <3>3, <3>4 DEF UpdateReads, Passed, redis
    <2>2. CASE ~Serves(s)
      <3>1. RefreshFailed(r) BY <1>7, <2>2 DEF UpdateReads
      <3> QED BY <1>0, <1>7, <3>1, RefreshFailedEffect DEF UpdateReads, Idle, Passed
    <2> QED BY <2>1, <2>2
  <1>8. CASE UpdateWrites(r)
    <2>1. request'[r].pc = "in" /\ Continues(r) BY <1>0, <1>8, LetInEffect DEF UpdateWrites
    <2> QED BY <1>0, <1>8, <2>1 DEF UpdateWrites, Passed
  <1>9. CASE GrantFails(r)
    BY <1>0, <1>9, RefreshFailedEffect DEF GrantFails, Idle, Passed
  <1> QED BY <1>1, <1>2, <1>3, <1>4, <1>5, <1>6, <1>7, <1>8, <1>9 DEF RequestStep

LEMMA RequestFrame ==
  ASSUME TypeOK, NEW r \in Requests, request[r] \in Pending, RequestStep(r) \/ GrantFails(r)
  PROVE  /\ \A o \in Requests : o # r => request'[o] = request[o]
         /\ \A p \in Processes :
               \/ cache'[p] = cache[p] \/ cache'[p] = 0
               \/ Judge(r) /\ request[r].control = None /\ cache'[p] = request[r].at + TTL
         /\ UNCHANGED <<login, now, writer, writes, history>>
  <1> USE DEF history
  <1>1. CASE CacheHit(r)
    BY <1>1, TypeParts DEF CacheHit, Passes, LetIn, Goto
  <1>2. CASE CacheMiss(r) BY <1>2, TypeParts DEF CacheMiss
  <1>3. CASE ReadControl(r) BY <1>3, TypeParts DEF ReadControl
  <1>4. CASE Judge(r)
    <2>1. \A o \in Requests : o # r => request'[o] = request[o]
      BY <1>4, TypeParts DEF Judge, Passes, LetIn, Goto
    <2>2. \A p \in Processes :
               \/ cache'[p] = cache[p] \/ cache'[p] = 0
               \/ request[r].control = None /\ cache'[p] = request[r].at + TTL
      BY <1>4, TypeParts DEF Judge
    <2> QED BY <1>4, <2>1, <2>2 DEF Judge
  <1>5. CASE DeleteRefused(r) BY <1>5, TypeParts DEF DeleteRefused, TurnAway
  <1>6. CASE Reread(r) BY <1>6, TypeParts DEF Reread, TurnAway
  <1>7. CASE UpdateReads(r)
    BY <1>7, TypeParts DEF UpdateReads, RefreshFailed, TurnAway, LetIn
  <1>8. CASE UpdateWrites(r) BY <1>8, TypeParts DEF UpdateWrites, LetIn
  <1>9. CASE GrantFails(r) BY <1>9, TypeParts DEF GrantFails, RefreshFailed, TurnAway, LetIn
  <1> QED BY <1>1, <1>2, <1>3, <1>4, <1>5, <1>6, <1>7, <1>8, <1>9 DEF RequestStep

LEMMA UpdateEffect ==
  ASSUME TypeOK, NEW r \in Requests, request[r] \in Pending, UpdateWrites(r)
  PROVE  LET s == request[r].session
         IN  /\ \A x \in SessionIds : x # s => store'[x] = store[x]
             /\ store'[s] \in Record /\ Limited(store'[s])
             /\ store'[s].epoch = request[r].rec.epoch
             /\ store'[s].era = request[r].rec.era
             /\ store'[s].issued = request[r].rec.issued
             /\ store'[s].version = request[r].rec.version
  <1> DEFINE s == request[r].session
             e == Least(request[r].at + TokenTTL, request[r].rec.issued + SessionTTL)
  <1>0. request[r].rec \in Record /\ s \in SessionIds /\ request[r].at \in 0..MaxTime BY DEF Pending
  <1>1. store'[s] = [request[r].rec EXCEPT !.expires = e]
        /\ \A x \in SessionIds : x # s => store'[x] = store[x]
    BY <1>0, TypeParts DEF UpdateWrites, RedisOK
  <1>2. e \in 0..MaxTime + SessionTTL /\ e <= request[r].rec.issued + SessionTTL
    BY <1>0, TypeParts, TimesAssumption DEF Least, Record
  <1> HIDE DEF e
  <1> QED BY <1>0, <1>1, <1>2 DEF Record, Limited

-----------------------------------------------------------------------------
(***************************************************************************)
(* Steps of a request.                                                     *)
(***************************************************************************)
LEMMA Numbers ==
  ASSUME TypeOK
  PROVE  /\ now \in Int /\ TTL \in Nat \ {0} /\ SessionTTL \in Nat /\ blockedAt \in Int
         /\ \A p \in Processes : cache[p] \in Int
         /\ Len(revokedAt) \in Nat /\ \A i \in 1..Len(revokedAt) : revokedAt[i] \in Nat
         /\ \A r \in Requests : request[r].pc \in Stages \cup {"in"} =>
               /\ request[r].started \in Int /\ Epoch(r) \in Nat /\ Issued(r) \in Int /\ Era(r) \in Nat
         /\ \A r \in Requests : request[r].pc \in Stages =>
               /\ request[r].at \in Int /\ request[r].control \in Control
               /\ request[r].rec \in Record
  <1>1. now \in Int /\ TTL \in Nat \ {0} /\ SessionTTL \in Nat /\ blockedAt \in Int
        /\ \A p \in Processes : cache[p] \in Int
    BY TypeParts, TimesAssumption DEF HistoryOK
  <1>2. Len(revokedAt) \in Nat /\ \A i \in 1..Len(revokedAt) : revokedAt[i] \in Nat
    BY TypeParts, TimesAssumption DEF HistoryOK
  <1>3. ASSUME NEW r \in Requests, request[r].pc \in Stages
        PROVE  /\ request[r].started \in Int /\ Epoch(r) \in Nat /\ Issued(r) \in Int /\ Era(r) \in Nat
               /\ request[r].at \in Int /\ request[r].control \in Control
               /\ request[r].rec \in Record
    <2>1. request[r] \in Pending /\ request[r].pc # "in" BY <1>3, PendingShape DEF Stages
    <2> QED BY <2>1, TimesAssumption DEF Pending, Record, Epoch, Issued, Era
  <1>4. ASSUME NEW r \in Requests, request[r].pc = "in"
        PROVE  request[r].started \in Int /\ Epoch(r) \in Nat /\ Issued(r) \in Int /\ Era(r) \in Nat
    <2>1. request[r] \in States BY TypeParts
    <2>2. request[r] \in Admitted BY <1>4, <2>1 DEF States, Idle, Pending, Stages
    <2> QED BY <1>4, <2>2, TimesAssumption DEF Admitted, Epoch, Issued, Era
  <1> QED BY <1>1, <1>2, <1>3, <1>4

LEMMA OffsetInt ==
  ASSUME TypeOK
  PROVE  Known(control) \in Nat /\ Offset \in Int
  <1>1. control \in Control BY TypeParts DEF RedisOK
  <1>2. Known(control) \in Nat BY <1>1 DEF Known, Control
  <1> QED BY <1>2, Numbers DEF Offset

LEMMA RequestTimes ==
  ASSUME Inv, TypeOK', NEW r \in Requests, RequestStep(r) \/ GrantFails(r)
  PROVE  Times'
  <1>0. TypeOK /\ Times /\ SameSession BY DEF Inv
  <1>1. request[r] \in Pending BY <1>0, RequestEffect
  <1>2. request[r].pc \in Stages /\ request[r].pc # "idle" BY <1>1 DEF Pending, Stages
  <1>3. \A p \in Processes : cache'[p] <= now' + TTL
    <2>1. Judge(r) => request[r].at <= now BY <1>0, <1>2 DEF Judge, Times
    <2>2. now' = now /\ now >= 0
      BY <1>0, <1>1, RequestFrame, TypeParts, TimesAssumption
    <2>3. request[r].at \in Int /\ TTL \in Nat /\ now \in Int BY <1>0, <1>2, Numbers
    <2>4. ASSUME NEW p \in Processes PROVE cache'[p] <= now + TTL
      <3>1. cache[p] <= now + TTL BY <1>0 DEF Times
      <3>2. \/ cache'[p] = cache[p] \/ cache'[p] = 0
            \/ Judge(r) /\ cache'[p] = request[r].at + TTL
        BY <1>0, <1>1, RequestFrame
      <3> QED BY <2>1, <2>2, <2>3, <3>1, <3>2
    <2> QED BY <2>2, <2>4
  <1>4. ASSUME NEW o \in Requests, request'[o].pc # "idle" PROVE request'[o].started <= now'
    <2>1. CASE o = r
      BY <1>0, <1>1, <1>2, <1>4, <2>1, RequestEffect, RequestFrame DEF Continues, Times, Idle
    <2>2. CASE o # r BY <1>0, <1>1, <1>4, <2>2, RequestFrame DEF Times
    <2> QED BY <2>1, <2>2
  <1>5. ASSUME NEW o \in Requests, request'[o].pc \in {"ask", "judge"}
        PROVE  request'[o].started <= request'[o].at /\ request'[o].at <= now'
    <2>1. CASE o # r BY <1>0, <1>1, <1>5, <2>1, RequestFrame DEF Times
    <2>2. CASE o = r /\ request'[r].pc = "ask"
      <3>1. request'[r].at = now /\ now' = now /\ request'[r].started = request[r].started
        BY <1>0, <1>1, <2>2, RequestEffect, RequestFrame DEF Continues, Idle
      <3> QED BY <1>0, <1>2, <2>2, <3>1, Numbers DEF Times
    <2>3. CASE o = r /\ request'[r].pc = "judge"
      <3>1. ReadControl(r) BY <1>0, <2>3, RequestEffect
      <3>2. request'[r] = [request[r] EXCEPT !.pc = "judge", !.control = control]
            /\ request[r].pc = "ask" /\ now' = now
        BY <1>0, <3>1, TypeParts DEF ReadControl
      <3>3. request'[r].at = request[r].at /\ request'[r].started = request[r].started
        BY <1>1, <3>2 DEF Pending
      <3> QED BY <1>0, <2>3, <3>2, <3>3 DEF Times
    <2> QED BY <1>5, <2>1, <2>2, <2>3
  <1>6. blockedAt' <= now' /\ \A i \in 1..Len(revokedAt') : revokedAt'[i] <= now'
    BY <1>0, <1>1, RequestFrame DEF Times, history
  <1> QED BY <1>3, <1>4, <1>5, <1>6 DEF Times

LEMMA RequestBlock ==
  ASSUME Inv, TypeOK', NEW r \in Requests, RequestStep(r) \/ GrantFails(r)
  PROVE  BlockInv'
  <1>0. TypeOK /\ Times /\ SameSession /\ BlockInv BY DEF Inv
  <1>1. request[r] \in Pending BY <1>0, RequestEffect
  <1>2. request[r].pc \in Stages /\ request[r].pc # "idle" BY <1>1 DEF Pending, Stages
  <1>3. control' = control /\ blockedAt' = blockedAt
    BY <1>0, <1>1, RequestEffect, RequestFrame DEF history
  <1>4. BlockDated' BY <1>0, <1>3 DEF BlockInv, BlockDated, Blocks
  <1>5. CASE blockedAt = -1
    BY <1>3, <1>4, <1>5 DEF BlockInv, CacheBeforeBlock, JudgeBeforeBlock, PassedBeforeBlock
  <1>6. CASE blockedAt # -1
    <2>1. Judge(r) /\ ~Blocks(request[r].control) =>
             request[r].at <= blockedAt /\ request[r].started <= request[r].at
      BY <1>0, <1>6 DEF Judge, BlockInv, JudgeBeforeBlock, Times
    <2>2. CacheBeforeBlock'
      <3>1. ~Blocks(None) BY DEF Blocks
      <3>2. ASSUME NEW p \in Processes PROVE cache'[p] <= blockedAt + TTL
        <4>1. CASE cache'[p] = cache[p] BY <1>0, <1>6, <4>1 DEF BlockInv, CacheBeforeBlock
        <4>2. CASE cache'[p] = 0 BY <1>0, <1>6, <4>2, TypeParts, Numbers DEF HistoryOK
        <4>3. CASE Judge(r) /\ request[r].control = None /\ cache'[p] = request[r].at + TTL
          BY <1>0, <1>2, <2>1, <3>1, <4>3, Numbers
        <4> QED BY <1>0, <1>1, <4>1, <4>2, <4>3, RequestFrame
      <3> QED BY <1>3, <3>2 DEF CacheBeforeBlock
    <2>3. JudgeBeforeBlock'
      <3>1. ASSUME NEW o \in Requests, request'[o].pc = "judge", ~Blocks(request'[o].control)
            PROVE  request'[o].at <= blockedAt
        <4>1. CASE o # r
          BY <1>0, <1>1, <1>6, <3>1, <4>1, RequestFrame DEF BlockInv, JudgeBeforeBlock
        <4>2. CASE o = r
          <5>1. ReadControl(r) BY <1>0, <3>1, <4>2, RequestEffect
          <5>2. request'[r] = [request[r] EXCEPT !.pc = "judge", !.control = control]
            BY <1>0, <5>1, TypeParts DEF ReadControl
          <5>3. request'[r].control = control BY <1>1, <5>2 DEF Pending
          <5>4. Blocks(control) BY <1>0, <1>6 DEF BlockInv, BlockDated
          <5> QED BY <3>1, <4>2, <5>3, <5>4
        <4> QED BY <4>1, <4>2
      <3> QED BY <1>3, <3>1 DEF JudgeBeforeBlock, Blocks
    <2>4. PassedBeforeBlock'
      <3>1. ASSUME NEW o \in Requests, request'[o].pc \in Passed
            PROVE  request'[o].started < blockedAt + TTL
        <4>1. CASE o # r
          BY <1>0, <1>1, <1>6, <3>1, <4>1, RequestFrame DEF BlockInv, PassedBeforeBlock
        <4>2. CASE o = r
          <5>0. request'[r].started = request[r].started
            BY <1>0, <3>1, <4>2, RequestEffect DEF Continues, Idle, Passed
          <5>1. CASE request[r].pc \in Passed
            BY <1>0, <1>6, <4>2, <5>0, <5>1 DEF BlockInv, PassedBeforeBlock
          <5>2. CASE CacheHit(r)
            <6>1. request[r].process \in Processes /\ now < cache[request[r].process]
              BY <1>0, <1>1, <5>2, Numbers DEF Pending, CacheHit
            <6>2. request[r].started <= now /\ cache[request[r].process] <= blockedAt + TTL
              BY <1>0, <1>2, <1>6, <6>1 DEF Times, BlockInv, CacheBeforeBlock
            <6> QED BY <1>0, <1>2, <4>2, <5>0, <6>1, <6>2, Numbers
          <5>3. CASE Approved(r)
            <6>1. Judge(r) /\ ~Blocks(request[r].control)
              BY <5>3 DEF Approved, Refuses, Blocks
            <6> QED BY <1>0, <1>2, <2>1, <4>2, <5>0, <6>1, Numbers
          <5> QED BY <1>0, <3>1, <4>2, <5>1, <5>2, <5>3, RequestEffect
        <4> QED BY <4>1, <4>2
      <3> QED BY <1>3, <3>1 DEF PassedBeforeBlock
    <2> QED BY <1>4, <2>2, <2>3, <2>4 DEF BlockInv
  <1> QED BY <1>5, <1>6

LEMMA RequestSessions ==
  ASSUME Inv, TypeOK', NEW r \in Requests, RequestStep(r) \/ GrantFails(r)
  PROVE  SameSession' /\ Lifetimes'
  <1>0. TypeOK /\ SameSession /\ Lifetimes BY DEF Inv
  <1>1. request[r] \in Pending /\ request[r].session \in SessionIds
    BY <1>0, RequestEffect DEF Pending
  <1>2. request[r].pc \in Stages /\ request[r].pc # "idle" BY <1>1 DEF Pending, Stages
  <1>3. login' = login BY <1>0, <1>1, RequestFrame
  <1>4. \A o \in Requests : request'[o].pc \in Stages =>
           /\ request[o].pc \in Stages /\ request'[o].session = request[o].session
           /\ request'[o].rec.version = request[o].rec.version
           /\ request'[o].rec.epoch = request[o].rec.epoch
           /\ request'[o].rec.era = request[o].rec.era
           /\ request'[o].rec.issued = request[o].rec.issued
    <2>1. ASSUME NEW o \in Requests, o # r PROVE request'[o] = request[o]
      BY <1>0, <1>1, <2>1, RequestFrame
    <2>2. request'[r].pc \in Stages =>
             /\ request'[r].session = request[r].session
             /\ request'[r].rec.version = request[r].rec.version
             /\ request'[r].rec.epoch = request[r].rec.epoch
             /\ request'[r].rec.era = request[r].rec.era
             /\ request'[r].rec.issued = request[r].rec.issued
      <3>1. request'[r] = Idle \/ Continues(r) BY <1>0, RequestEffect
      <3>2. "idle" \notin Stages /\ "in" \notin Stages BY DEF Stages
      <3>3. CASE request'[r] = Idle BY <3>2, <3>3 DEF Idle
      <3>4. CASE Continues(r) BY <1>2, <3>2, <3>4 DEF Continues, Epoch, Issued, Era
      <3> QED BY <3>1, <3>3, <3>4
    <2> QED BY <1>2, <2>1, <2>2
  <1>5. ASSUME NEW s \in SessionIds, store'[s] # None
        PROVE  \/ store'[s] = store[s]
               \/ /\ s = request[r].session /\ Limited(store'[s])
                  /\ store'[s].epoch = request[r].rec.epoch
                  /\ store'[s].era = request[r].rec.era
                  /\ store'[s].issued = request[r].rec.issued
                  /\ store'[s].version = request[r].rec.version
    BY <1>0, <1>1, <1>5, RequestEffect, UpdateEffect
  <1>6. SameSession'
    <2> SUFFICES ASSUME NEW o \in Requests, request'[o].pc \in Stages
                 PROVE
        /\ login'[request'[o].session] = Idle
        /\ store'[request'[o].session] # None =>
              /\ store'[request'[o].session].epoch = request'[o].rec.epoch
              /\ store'[request'[o].session].era = request'[o].rec.era
              /\ store'[request'[o].session].issued = request'[o].rec.issued
              /\ store'[request'[o].session].version = request'[o].rec.version
        /\ \A x \in Requests :
              request'[x].pc \in Stages /\ request'[x].session = request'[o].session =>
                  /\ request'[x].rec.epoch = request'[o].rec.epoch
                  /\ request'[x].rec.era = request'[o].rec.era
                  /\ request'[x].rec.issued = request'[o].rec.issued
                  /\ request'[x].rec.version = request'[o].rec.version
      BY DEF SameSession
    <2>1. request[o].pc \in Stages BY <1>4
    <2>2. request[o].session \in SessionIds BY <1>0, <2>1, PendingShape DEF Pending
    <2>3. login'[request'[o].session] = Idle BY <1>0, <1>3, <1>4, <2>1 DEF SameSession
    <2>4. \A x \in Requests :
              request'[x].pc \in Stages /\ request'[x].session = request'[o].session =>
                  /\ request'[x].rec.epoch = request'[o].rec.epoch
                  /\ request'[x].rec.era = request'[o].rec.era
                  /\ request'[x].rec.issued = request'[o].rec.issued
                  /\ request'[x].rec.version = request'[o].rec.version
      BY <1>0, <1>4, <2>1 DEF SameSession
    <2>5. ASSUME store'[request[o].session] # None
          PROVE  /\ store'[request[o].session].epoch = request[o].rec.epoch
                 /\ store'[request[o].session].era = request[o].rec.era
                 /\ store'[request[o].session].issued = request[o].rec.issued
                 /\ store'[request[o].session].version = request[o].rec.version
      <3>1. CASE store'[request[o].session] = store[request[o].session]
        BY <1>0, <2>1, <2>5, <3>1 DEF SameSession
      <3>2. CASE store'[request[o].session] # store[request[o].session]
        BY <1>0, <1>2, <1>5, <2>1, <2>2, <2>5, <3>2 DEF SameSession
      <3> QED BY <3>1, <3>2
    <2> QED BY <1>4, <2>3, <2>4, <2>5
  <1>7. Lifetimes'
    <2>1. ASSUME NEW s \in SessionIds, store'[s] # None PROVE Limited(store'[s])
      BY <1>0, <1>5, <2>1 DEF Lifetimes
    <2>2. ASSUME NEW o \in Requests, request'[o].pc # "idle"
          PROVE  request'[o].started <= Issued(o)' + SessionTTL
      <3>1. CASE o # r BY <1>0, <1>1, <2>2, <3>1, RequestFrame DEF Lifetimes, Issued
      <3>2. CASE o = r
        BY <1>0, <1>2, <2>2, <3>2, RequestEffect DEF Continues, Lifetimes, Idle
      <3> QED BY <3>1, <3>2
    <2>3. \A s \in SessionIds : login'[s].pc \in {"read", "stored"} => Limited(login'[s].rec)
      BY <1>0, <1>3 DEF Lifetimes
    <2> QED BY <2>1, <2>2, <2>3 DEF Lifetimes, Limited
  <1> QED BY <1>6, <1>7

LEMMA RequestRevoke ==
  ASSUME Inv, TypeOK', NEW r \in Requests, RequestStep(r) \/ GrantFails(r)
  PROVE  RevokeInv'
  <1>0. TypeOK /\ Times /\ SameSession /\ VersionsCount /\ CacheBeforeRevocation
          /\ JudgeBeforeRevocation /\ PassedBeforeRevocation
    BY DEF Inv, RevokeInv
  <1>1. request[r] \in Pending /\ request[r].session \in SessionIds
    BY <1>0, RequestEffect DEF Pending
  <1>2. request[r].pc \in Stages /\ request[r].pc # "idle" BY <1>1 DEF Pending, Stages
  <1>3. control' = control /\ revokedAt' = revokedAt /\ lost' = lost /\ login' = login
    BY <1>0, <1>1, RequestEffect, RequestFrame DEF history
  <1>4. Offset' = Offset BY <1>3 DEF Offset, Known
  <1>5. Versioned(request[r].rec) /\ request[r].rec \in Record
    BY <1>0, <1>1, <1>2 DEF VersionsCount, Pending
  <1>6. VersionsCount'
    <2>1. ASSUME NEW s \in SessionIds, store'[s] # None PROVE Versioned(store'[s])
      <3>1. CASE store'[s] = store[s] BY <1>0, <2>1, <3>1 DEF VersionsCount
      <3>2. CASE store'[s] # store[s]
        <4>1. UpdateWrites(r) BY <1>0, <2>1, <3>2, RequestEffect
        <4>2. s = request[r].session BY <1>0, <1>1, <3>2, <4>1, UpdateEffect
        <4>3. store'[s].epoch = request[r].rec.epoch /\ store'[s].version = request[r].rec.version
              /\ store'[s].era = request[r].rec.era
          BY <1>0, <1>1, <4>1, <4>2, UpdateEffect
        <4> QED BY <1>5, <4>3 DEF Versioned
      <3> QED BY <3>1, <3>2
    <2>2. ASSUME NEW o \in Requests, request'[o].pc \in Stages PROVE Versioned(request'[o].rec)
      <3>1. CASE o # r BY <1>0, <1>1, <2>2, <3>1, RequestFrame DEF VersionsCount
      <3>2. CASE o = r
        <4>1. Continues(r) BY <1>0, <2>2, <3>2, RequestEffect DEF Idle, Stages
        <4>2. request'[r].rec.version = request[r].rec.version
              /\ request'[r].rec.epoch = request[r].rec.epoch
              /\ request'[r].rec.era = request[r].rec.era
          BY <1>2, <2>2, <3>2, <4>1 DEF Continues, Epoch, Era, Stages
        <4> QED BY <1>5, <3>2, <4>2 DEF Versioned
      <3> QED BY <3>1, <3>2
    <2>3. ASSUME NEW o \in Requests, request'[o].pc \in Stages \cup {"in"} PROVE Era(o)' <= lost
      <3>1. CASE o # r
        <4>1. request'[o] = request[o] BY <1>0, <1>1, <3>1, RequestFrame
        <4> QED BY <1>0, <2>3, <4>1 DEF VersionsCount, Era
      <3>2. CASE o = r
        <4>1. Continues(r) BY <1>0, <2>3, <3>2, RequestEffect DEF Idle, Stages
        <4> QED BY <1>0, <1>2, <3>2, <4>1 DEF VersionsCount, Continues
      <3> QED BY <3>1, <3>2
    <2> QED BY <1>0, <1>3, <1>4, <2>1, <2>2, <2>3 DEF VersionsCount, Versioned
  <1>7. CacheBeforeRevocation'
    <2>1. ASSUME NEW p \in Processes, NEW i \in 1..Len(revokedAt)
          PROVE  cache'[p] <= revokedAt[i] + TTL
      <3>0. Len(revokedAt) > 0 BY <1>0, Numbers
      <3>1. CASE cache'[p] = cache[p] BY <1>0, <3>0, <3>1 DEF CacheBeforeRevocation
      <3>2. CASE cache'[p] = 0
        <4>1. revokedAt[i] \in Nat BY <1>0, Numbers
        <4> QED BY <3>2, <4>1, TimesAssumption
      <3>3. CASE Judge(r) /\ request[r].control = None /\ cache'[p] = request[r].at + TTL
        <4>1. request[r].at <= revokedAt[i] BY <1>0, <3>3 DEF Judge, JudgeBeforeRevocation
        <4> QED BY <1>0, <1>2, <3>3, <4>1, Numbers
      <3> QED BY <1>0, <1>1, <3>1, <3>2, <3>3, RequestFrame
    <2> QED BY <1>3, <2>1 DEF CacheBeforeRevocation
  <1>8. JudgeBeforeRevocation'
    <2>1. ASSUME NEW o \in Requests, request'[o].pc = "judge", o # r
          PROVE  request'[o] = request[o] /\ request[o].pc = "judge"
      BY <1>0, <1>1, <2>1, RequestFrame
    <2>2. ASSUME request'[r].pc = "judge"
          PROVE  /\ request'[r].control = None => Len(revokedAt) = 0
                 /\ /\ ~Refuses(request'[r].control, request'[r].rec)
                    /\ request'[r].rec.era = lost
                    => ~(request'[r].rec.epoch < Len(revokedAt))
      <3>1. ReadControl(r) BY <1>0, <2>2, RequestEffect
      <3>2. request'[r] = [request[r] EXCEPT !.pc = "judge", !.control = control]
        BY <1>0, <3>1, TypeParts DEF ReadControl
      <3>3. request'[r].control = control /\ request'[r].rec = request[r].rec
        BY <1>1, <3>2 DEF Pending
      <3>4. control = None => Len(revokedAt) = 0 BY <1>0, Numbers DEF VersionsCount
      <3>5. ASSUME ~Refuses(control, request[r].rec), request[r].rec.era = lost
            PROVE  ~(request[r].rec.epoch < Len(revokedAt))
        <4>1. request[r].rec.version = request[r].rec.epoch + 1 + Known(control) - Len(revokedAt)
          BY <1>0, <1>5, <3>5, OffsetInt, Numbers DEF Versioned, Offset, Record
        <4>2. request[r].rec.epoch \in Nat /\ Len(revokedAt) \in Nat BY <1>0, <1>5, Numbers DEF Record
        <4>3. CASE control = None BY <3>4, <4>2, <4>3
        <4>4. CASE control # None
          <5>1. control.min \in Nat /\ Known(control) = control.min - 1
            BY <1>0, <4>4, TypeParts DEF RedisOK, Control, Known
          <5>2. ~(request[r].rec.version < control.min) BY <3>5, <4>4 DEF Refuses
          <5> QED BY <4>1, <4>2, <5>1, <5>2
        <4> QED BY <4>3, <4>4
      <3> QED BY <3>3, <3>4, <3>5
    <2> SUFFICES ASSUME NEW o \in Requests, request'[o].pc = "judge"
                 PROVE  /\ request'[o].control = None =>
                              \A i \in 1..Len(revokedAt) : request'[o].at <= revokedAt[i]
                        /\ /\ ~Refuses(request'[o].control, request'[o].rec)
                           /\ request'[o].rec.era = lost
                           /\ request'[o].rec.epoch < Len(revokedAt)
                           => request'[o].at <= revokedAt[request'[o].rec.epoch + 1]
      BY <1>3 DEF JudgeBeforeRevocation, Refuses
    <2>3. CASE o # r BY <1>0, <2>1, <2>3 DEF JudgeBeforeRevocation
    <2>4. CASE o = r
      <3>1. Len(revokedAt) = 0 => 1..Len(revokedAt) = {} OBVIOUS
      <3> QED BY <2>2, <2>4, <3>1
    <2> QED BY <2>3, <2>4
  <1>9. PassedBeforeRevocation'
    <2>1. ASSUME NEW o \in Requests, request'[o].pc \in Passed, Era(o)' = lost,
                 Epoch(o)' < Len(revokedAt)
          PROVE  request'[o].started < revokedAt[Epoch(o)' + 1] + TTL
      <3>1. CASE o # r
        <4>1. request'[o] = request[o] BY <1>0, <1>1, <3>1, RequestFrame
        <4>2. Epoch(o)' = Epoch(o) /\ Era(o)' = Era(o) BY <4>1 DEF Epoch, Era
        <4> QED BY <1>0, <2>1, <4>1, <4>2 DEF PassedBeforeRevocation
      <3>2. CASE o = r
        <4>0. request'[r].started = request[r].started /\ Epoch(r)' = Epoch(r) /\ Era(r)' = Era(r)
          BY <1>0, <2>1, <3>2, RequestEffect DEF Continues, Idle, Passed
        <4>00. request[r].pc \in Stages => Epoch(r) = request[r].rec.epoch /\ Era(r) = request[r].rec.era
          BY DEF Epoch, Era, Stages
        <4>01. Epoch(r) \in Nat /\ Epoch(r) + 1 \in 1..Len(revokedAt)
          BY <1>0, <1>2, <2>1, <3>2, <4>0, Numbers
        <4>1. CASE request[r].pc \in Passed
          BY <1>0, <2>1, <3>2, <4>0, <4>1 DEF PassedBeforeRevocation
        <4>2. CASE CacheHit(r)
          <5>1. request[r].process \in Processes /\ now < cache[request[r].process]
            BY <1>0, <1>1, <4>2, Numbers DEF Pending, CacheHit
          <5>2. Len(revokedAt) > 0 BY <1>0, <4>01, Numbers
          <5>3. cache[request[r].process] <= revokedAt[Epoch(r) + 1] + TTL
            BY <1>0, <4>01, <5>1, <5>2 DEF CacheBeforeRevocation
          <5>4. request[r].started <= now BY <1>0, <1>2 DEF Times
          <5>5. /\ request[r].started \in Int /\ now \in Int /\ TTL \in Int
                /\ cache[request[r].process] \in Int /\ revokedAt[Epoch(r) + 1] \in Int
            BY <1>0, <1>2, <4>01, <5>1, Numbers
          <5>6. request[r].started < revokedAt[Epoch(r) + 1] + TTL
            BY <5>1, <5>3, <5>4, <5>5
          <5> QED BY <3>2, <4>0, <5>6
        <4>3. CASE Approved(r)
          <5>1. Judge(r) /\ ~Refuses(request[r].control, request[r].rec) BY <4>3 DEF Approved
          <5>2. request[r].rec.era = lost /\ request[r].rec.epoch < Len(revokedAt)
            BY <1>2, <2>1, <3>2, <4>0, <4>00
          <5>3. request[r].at <= revokedAt[Epoch(r) + 1]
            BY <1>0, <1>2, <4>00, <5>1, <5>2 DEF Judge, JudgeBeforeRevocation
          <5>4. request[r].started <= request[r].at BY <1>0, <5>1 DEF Judge, Times
          <5> QED BY <1>0, <1>2, <3>2, <4>0, <4>01, <5>3, <5>4, Numbers
        <4> QED BY <1>0, <2>1, <3>2, <4>1, <4>2, <4>3, RequestEffect
      <3> QED BY <3>1, <3>2
    <2> QED BY <1>3, <2>1 DEF PassedBeforeRevocation
  <1> QED BY <1>6, <1>7, <1>8, <1>9 DEF RevokeInv

LEMMA RequestInv ==
  ASSUME Inv, TypeOK', NEW r \in Requests, RequestStep(r) \/ GrantFails(r)
  PROVE  Inv'
  <1>0. TypeOK /\ SameSession /\ BarredStaysBarred /\ WritersRead BY DEF Inv
  <1>1. UNCHANGED <<control, writer, history>> BY <1>0, RequestEffect, RequestFrame
  <1>2. BarredStaysBarred' /\ WritersRead'
    BY <1>0, <1>1 DEF BarredStaysBarred, WritersRead, KnowsBar, Blocks, history
  <1> QED BY <1>2, RequestTimes, RequestBlock, RequestSessions, RequestRevoke DEF Inv

LEMMA ReadSessionInv ==
  ASSUME Inv, TypeOK', NEW r \in Requests, NEW p \in Processes, NEW s \in SessionIds,
         ReadSession(r, p, s)
  PROVE  Inv'
  <1>0. TypeOK BY DEF Inv
  <1>1. UNCHANGED <<control, login, cache, writer, now, writes, history>>
    BY DEF ReadSession, DeleteIfExpired, Delete, redis
  <1>2. \A x \in SessionIds : store'[x] = store[x] \/ store'[x] = None
    BY <1>0, TypeParts DEF ReadSession, DeleteIfExpired, Delete, StoreWithout, redis
  <1>3. \A o \in Requests : o # r => request'[o] = request[o]
    BY <1>0, TypeParts DEF ReadSession, TurnAway
  <1>4. \/ request'[r] = Idle
        \/ /\ Serves(s) /\ login[s] = Idle
           /\ request'[r] = [pc |-> "check", process |-> p, session |-> s, started |-> now,
                             rec |-> store[s], at |-> 0, control |-> None]
    BY <1>0, TypeParts DEF ReadSession, TurnAway
  <1>5. \A o \in Requests : request'[o].pc \in {"ask", "judge"} \cup Passed =>
           request'[o] = request[o]
    BY <1>3, <1>4 DEF Idle, Passed
  <1>6. \A o \in Requests : request'[o] = request[o] =>
           Epoch(o)' = Epoch(o) /\ Issued(o)' = Issued(o) /\ Era(o)' = Era(o)
    BY DEF Epoch, Issued, Era
  <1>7. Times'
    <2>0. Times /\ now <= now BY <1>0, Numbers DEF Inv
    <2>1. \A o \in Requests : request'[o].pc # "idle" => request'[o].started <= now
      BY <1>3, <1>4, <2>0 DEF Times, Idle
    <2> QED BY <1>1, <1>5, <2>1 DEF Inv, Times, history
  <1>8. BlockInv'
    BY <1>1, <1>5 DEF Inv, BlockInv, BlockDated, CacheBeforeBlock, JudgeBeforeBlock,
                      PassedBeforeBlock, Blocks, history
  <1>9. BarredStaysBarred' /\ WritersRead'
    BY <1>1 DEF Inv, BarredStaysBarred, WritersRead, KnowsBar, Blocks, history
  <1>10. SameSession'
    <2>1. \A o \in Requests : request'[o].pc \in Stages =>
             \/ request'[o] = request[o] /\ request[o].pc \in Stages
             \/ /\ request'[o].session = s /\ request'[o].rec = store[s]
                /\ store[s] # None /\ login[s] = Idle
      BY <1>3, <1>4 DEF Idle, Stages, Serves
    <2>2. SameSession BY DEF Inv
    <2> SUFFICES ASSUME NEW o \in Requests, request'[o].pc \in Stages
                 PROVE
        /\ login'[request'[o].session] = Idle
        /\ store'[request'[o].session] # None =>
              /\ store'[request'[o].session].epoch = request'[o].rec.epoch
              /\ store'[request'[o].session].era = request'[o].rec.era
              /\ store'[request'[o].session].issued = request'[o].rec.issued
              /\ store'[request'[o].session].version = request'[o].rec.version
        /\ \A x \in Requests :
              request'[x].pc \in Stages /\ request'[x].session = request'[o].session =>
                  /\ request'[x].rec.epoch = request'[o].rec.epoch
                  /\ request'[x].rec.era = request'[o].rec.era
                  /\ request'[x].rec.issued = request'[o].rec.issued
                  /\ request'[x].rec.version = request'[o].rec.version
      BY DEF SameSession
    <2>3. request'[o].session \in SessionIds
      <3>1. CASE request'[o] = request[o] /\ request[o].pc \in Stages
        BY <1>0, <3>1, PendingShape DEF Pending
      <3>2. CASE request'[o].session = s BY <3>2
      <3> QED BY <2>1, <3>1, <3>2
    <2>4. login'[request'[o].session] = Idle BY <1>1, <2>1, <2>2 DEF SameSession
    <2>5. store[request'[o].session] # None =>
              /\ store[request'[o].session].epoch = request'[o].rec.epoch
              /\ store[request'[o].session].era = request'[o].rec.era
              /\ store[request'[o].session].issued = request'[o].rec.issued
              /\ store[request'[o].session].version = request'[o].rec.version
      BY <2>1, <2>2 DEF SameSession
    <2>6. \A x \in Requests :
              request'[x].pc \in Stages /\ request'[x].session = request'[o].session =>
                  /\ request'[x].rec.epoch = request'[o].rec.epoch
                  /\ request'[x].rec.era = request'[o].rec.era
                  /\ request'[x].rec.issued = request'[o].rec.issued
                  /\ request'[x].rec.version = request'[o].rec.version
      BY <2>1, <2>2 DEF SameSession
    <2> QED BY <1>2, <2>3, <2>4, <2>5, <2>6
  <1>11. Lifetimes'
    <2>1. Serves(s) => store[s] # None /\ store[s] \in Record /\ now <= store[s].issued + SessionTTL
      <3>1. Serves(s) => store[s] # None /\ store[s] \in Record /\ store[s].expires >= now
        BY <1>0, StoreShape DEF Serves
      <3>2. store[s] # None => store[s].expires <= store[s].issued + SessionTTL
        BY DEF Inv, Lifetimes, Limited
      <3>3. now \in Int /\ SessionTTL \in Int BY <1>0, Numbers
      <3>4. store[s] \in Record => store[s].expires \in Int /\ store[s].issued \in Int
        BY TimesAssumption DEF Record
      <3> QED BY <3>1, <3>2, <3>3, <3>4
    <2>2. ASSUME NEW o \in Requests, request'[o].pc # "idle"
          PROVE  request'[o].started <= Issued(o)' + SessionTTL
      <3>1. CASE o # r BY <1>3, <1>6, <2>2, <3>1 DEF Inv, Lifetimes
      <3>2. CASE o = r BY <1>4, <2>1, <2>2, <3>2 DEF Issued, Idle
      <3> QED BY <3>1, <3>2
    <2> QED BY <1>1, <1>2, <2>2 DEF Inv, Lifetimes, Limited
  <1>12. RevokeInv'
    <2>0. VersionsCount /\ CacheBeforeRevocation /\ JudgeBeforeRevocation /\ PassedBeforeRevocation
      BY DEF Inv, RevokeInv
    <2>1. Offset' = Offset /\ lost' = lost /\ revokedAt' = revokedAt
      BY <1>1 DEF Offset, Known, history
    <2>2. \A o \in Requests : request'[o].pc \in Stages => Versioned(request'[o].rec)
      BY <1>3, <1>4, <2>0 DEF VersionsCount, Idle, Stages, Serves
    <2>3. \A o \in Requests : request'[o].pc \in Stages \cup {"in"} => Era(o)' <= lost
      BY <1>3, <1>4, <2>0, <2>2 DEF VersionsCount, Versioned, Era, Idle, Stages
    <2>4. VersionsCount'
      BY <1>1, <1>2, <2>0, <2>1, <2>2, <2>3 DEF VersionsCount, Versioned
    <2>5. CacheBeforeRevocation' BY <1>1, <2>0, <2>1 DEF CacheBeforeRevocation
    <2>6. JudgeBeforeRevocation' BY <1>5, <2>0, <2>1 DEF JudgeBeforeRevocation, Refuses
    <2>7. PassedBeforeRevocation' BY <1>5, <1>6, <2>0, <2>1 DEF PassedBeforeRevocation
    <2> QED BY <2>4, <2>5, <2>6, <2>7 DEF RevokeInv
  <1> QED BY <1>7, <1>8, <1>9, <1>10, <1>11, <1>12 DEF Inv

-----------------------------------------------------------------------------
(***************************************************************************)
(* Steps that leave the requests alone.                                    *)
(***************************************************************************)
LEMMA QuietInv ==
  ASSUME Inv, TypeOK', UNCHANGED <<request, cache, control, history>>, now <= now',
         WritersRead', SameSession',
         \A s \in SessionIds : store'[s] # None => Limited(store'[s]),
         \A s \in SessionIds : login'[s].pc \in {"read", "stored"} => Limited(login'[s].rec),
         \A s \in SessionIds : store'[s] # None => Versioned(store'[s]),
         \A s \in SessionIds : login'[s].pc \in {"read", "stored"} => Versioned(login'[s].rec)
  PROVE  Inv'
  <1>0. TypeOK /\ now' \in Int BY TypeParts, NextTypeParts DEF Inv
  <1>1. Times'
    <2>1. \A p \in Processes : cache'[p] <= now' + TTL
      BY <1>0, Numbers DEF Inv, Times
    <2>2. ASSUME NEW r \in Requests
          PROVE  /\ request[r].pc # "idle" => request[r].started <= now'
                 /\ request[r].pc \in {"ask", "judge"} =>
                       request[r].started <= request[r].at /\ request[r].at <= now'
      <3>1. request[r].pc \in Stages \cup {"in", "idle"}
        <4>1. request[r] \in States BY <1>0, TypeParts
        <4> QED BY <4>1 DEF States, Idle, Pending, Admitted
      <3>2. request[r].pc # "idle" => request[r].started \in Int /\ request[r].started <= now
        BY <1>0, <3>1, Numbers DEF Inv, Times
      <3>3. request[r].pc \in {"ask", "judge"} =>
               request[r].at \in Int /\ request[r].started <= request[r].at /\ request[r].at <= now
        BY <1>0, Numbers DEF Inv, Times, Stages
      <3> QED BY <1>0, <3>2, <3>3, Numbers
    <2>3. blockedAt <= now' /\ \A i \in 1..Len(revokedAt) : revokedAt[i] <= now'
      BY <1>0, Numbers DEF Inv, Times
    <2> QED BY <2>1, <2>2, <2>3 DEF Times, history
  <1>2. BlockInv'
    BY DEF Inv, BlockInv, BlockDated, CacheBeforeBlock, JudgeBeforeBlock, PassedBeforeBlock,
           Blocks, history
  <1>3. BarredStaysBarred' BY DEF Inv, BarredStaysBarred, Blocks, history
  <1>4. Lifetimes'
    <2>1. \A r \in Requests : Issued(r)' = Issued(r) BY DEF Issued
    <2> QED BY <2>1 DEF Inv, Lifetimes, Limited
  <1>5. RevokeInv'
    <2>0. VersionsCount /\ CacheBeforeRevocation /\ JudgeBeforeRevocation /\ PassedBeforeRevocation
      BY DEF Inv, RevokeInv
    <2>1. \A r \in Requests : Epoch(r)' = Epoch(r) /\ Era(r)' = Era(r) BY DEF Epoch, Era
    <2>2. Offset' = Offset /\ lost' = lost /\ revokedAt' = revokedAt
      BY DEF Offset, Known, history
    <2>3. VersionsCount' BY <2>0, <2>1, <2>2 DEF VersionsCount, Versioned
    <2>4. CacheBeforeRevocation' /\ JudgeBeforeRevocation'
      BY <2>0, <2>2 DEF CacheBeforeRevocation, JudgeBeforeRevocation, Refuses
    <2>5. PassedBeforeRevocation' BY <2>0, <2>1, <2>2 DEF PassedBeforeRevocation
    <2> QED BY <2>3, <2>4, <2>5 DEF RevokeInv
  <1> QED BY <1>1, <1>2, <1>3, <1>4, <1>5 DEF Inv

\* Records that disappear, and logins that stay as they are, disturb nothing.
LEMMA StoreShrinks ==
  ASSUME Inv, UNCHANGED <<request, login, history>>,
         \A s \in SessionIds : store'[s] \in {store[s], None}
  PROVE  /\ SameSession'
         /\ \A s \in SessionIds : store'[s] # None => Limited(store'[s])
         /\ \A s \in SessionIds : login'[s].pc \in {"read", "stored"} => Limited(login'[s].rec)
         /\ \A s \in SessionIds : store'[s] # None => Versioned(store'[s])
         /\ \A s \in SessionIds : login'[s].pc \in {"read", "stored"} => Versioned(login'[s].rec)
  <1>1. TypeOK /\ SameSession /\ Lifetimes /\ RevokeInv BY DEF Inv
  <1>2. \A r \in Requests : request[r].pc \in Stages => request[r].session \in SessionIds
    BY <1>1, PendingShape DEF Pending
  <1>3. SameSession'
    <2> SUFFICES ASSUME NEW r \in Requests, request[r].pc \in Stages,
                        store'[request[r].session] # None
                 PROVE  store'[request[r].session] = store[request[r].session]
      BY <1>1 DEF SameSession
    <2> QED BY <1>2
  <1>4. VersionsCount BY <1>1 DEF RevokeInv
  <1> QED BY <1>1, <1>3, <1>4 DEF Lifetimes, VersionsCount

LEMMA ElsewhereSame ==
  ASSUME Inv, NEW s \in SessionIds, UNCHANGED request,
         \A r \in Requests : request[r].pc \in Stages => request[r].session # s,
         \A x \in SessionIds : x # s => login'[x] = login[x] /\ store'[x] = store[x]
  PROVE  SameSession'
  <1>1. TypeOK /\ SameSession BY DEF Inv
  <1>2. \A r \in Requests : request[r].pc \in Stages => request[r].session \in SessionIds \ {s}
    BY <1>1, PendingShape DEF Pending
  <1> QED BY <1>1, <1>2 DEF SameSession

LEMMA LoginInv ==
  ASSUME Inv, TypeOK', NEW s \in SessionIds, LoginStarts(s) \/ LoginStep(s) \/ Logout(s)
  PROVE  Inv'
  <1>0. TypeOK /\ SameSession /\ Lifetimes /\ WritersRead BY DEF Inv
  <1>00. VersionsCount BY DEF Inv, RevokeInv
  <1>01. now <= now BY <1>0, Numbers
  <1>02. login[s] # Idle =>
            \A r \in Requests : request[r].pc \in Stages => request[r].session # s
    BY <1>0 DEF SameSession
  <1>1. CASE LoginStarts(s)
    <2>1. \A r \in Requests : request[r].pc \in Stages => request[r].session # s
      BY <1>1 DEF LoginStarts, InUse, Stages
    <2>2. /\ \A x \in SessionIds : x # s => login'[x] = login[x]
          /\ login'[s].pc = "stamped" /\ UNCHANGED <<request, cache, control, history, now, store>>
      BY <1>0, <1>1, TypeParts DEF LoginStarts
    <2>3. WritersRead'
      <3>1. ASSUME NEW w \in Writers, writer'[w].pc = "write" PROVE writer'[w] = writer[w]
        <4>1. writer'[w] = IF writer[w].pc = "deleting"
                           THEN [writer[w] EXCEPT !.ids = @ \ {s}] ELSE writer[w]
          BY <1>1 DEF LoginStarts
        <4>2. CASE writer[w].pc = "deleting"
          <5>1. [writer[w] EXCEPT !.ids = @ \ {s}].pc = "deleting"
            BY <1>0, <4>2, DeletingShape
          <5> QED BY <3>1, <4>1, <4>2, <5>1
        <4> QED BY <4>1, <4>2
      <3> QED BY <1>0, <2>2, <3>1 DEF WritersRead, KnowsBar, history
    <2>4. SameSession' BY <2>1, <2>2, ElsewhereSame
    <2>5. /\ \A x \in SessionIds : store'[x] # None => Limited(store'[x])
          /\ \A x \in SessionIds : login'[x].pc \in {"read", "stored"} => Limited(login'[x].rec)
      BY <1>0, <2>2 DEF Lifetimes
    <2>6. /\ \A x \in SessionIds : store'[x] # None => Versioned(store'[x])
          /\ \A x \in SessionIds : login'[x].pc \in {"read", "stored"} => Versioned(login'[x].rec)
      BY <1>00, <2>2 DEF VersionsCount
    <2> QED BY <1>01, <2>2, <2>3, <2>4, <2>5, <2>6, QuietInv
  <1>2. CASE LoginReads(s)
    <2> DEFINE rec == [version |-> IF control = None THEN 1 ELSE control.min,
                       issued |-> login[s].issued,
                       expires |-> login[s].issued + Least(TokenTTL, SessionTTL),
                       epoch |-> Len(revokedAt), era |-> lost]
    <2>1. login[s] # Idle /\ login[s].issued \in Int
      BY <1>0, <1>2, StampedShape, TimesAssumption DEF LoginReads, Idle
    <2>2. /\ \A x \in SessionIds : x # s => login'[x] = login[x]
          /\ login'[s] = Idle \/ login'[s] = [pc |-> "read", rec |-> rec]
          /\ UNCHANGED <<request, cache, control, history, now, store, writer>>
      BY <1>0, <1>2, TypeParts DEF LoginReads, redis
    <2>3. Limited(rec) BY <2>1, TimesAssumption DEF Limited, Least
    <2>4. Versioned(rec)
      <3>1. rec.version = Known(control) + 1
        <4>1. control # None => control.min \in Nat BY <1>0, TypeParts DEF RedisOK, Control
        <4> QED BY <4>1 DEF Known
      <3>2. rec.epoch = Len(revokedAt) /\ rec.era = lost /\ lost \in Nat /\ Len(revokedAt) \in Nat
        BY <1>0, TypeParts, Numbers DEF HistoryOK
      <3>3. Known(control) \in Nat BY <1>0, OffsetInt
      <3> HIDE DEF rec
      <3> QED BY <3>1, <3>2, <3>3 DEF Versioned, Offset
    <2> HIDE DEF rec
    <2>5. SameSession' BY <1>02, <2>1, <2>2, ElsewhereSame
    <2>6. /\ \A x \in SessionIds : store'[x] # None => Limited(store'[x])
          /\ \A x \in SessionIds : login'[x].pc \in {"read", "stored"} => Limited(login'[x].rec)
      BY <1>0, <2>2, <2>3 DEF Lifetimes, Idle
    <2>7. /\ \A x \in SessionIds : store'[x] # None => Versioned(store'[x])
          /\ \A x \in SessionIds : login'[x].pc \in {"read", "stored"} => Versioned(login'[x].rec)
      BY <1>00, <2>2, <2>4 DEF VersionsCount, Idle
    <2>8. WritersRead' BY <1>0, <2>2 DEF WritersRead, KnowsBar, history
    <2> QED BY <1>01, <2>2, <2>5, <2>6, <2>7, <2>8, QuietInv
  <1>3. CASE LoginStores(s)
    <2>1. /\ \A x \in SessionIds : x # s => login'[x] = login[x] /\ store'[x] = store[x]
          /\ store'[s] = login[s].rec /\ login'[s].rec = login[s].rec
          /\ UNCHANGED <<request, cache, control, history, now, writer>>
      <3>1. login[s] \in [pc : {"read", "stored"}, rec : Record]
        <4>1. login[s] \in Logins BY <1>0, TypeParts
        <4> QED BY <1>3, <4>1 DEF LoginStores, Logins, Idle
      <3>2. login'[s] = [login[s] EXCEPT !.pc = "stored"]
        BY <1>0, <1>3, TypeParts DEF LoginStores
      <3>3. login'[s].rec = login[s].rec BY <3>1, <3>2
      <3> QED BY <1>0, <1>3, <3>3, TypeParts DEF LoginStores, Put, RedisOK
    <2>2. login[s].pc = "read" /\ login[s] # Idle BY <1>3 DEF LoginStores, Idle
    <2>3. SameSession' BY <1>02, <2>1, <2>2, ElsewhereSame
    <2>4. /\ \A x \in SessionIds : store'[x] # None => Limited(store'[x])
          /\ \A x \in SessionIds : login'[x].pc \in {"read", "stored"} => Limited(login'[x].rec)
      BY <1>0, <2>1, <2>2 DEF Lifetimes
    <2>5. /\ \A x \in SessionIds : store'[x] # None => Versioned(store'[x])
          /\ \A x \in SessionIds : login'[x].pc \in {"read", "stored"} => Versioned(login'[x].rec)
      BY <1>00, <2>1, <2>2 DEF VersionsCount
    <2>6. WritersRead' BY <1>0, <2>1 DEF WritersRead, KnowsBar, history
    <2> QED BY <1>01, <2>1, <2>3, <2>4, <2>5, <2>6, QuietInv
  <1>4. CASE LoginIndexes(s)
    <2>1. /\ \A x \in SessionIds : x # s => login'[x] = login[x]
          /\ login'[s] = Idle
          /\ UNCHANGED <<request, cache, control, history, now, writer, store>>
      BY <1>0, <1>4, TypeParts DEF LoginIndexes
    <2>2. login[s] # Idle BY <1>4 DEF LoginIndexes, Idle
    <2>3. SameSession' BY <1>02, <2>1, <2>2, ElsewhereSame
    <2>4. /\ \A x \in SessionIds : store'[x] # None => Limited(store'[x])
          /\ \A x \in SessionIds : login'[x].pc \in {"read", "stored"} => Limited(login'[x].rec)
      BY <1>0, <2>1 DEF Lifetimes, Idle
    <2>5. /\ \A x \in SessionIds : store'[x] # None => Versioned(store'[x])
          /\ \A x \in SessionIds : login'[x].pc \in {"read", "stored"} => Versioned(login'[x].rec)
      BY <1>00, <2>1 DEF VersionsCount, Idle
    <2>6. WritersRead' BY <1>0, <2>1 DEF WritersRead, KnowsBar, history
    <2> QED BY <1>01, <2>1, <2>3, <2>4, <2>5, <2>6, QuietInv
  <1>5. CASE Logout(s)
    <2>1. /\ \A x \in SessionIds : store'[x] \in {store[x], None}
          /\ UNCHANGED <<request, login, cache, control, history, now, writer>>
      BY <1>0, <1>5, TypeParts DEF Logout, Delete, StoreWithout
    <2>2. WritersRead' BY <1>0, <2>1 DEF WritersRead, KnowsBar, history
    <2> QED BY <1>01, <2>1, <2>2, StoreShrinks, QuietInv
  <1> QED BY <1>1, <1>2, <1>3, <1>4, <1>5 DEF LoginStep

-----------------------------------------------------------------------------
(***************************************************************************)
(* Steps of the administration.                                            *)
(***************************************************************************)
LEMMA NoteWriteBlock ==
  ASSUME Inv, TypeOK', NEW w \in Writers, NoteWrite(w), UNCHANGED <<request, cache, now>>
  PROVE  BlockInv' /\ blockedAt' <= now'
  <1> DEFINE next == control'
  <1>0. TypeOK /\ Times /\ BlockInv BY DEF Inv
  <1>1. blockedAt' = IF ~Blocks(next) THEN -1 ELSE IF Blocks(control) THEN blockedAt ELSE now
    BY DEF NoteWrite
  <1>2. now \in 0..MaxTime /\ now \in Int /\ now >= 0 BY <1>0, TypeParts, TimesAssumption
  <1>3. blockedAt' <= now' BY <1>0, <1>1, <1>2 DEF Times
  <1>4. BlockDated'
    BY <1>0, <1>1, <1>2 DEF BlockInv, BlockDated, Blocks
  <1>5. CASE ~Blocks(next)
    BY <1>1, <1>3, <1>4, <1>5
       DEF BlockInv, CacheBeforeBlock, JudgeBeforeBlock, PassedBeforeBlock
  <1>6. CASE Blocks(next) /\ Blocks(control)
    BY <1>0, <1>1, <1>3, <1>4, <1>6
       DEF BlockInv, CacheBeforeBlock, JudgeBeforeBlock, PassedBeforeBlock, Blocks
  <1>7. CASE Blocks(next) /\ ~Blocks(control)
    <2>1. blockedAt' = now BY <1>1, <1>7
    <2>2. CacheBeforeBlock' BY <1>0, <2>1 DEF CacheBeforeBlock, Times
    <2>3. JudgeBeforeBlock' BY <1>0, <2>1 DEF JudgeBeforeBlock, Times
    <2>4. ASSUME NEW r \in Requests, request[r].pc \in Passed
          PROVE  request[r].started < now + TTL
      <3>1. request[r].started <= now BY <1>0, <2>4 DEF Times, Passed
      <3>2. request[r].pc \in Stages \cup {"in"} BY <2>4 DEF Passed, Stages
      <3> QED BY <1>0, <1>2, <3>1, <3>2, Numbers
    <2>5. PassedBeforeBlock' BY <2>1, <2>4 DEF PassedBeforeBlock
    <2> QED BY <1>3, <1>4, <2>2, <2>3, <2>5 DEF BlockInv
  <1> QED BY <1>5, <1>6, <1>7

\* What is lost with a write ends the era; what is not raises the version.
LEMMA RevokeWritesRevocations ==
  ASSUME Inv, TypeOK', NEW w \in Writers, RevokeWrites(w),
         control' # None, control'.min = Known(writer[w].seen) + 2,
         Known(writer[w].seen) \in Nat
  PROVE  RevokeInv'
  <1> DEFINE n == Len(revokedAt)
  <1>0. TypeOK /\ Times /\ VersionsCount /\ CacheBeforeRevocation
          /\ JudgeBeforeRevocation /\ PassedBeforeRevocation
    BY DEF Inv, RevokeInv
  <1>1. /\ lost' = IF control = writer[w].seen THEN lost ELSE lost + 1
        /\ revokedAt' = Append(revokedAt, now)
        /\ UNCHANGED <<store, login, request, cache, now>>
    BY DEF RevokeWrites, NoteRevocation, NoteWrite
  <1>2. n \in Nat /\ Len(revokedAt') = n + 1 /\ revokedAt'[n + 1] = now
        /\ \A i \in 1..n : revokedAt'[i] = revokedAt[i]
    <2>1. revokedAt \in Seq(0..MaxTime) /\ now \in 0..MaxTime BY <1>0, TypeParts DEF HistoryOK
    <2> QED BY <1>1, <2>1
  <1>3. lost \in Nat /\ lost' \in Nat /\ lost <= lost' BY <1>0, <1>1, TypeParts DEF HistoryOK
  <1>4. \A era \in Nat : era <= lost /\ era = lost' => lost' = lost /\ control = writer[w].seen
    BY <1>1, <1>3
  <1>5. lost' = lost => Offset' = Offset
    <2>1. ASSUME lost' = lost PROVE Known(control)' = Known(control) + 1
      BY <1>1, <1>3, <2>1 DEF Known
    <2>2. Known(control) \in Nat BY <1>0, OffsetInt
    <2> QED BY <1>2, <2>1, <2>2 DEF Offset
  <1> DEFINE StaysVersioned(rec) ==
               rec.era <= lost' /\ (rec.era = lost' => rec.version = rec.epoch + 1 + Offset')
  <1>6. ASSUME NEW rec \in Record, Versioned(rec) PROVE StaysVersioned(rec)
    <2>1. rec.era \in Nat /\ rec.era <= lost BY <1>6 DEF Record, Versioned
    <2>2. rec.era <= lost' BY <1>3, <2>1
    <2>3. rec.era = lost' => rec.version = rec.epoch + 1 + Offset'
      BY <1>4, <1>5, <1>6, <2>1 DEF Versioned
    <2> QED BY <2>2, <2>3
  <1> HIDE DEF StaysVersioned
  <1>7. VersionsCount'
    <2>1. \A s \in SessionIds : store[s] # None => StaysVersioned(store[s])
      BY <1>0, <1>6, StoreShape DEF VersionsCount
    <2>2. \A s \in SessionIds : login[s].pc \in {"read", "stored"} => StaysVersioned(login[s].rec)
      BY <1>0, <1>6, LoginShape DEF VersionsCount
    <2>3. \A r \in Requests : request[r].pc \in Stages => StaysVersioned(request[r].rec)
      BY <1>0, <1>6, Numbers DEF VersionsCount
    <2>4. ASSUME NEW r \in Requests, request[r].pc \in Stages \cup {"in"} PROVE Era(r) <= lost'
      <3>1. Era(r) \in Nat /\ Era(r) <= lost BY <1>0, <2>4, Numbers DEF VersionsCount
      <3> QED BY <1>3, <3>1
    <2> QED BY <1>1, <2>1, <2>2, <2>3, <2>4 DEF VersionsCount, Versioned, StaysVersioned, Era
  <1>8. CacheBeforeRevocation'
    <2>1. ASSUME NEW p \in Processes, NEW i \in 1..n + 1 PROVE cache[p] <= revokedAt'[i] + TTL
      <3>1. CASE i = n + 1 BY <1>0, <1>2, <3>1 DEF Times
      <3>2. CASE i \in 1..n
        <4>1. n > 0 BY <1>2, <3>2
        <4> QED BY <1>0, <1>2, <3>2, <4>1 DEF CacheBeforeRevocation
      <3> QED BY <1>2, <3>1, <3>2
    <2> QED BY <1>1, <1>2, <2>1 DEF CacheBeforeRevocation
  <1>9. JudgeBeforeRevocation'
    <2>1. ASSUME NEW r \in Requests, request[r].pc = "judge"
          PROVE  /\ request[r].control = None =>
                       \A i \in 1..n + 1 : request[r].at <= revokedAt'[i]
                 /\ /\ ~Refuses(request[r].control, request[r].rec)
                    /\ request[r].rec.era = lost' /\ request[r].rec.epoch < n + 1
                    => request[r].at <= revokedAt'[request[r].rec.epoch + 1]
      <3>0. request[r].at <= now BY <1>0, <2>1 DEF Times
      <3>1. ASSUME request[r].control = None, NEW i \in 1..n + 1
            PROVE  request[r].at <= revokedAt'[i]
        <4>1. CASE i = n + 1 BY <1>2, <3>0, <4>1
        <4>2. CASE i \in 1..n BY <1>0, <1>2, <2>1, <3>1, <4>2 DEF JudgeBeforeRevocation
        <4> QED BY <1>2, <4>1, <4>2
      <3>2. ASSUME ~Refuses(request[r].control, request[r].rec),
                   request[r].rec.era = lost', request[r].rec.epoch < n + 1
            PROVE  request[r].at <= revokedAt'[request[r].rec.epoch + 1]
        <4>1. request[r].rec \in Record /\ Versioned(request[r].rec)
          BY <1>0, <2>1, Numbers DEF VersionsCount, Stages
        <4>2. request[r].rec.era = lost /\ request[r].rec.epoch \in Nat
          BY <1>4, <3>2, <4>1 DEF Record, Versioned
        <4>3. CASE request[r].rec.epoch = n BY <1>2, <3>0, <4>3
        <4>4. CASE request[r].rec.epoch # n
          <5>1. request[r].rec.epoch < n /\ request[r].rec.epoch + 1 \in 1..n
            BY <1>2, <3>2, <4>2, <4>4
          <5> QED BY <1>0, <1>2, <2>1, <3>2, <4>2, <5>1 DEF JudgeBeforeRevocation
        <4> QED BY <4>3, <4>4
      <3> QED BY <3>1, <3>2
    <2> QED BY <1>1, <1>2, <2>1 DEF JudgeBeforeRevocation, Refuses
  <1>10. PassedBeforeRevocation'
    <2>1. ASSUME NEW r \in Requests, request[r].pc \in Passed, Era(r) = lost', Epoch(r) < n + 1
          PROVE  request[r].started < revokedAt'[Epoch(r) + 1] + TTL
      <3>1. request[r].pc \in Stages \cup {"in"} BY <2>1 DEF Passed, Stages
      <3>2. Epoch(r) \in Nat /\ request[r].started \in Int /\ Era(r) = lost
        <4>1. Epoch(r) \in Nat /\ request[r].started \in Int /\ Era(r) \in Nat /\ Era(r) <= lost
          BY <1>0, <3>1, Numbers DEF VersionsCount
        <4> QED BY <1>4, <2>1, <4>1
      <3>3. CASE Epoch(r) = n
        <4>1. request[r].started <= now BY <1>0, <2>1 DEF Times, Passed
        <4> QED BY <1>0, <1>2, <3>2, <3>3, <4>1, Numbers
      <3>4. CASE Epoch(r) # n
        <4>1. Epoch(r) < n /\ Epoch(r) + 1 \in 1..n BY <1>2, <2>1, <3>2, <3>4
        <4> QED BY <1>0, <1>2, <2>1, <3>2, <4>1 DEF PassedBeforeRevocation
      <3> QED BY <3>3, <3>4
    <2>2. \A r \in Requests : Epoch(r)' = Epoch(r) /\ Era(r)' = Era(r) BY <1>1 DEF Epoch, Era
    <2> QED BY <1>1, <1>2, <2>1, <2>2 DEF PassedBeforeRevocation
  <1> QED BY <1>7, <1>8, <1>9, <1>10 DEF RevokeInv

\* An irrevocable block is carried over by whoever knows of it.
LEMMA RevokeWritesBar ==
  ASSUME Inv, TypeOK', NEW w \in Writers, RevokeWrites(w),
         control' # None, control'.block = NextBlock(writer[w].seen, writer[w].mode)
  PROVE  BarredStaysBarred' /\ WritersRead'
  <1>0. TypeOK /\ BarredStaysBarred /\ WritersRead BY DEF Inv
  <1>1. /\ writer[w].pc = "write" /\ writer[w].mode # "readmit"
        /\ revokedAt' = Append(revokedAt, now)
        /\ barred' = IF writer[w].mode = "bar" /\ barred = 0 THEN Len(revokedAt')
                     ELSE IF writer[w].mode = "bar" \/ (writer[w].mode = "suspend" /\ KnowsBar(w))
                     THEN barred ELSE 0
        /\ writer' = [writer EXCEPT ![w] = [pc |-> "list"]]
    BY DEF RevokeWrites, NoteRevocation
  <1>2. Len(revokedAt) \in Nat /\ Len(revokedAt') = Len(revokedAt) + 1
    <2>1. revokedAt \in Seq(0..MaxTime) /\ now \in 0..MaxTime BY <1>0, TypeParts DEF HistoryOK
    <2> QED BY <1>1, <2>1
  <1>3. BarredStaysBarred'
    <2> SUFFICES ASSUME barred' # 0 PROVE control'.block = "barred"
      BY DEF BarredStaysBarred, Blocks
    <2>1. CASE writer[w].mode = "bar" BY <2>1 DEF NextBlock
    <2>2. CASE writer[w].mode # "bar"
      <3>1. writer[w].mode = "suspend" /\ KnowsBar(w) BY <1>1, <2>2
      <3>2. writer[w].seen # None /\ writer[w].seen.block = "barred"
        BY <1>0, <1>1, <3>1 DEF WritersRead
      <3> QED BY <3>1, <3>2 DEF NextBlock
    <2> QED BY <2>1, <2>2
  <1>4. WritersRead'
    <2>1. ASSUME NEW x \in Writers, writer'[x].pc = "write"
          PROVE  writer'[x] = writer[x] /\ writer[x].since \in Nat /\ writer[x].since <= Len(revokedAt)
      <3>1. x # w BY <1>0, <1>1, <2>1, TypeParts
      <3>2. writer'[x] = writer[x] BY <1>0, <1>1, <3>1, TypeParts
      <3> QED BY <1>0, <2>1, <3>2, WriteShape DEF WritersRead
    <2>2. \A x \in Writers : writer'[x].pc = "write" => writer'[x].since <= Len(revokedAt')
      BY <1>2, <2>1
    <2>3. ASSUME NEW x \in Writers, writer'[x].pc = "write", KnowsBar(x)' PROVE KnowsBar(x)
      <3>1. barred' # 0 /\ writer[x].since >= barred' BY <2>1, <2>3 DEF KnowsBar
      <3>2. barred' = barred BY <1>1, <1>2, <2>1, <2>3, <3>1
      <3> QED BY <3>1, <3>2 DEF KnowsBar
    <2> QED BY <1>0, <2>1, <2>2, <2>3 DEF WritersRead
  <1> QED BY <1>3, <1>4

LEMMA RevokeWritesInv ==
  ASSUME Inv, TypeOK', NEW w \in Writers, RevokeWrites(w)
  PROVE  Inv'
  <1> DEFINE q == writer[w]
             n == Len(revokedAt)
  <1>0. TypeOK /\ Times /\ SameSession /\ Lifetimes BY DEF Inv
  <1>1. q.seen \in Control BY <1>0, WriteShape DEF RevokeWrites
  <1>2. /\ NoteWrite(w) /\ revokedAt' = Append(revokedAt, now)
        /\ UNCHANGED <<store, login, request, cache, now>>
    BY DEF RevokeWrites, NoteRevocation
  <1>3. control' # None /\ control'.min = Known(q.seen) + 2 /\ Known(q.seen) \in Nat
        /\ control'.block = NextBlock(q.seen, q.mode)
    <2>1. PICK t \in q.began..now :
             control' = [min |-> (IF q.seen = None THEN 1 ELSE q.seen.min) + 1,
                         reauth |-> t, block |-> NextBlock(q.seen, q.mode)]
      BY DEF RevokeWrites
    <2>2. control' # None /\ control'.block = NextBlock(q.seen, q.mode)
          /\ control'.min = (IF q.seen = None THEN 1 ELSE q.seen.min) + 1
      BY <2>1 DEF None
    <2>3. CASE q.seen = None BY <2>2, <2>3 DEF Known
    <2>4. CASE q.seen # None
      <3>1. q.seen.min \in Nat \ {0, 1} BY <1>1, <2>4 DEF Control
      <3> QED BY <2>2, <2>4, <3>1 DEF Known
    <2> QED BY <2>3, <2>4
  <1>4. RevokeInv' BY <1>3, RevokeWritesRevocations
  <1>5. BarredStaysBarred' /\ WritersRead' BY <1>3, RevokeWritesBar
  <1>6. BlockInv' /\ blockedAt' <= now' BY <1>2, NoteWriteBlock
  <1>7. Times'
    <2>1. n \in Nat /\ Len(revokedAt') = n + 1 /\ revokedAt'[n + 1] = now
          /\ \A i \in 1..n : revokedAt'[i] = revokedAt[i]
      <3>1. revokedAt \in Seq(0..MaxTime) /\ now \in 0..MaxTime BY <1>0, TypeParts DEF HistoryOK
      <3> QED BY <1>2, <3>1
    <2>2. ASSUME NEW i \in 1..n + 1 PROVE revokedAt'[i] <= now
      <3>1. CASE i = n + 1 BY <1>0, <2>1, <3>1, Numbers
      <3>2. CASE i \in 1..n BY <1>0, <2>1, <3>2 DEF Times
      <3> QED BY <2>1, <3>1, <3>2
    <2> QED BY <1>0, <1>2, <1>6, <2>1, <2>2 DEF Times
  <1>8. SameSession' BY <1>0, <1>2 DEF SameSession
  <1>9. Lifetimes' BY <1>0, <1>2 DEF Lifetimes, Limited, Issued
  <1> QED BY <1>4, <1>5, <1>6, <1>7, <1>8, <1>9 DEF Inv

LEMMA ReadmitWritesInv ==
  ASSUME Inv, TypeOK', NEW w \in Writers, ReadmitWrites(w)
  PROVE  Inv'
  <1> DEFINE seen == writer[w].seen
  <1>0. TypeOK /\ Times /\ SameSession /\ Lifetimes /\ WritersRead /\ VersionsCount
          /\ CacheBeforeRevocation /\ JudgeBeforeRevocation /\ PassedBeforeRevocation
    BY DEF Inv, RevokeInv
  <1>1. seen \in Control /\ seen # None /\ seen.block = "suspended" /\ ~KnowsBar(w)
    BY <1>0, WriteShape DEF ReadmitWrites, WritersRead
  <1>2. /\ control' = [seen EXCEPT !.block = "no"] /\ NoteWrite(w) /\ barred' = 0
        /\ UNCHANGED <<store, login, request, cache, now, revokedAt>>
    BY <1>1 DEF ReadmitWrites
  <1>3. control' # None /\ control'.min = seen.min BY <1>1, <1>2 DEF Control, None
  <1>4. /\ lost \in Nat /\ lost' \in Nat /\ lost <= lost'
        /\ lost' = lost => control = seen
    BY <1>0, <1>2, TypeParts DEF HistoryOK, NoteWrite
  <1>5. BlockInv' /\ blockedAt' <= now' BY <1>2, NoteWriteBlock
  <1>6. Times' BY <1>0, <1>2, <1>5 DEF Times
  <1>7. BarredStaysBarred' BY <1>2 DEF BarredStaysBarred
  <1>8. WritersRead'
    <2>1. writer' = [writer EXCEPT ![w] = Idle] BY DEF ReadmitWrites
    <2>2. \A x \in Writers : writer'[x].pc = "write" => writer'[x] = writer[x]
      BY <1>0, <2>1, TypeParts DEF Idle
    <2> QED BY <1>0, <1>2, <2>2 DEF WritersRead, KnowsBar, history
  <1>9. SameSession' BY <1>0, <1>2 DEF SameSession
  <1>10. Lifetimes' BY <1>0, <1>2 DEF Lifetimes, Limited, Issued
  <1>11. RevokeInv'
    <2>1. lost' = lost => Offset' = Offset BY <1>1, <1>2, <1>3, <1>4 DEF Offset, Known
    <2>2. \A era \in Nat : era <= lost => era <= lost' /\ (era = lost' => era = lost /\ lost' = lost)
      BY <1>4
    <2> DEFINE StaysVersioned(rec) ==
                 rec.era <= lost' /\ (rec.era = lost' => rec.version = rec.epoch + 1 + Offset')
    <2>3. ASSUME NEW rec \in Record, Versioned(rec) PROVE StaysVersioned(rec)
      <3>1. rec.era \in Nat /\ rec.era <= lost BY <2>3 DEF Record, Versioned
      <3>2. rec.era <= lost' BY <2>2, <3>1
      <3>3. rec.era = lost' => rec.version = rec.epoch + 1 + Offset'
        BY <2>1, <2>2, <2>3, <3>1 DEF Versioned
      <3> QED BY <3>2, <3>3
    <2> HIDE DEF StaysVersioned
    <2>4. \A r \in Requests : request[r].pc \in Stages \cup {"in"} =>
             /\ Era(r) <= lost' /\ (Era(r) = lost' => Era(r) = lost)
             /\ Epoch(r)' = Epoch(r) /\ Era(r)' = Era(r)
      <3>1. \A r \in Requests : request[r].pc \in Stages \cup {"in"} => Era(r) \in Nat /\ Era(r) <= lost
        BY <1>0, Numbers DEF VersionsCount
      <3>2. \A r \in Requests : Epoch(r)' = Epoch(r) /\ Era(r)' = Era(r) BY <1>2 DEF Epoch, Era
      <3> QED BY <2>2, <3>1, <3>2
    <2>5. VersionsCount'
      <3>1. \A s \in SessionIds : store[s] # None => StaysVersioned(store[s])
        BY <1>0, <2>3, StoreShape DEF VersionsCount
      <3>2. \A s \in SessionIds : login[s].pc \in {"read", "stored"} => StaysVersioned(login[s].rec)
        BY <1>0, <2>3, LoginShape DEF VersionsCount
      <3>3. \A r \in Requests : request[r].pc \in Stages => StaysVersioned(request[r].rec)
        BY <1>0, <2>3, Numbers DEF VersionsCount
      <3> QED BY <1>2, <1>3, <2>4, <3>1, <3>2, <3>3 DEF VersionsCount, Versioned, StaysVersioned
    <2>6. CacheBeforeRevocation' BY <1>0, <1>2 DEF CacheBeforeRevocation
    <2>7. JudgeBeforeRevocation'
      <3>1. \A r \in Requests : request[r].pc = "judge" =>
               (request[r].rec.era = lost' => request[r].rec.era = lost)
        BY <2>4 DEF Era, Stages
      <3> QED BY <1>0, <1>2, <3>1 DEF JudgeBeforeRevocation, Refuses
    <2>8. PassedBeforeRevocation'
      <3>1. \A r \in Requests : request[r].pc \in Passed => request[r].pc \in Stages \cup {"in"}
        BY DEF Passed, Stages
      <3> QED BY <1>0, <1>2, <2>4, <3>1 DEF PassedBeforeRevocation
    <2> QED BY <2>5, <2>6, <2>7, <2>8 DEF RevokeInv
  <1> QED BY <1>5, <1>6, <1>7, <1>8, <1>9, <1>10, <1>11 DEF Inv

LEMMA AdminInv ==
  ASSUME Inv, TypeOK', NEW w \in Writers,
         AdminStep(w) \/ AdminStops(w) \/ \E m \in Modes : AdminReads(w, m)
  PROVE  Inv'
  <1>0. TypeOK /\ WritersRead BY DEF Inv
  <1>1. ASSUME ~RevokeWrites(w), ~ReadmitWrites(w) PROVE Inv'
    <2>1. /\ \A s \in SessionIds : store'[s] \in {store[s], None}
          /\ UNCHANGED <<request, login, cache, control, history, now>>
      BY <1>0, <1>1, TypeParts
         DEF AdminStep, AdminStops, AdminReads, RevokeLists, RevokeDeletes, Delete, StoreWithout, redis
    <2>2. ASSUME NEW x \in Writers, writer'[x].pc = "write"
          PROVE  /\ writer'[x].since <= Len(revokedAt)
                 /\ barred # 0 /\ writer'[x].since >= barred =>
                       writer'[x].seen # None /\ writer'[x].seen.block = "barred"
                 /\ writer'[x].mode = "readmit" =>
                       writer'[x].seen # None /\ writer'[x].seen.block = "suspended"
      <3>1. CASE writer'[x] = writer[x] BY <1>0, <2>2, <3>1 DEF WritersRead, KnowsBar
      <3>2. CASE \E m \in Modes : AdminReads(w, m)
        <4>1. PICK m \in Modes : AdminReads(w, m) BY <3>2
        <4>2. writer' = [writer EXCEPT ![w] =
                            [pc |-> "write", mode |-> m, seen |-> control, began |-> now,
                             since |-> Len(revokedAt)]]
              /\ (m = "readmit" => control # None /\ control.block = "suspended")
          BY <4>1 DEF AdminReads
        <4>3. CASE x = w
          <5>1. writer'[x] = [pc |-> "write", mode |-> m, seen |-> control, began |-> now,
                              since |-> Len(revokedAt)]
            BY <4>2, <4>3, <1>0, TypeParts
          <5>2. writer'[x].mode = m /\ writer'[x].seen = control /\ writer'[x].since = Len(revokedAt)
            BY <5>1
          <5>3. barred # 0 => control # None /\ control.block = "barred"
            BY DEF Inv, BarredStaysBarred, Blocks
          <5>4. Len(revokedAt) <= Len(revokedAt) BY <1>0, Numbers
          <5> QED BY <4>2, <5>2, <5>3, <5>4
        <4>4. CASE x # w
          <5>1. writer'[x] = writer[x] BY <4>2, <4>4, <1>0, TypeParts
          <5> QED BY <5>1, <3>1
        <4> QED BY <4>3, <4>4
      <3>3. CASE AdminStops(w) BY <1>0, <2>2, <3>1, <3>3, TypeParts DEF AdminStops, Idle
      <3>4. CASE RevokeLists(w) BY <1>0, <2>2, <3>1, <3>4, TypeParts DEF RevokeLists
      <3>5. CASE RevokeDeletes(w)
        <4>1. writer[w] \in [pc : {"deleting"}, ids : SUBSET SessionIds]
          BY <1>0, <3>5, DeletingShape DEF RevokeDeletes
        <4>2. writer' = [writer EXCEPT ![w] = Idle]
              \/ \E t : writer' = [writer EXCEPT ![w] = [writer[w] EXCEPT !.ids = @ \ {t}]]
          BY <3>5 DEF RevokeDeletes
        <4>3. CASE x = w
          <5>1. writer'[x].pc \in {"idle", "deleting"}
            <6>1. CASE writer' = [writer EXCEPT ![w] = Idle]
              BY <4>3, <6>1, <1>0, TypeParts DEF Idle
            <6>2. ASSUME NEW t, writer' = [writer EXCEPT ![w] = [writer[w] EXCEPT !.ids = @ \ {t}]]
                  PROVE  writer'[x].pc = "deleting"
              <7>1. writer'[w] = [writer[w] EXCEPT !.ids = @ \ {t}] BY <6>2, <1>0, TypeParts
              <7> QED BY <4>1, <4>3, <7>1
            <6> QED BY <4>2, <6>1, <6>2
          <5> QED BY <5>1, <2>2
        <4>4. CASE x # w
          <5>1. writer'[x] = writer[x] BY <4>2, <4>4, <1>0, TypeParts
          <5> QED BY <5>1, <3>1
        <4> QED BY <4>3, <4>4
      <3> QED BY <1>1, <3>2, <3>3, <3>4, <3>5 DEF AdminStep
    <2>3. WritersRead' BY <2>1, <2>2 DEF WritersRead, KnowsBar, history
    <2>4. now <= now' BY <1>0, <2>1, Numbers
    <2> QED BY <2>1, <2>3, <2>4, StoreShrinks, QuietInv
  <1> QED BY <1>1, RevokeWritesInv, ReadmitWritesInv

-----------------------------------------------------------------------------
LEMMA StepInv == Inv /\ [Next]_vars => Inv'
  <1> SUFFICES ASSUME Inv, [Next]_vars PROVE Inv' OBVIOUS
  <1>0. TypeOK /\ TypeOK' BY StepType DEF Inv
  <1>1. CASE \E s \in SessionIds : LoginStarts(s) \/ LoginStep(s) \/ Logout(s)
    BY <1>0, <1>1, LoginInv
  <1>2. CASE \E r \in Requests : RequestStep(r) \/ GrantFails(r) BY <1>0, <1>2, RequestInv
  <1>3. CASE \E r \in Requests, p \in Processes, s \in SessionIds : ReadSession(r, p, s)
    BY <1>0, <1>3, ReadSessionInv
  <1>4. CASE \E w \in Writers :
               AdminStep(w) \/ AdminStops(w) \/ \E m \in Modes : AdminReads(w, m)
    BY <1>0, <1>4, AdminInv
  <1>5. CASE IndexExpires \/ Tick \/ UNCHANGED vars
    <2>1. UNCHANGED <<store, control, login, request, cache, writer, history>> /\ now <= now'
      BY <1>0, <1>5, Numbers DEF IndexExpires, Tick, vars, redis
    <2>2. WritersRead' BY <2>1 DEF Inv, WritersRead, KnowsBar, history
    <2> QED BY <1>0, <2>1, <2>2, StoreShrinks, QuietInv
  <1> QED BY <1>1, <1>2, <1>3, <1>4, <1>5 DEF Next

LEMMA Invariance == Spec => []Inv
  BY InitInv, StepInv, PTL DEF Spec

\* No request that begins TTL after a block, or later, is let in
\* (auth-server/session.ts:28-76).
THEOREM BlockBounded == Spec => []BlockedStaysOut
  <1>1. Inv => BlockedStaysOut
    BY DEF Inv, BlockInv, PassedBeforeBlock, Passed, BlockedStaysOut
  <1> QED BY <1>1, Invariance, PTL

\* A session whose login did not know of a revocation does not outlive it by TTL,
\* whatever writes of the control state were lost before the login, and unless
\* one was lost since (session-revocation.ts:65-98).
THEOREM RevocationBounded == Spec => []RevokedStaysOut
  <1>1. Inv => RevokedStaysOut
    <2> SUFFICES ASSUME Inv, NEW r \in Requests, request[r].pc = "in",
                        request[r].era = lost, request[r].epoch < Len(revokedAt)
                 PROVE  request[r].started < revokedAt[request[r].epoch + 1] + TTL
      BY DEF RevokedStaysOut
    <2> QED BY DEF Inv, RevokeInv, PassedBeforeRevocation, Passed, Epoch, Era
  <1> QED BY <1>1, Invariance, PTL

\* An irrevocable block stands until the account is deleted, whatever operations
\* overlap that read the control state after it was written
\* (session-revocation.ts:75-82, :100-104).
THEOREM BarStands == Spec => []BarredStaysBarred
  <1>1. Inv => BarredStaysBarred BY DEF Inv
  <1> QED BY <1>1, Invariance, PTL

\* However often it is refreshed, a session ends SessionTTL after its login
\* (shared.ts:66-80, session-refresh.ts:58-69).
THEOREM LifetimeBounded == Spec => []LifetimeIsAbsolute
  <1>1. Inv => LifetimeIsAbsolute
    BY DEF Inv, Lifetimes, LifetimeIsAbsolute, Issued
  <1> QED BY <1>1, Invariance, PTL

=============================================================================
