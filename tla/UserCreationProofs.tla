-------------------------- MODULE UserCreationProofs --------------------------
(***************************************************************************)
(* What holds of UserCreation for every number of requests, keys and       *)
(* e-mail addresses.                                                       *)
(***************************************************************************)
EXTENDS UserCreation, TLAPS

LEMMA GotoType ==
    ASSUME TypeOK, NEW r \in Requests, NEW l \in InFlight \cup {"done", "dead"}, Goto(r, l)
    PROVE  pc' \in [Requests -> InFlight \cup {"new", "done", "dead"}]
BY DEF TypeOK, Goto

LEMMA AnswerType ==
    ASSUME TypeOK, NEW r \in Requests,
           NEW a \in {"created", "failed", "conflict", "error"}, Answer(r, a)
    PROVE  /\ pc' \in [Requests -> InFlight \cup {"new", "done", "dead"}]
           /\ reply' \in [Requests -> {"none", "created", "failed", "conflict", "error"}]
BY DEF TypeOK, Answer, Goto

LEMMA WriteType ==
    ASSUME TypeOK, NEW r \in Requests, NEW s \in {"IN_PROGRESS"} \cup Final, Write(r, s)
    PROVE  record' \in [Keys -> Rows]
BY DEF TypeOK, Write, Rows, Row

LEMMA IncidentType ==
    ASSUME TypeOK, NEW i \in Incidents, Incident(i)
    PROVE  incidents' \subseteq Incidents
BY DEF TypeOK, Incident

LEMMA ReserveTypes ==
    ASSUME TypeOK, NEW r \in Requests, ReserveStep(r)
    PROVE  TypeOK'
<1>1. CASE Reserve(r)
  BY <1>1, GotoType, WriteType DEF Reserve, TypeOK, InFlight, Executing
<1>2. CASE Conflict(r)
  BY <1>2, AnswerType DEF Conflict, store, TypeOK
<1>3. CASE Replay(r)
  BY <1>3, AnswerType DEF Replay, store, TypeOK
<1>4. CASE ReserveFails(r)
  BY <1>4, AnswerType, WriteType, IncidentType DEF ReserveFails, TypeOK, Incidents
<1> QED BY <1>1, <1>2, <1>3, <1>4 DEF ReserveStep

LEMMA ExecuteTypes ==
    ASSUME TypeOK, NEW r \in Requests, ExecuteStep(r)
    PROVE  TypeOK'
<1> USE DEF InFlight, Executing, Incidents, Final
<1>1. CASE ResolveProvider(r)
  BY <1>1, GotoType, AnswerType DEF ResolveProvider, store, TypeOK
<1>2. CASE CreateUser(r)
  <2>1. identity' \in [Emails -> {"none", "enabled", "disabled"}]
    BY <1>2 DEF CreateUser, TypeOK
  <2> QED BY <1>2, <2>1, GotoType, IncidentType DEF CreateUser, TypeOK
<1>3. CASE PersistCreatedUser(r)
  <2>1. account' \in [Emails -> BOOLEAN]
    BY <1>3 DEF PersistCreatedUser, TypeOK
  <2> QED BY <1>3, <2>1, GotoType, IncidentType DEF PersistCreatedUser, PersistFails, TypeOK
<1>4. CASE SyncRoles(r)
  BY <1>4, GotoType DEF SyncRoles, store, TypeOK
<1>5. CASE Deactivate(r)
  <2>1. identity' \in [Emails -> {"none", "enabled", "disabled"}]
    BY <1>5 DEF Deactivate, TypeOK
  <2> QED BY <1>5, <2>1, GotoType, IncidentType DEF Deactivate, TypeOK
<1>6. CASE CompleteIdempotency(r)
  BY <1>6, GotoType, AnswerType, WriteType, IncidentType DEF CompleteIdempotency, TypeOK
<1>7. CASE FailIdempotency(r)
  BY <1>7, GotoType, AnswerType, WriteType, IncidentType DEF FailIdempotency, TypeOK
<1> QED BY <1>1, <1>2, <1>3, <1>4, <1>5, <1>6, <1>7 DEF ExecuteStep

LEMMA TypeStep == TypeOK /\ [Next]_vars => TypeOK'
<1> SUFFICES ASSUME TypeOK, [Next]_vars PROVE TypeOK'
  OBVIOUS
<1>1. ASSUME NEW r \in Requests, Crash(r) PROVE TypeOK'
  BY <1>1, GotoType, IncidentType DEF Crash, store, TypeOK, Incidents
<1>2. ASSUME NEW k \in Keys, Expire(k) PROVE TypeOK'
  BY <1>2 DEF Expire, TypeOK, Rows
<1>3. ASSUME NEW e \in Emails, ImportUser(e) PROVE TypeOK'
  BY <1>3 DEF ImportUser, TypeOK
<1>4. CASE UNCHANGED vars
  BY <1>4 DEF vars, store, TypeOK
<1> QED BY <1>1, <1>2, <1>3, <1>4, ReserveTypes, ExecuteTypes DEF Next

LEMMA TypeInit == Init => TypeOK
BY DEF Init, TypeOK, Rows

\* Every variable keeps its type: a row of iam.idempotency_keys always carries
\* the payload it was reserved for.
THEOREM TypeCorrect == Spec => []TypeOK
BY TypeInit, TypeStep, PTL DEF Spec

-----------------------------------------------------------------------------
(***************************************************************************)
(* The key.  KeyExecutesOnce says nothing of the row once the work is done; *)
(* but the row must not be gone before the request is, and only a lost      *)
(* acknowledgement lets a request go on that finds it completed: by itself, *)
(* for it has not answered yet.                                            *)
(***************************************************************************)
Holds(r) ==
    \/ Own(r) = Row("IN_PROGRESS", email[r])
    \/ /\ pc[r] = "fail" /\ "ackLost" \in incidents
       /\ Own(r) = Row("COMPLETED", email[r])

RowIsHeld == \A r \in Requests : pc[r] \in InFlight => Holds(r)

Unanswered == \A r \in Requests : pc[r] \in InFlight \cup {"new"} => reply[r] = "none"

KeyIsAlone ==
    \A r, s \in Requests : r # s /\ keyOf[r] = keyOf[s] /\ pc[r] \in InFlight
        => pc[s] \notin InFlight

KeyInv == TypeOK /\ RowIsHeld /\ KeyIsAlone /\ Unanswered

\* A request only moves on among the labels of its own work, and no other moves.
LEMMA AloneStep ==
    ASSUME KeyInv, NEW r \in Requests, pc[r] \in InFlight, UNCHANGED keyOf,
           \A s \in Requests : s # r => pc'[s] = pc[s]
    PROVE  KeyIsAlone'
BY DEF KeyInv, KeyIsAlone

\* Other requests in flight use other keys, so that their rows stay as they are.
LEMMA HeldByOthers ==
    ASSUME KeyInv, NEW r \in Requests, pc[r] \in InFlight,
           UNCHANGED <<keyOf, email>>, NEW s \in Requests, s # r, pc'[s] = pc[s],
           \A k \in Keys : k # keyOf[r] => record'[k] = record[k],
           incidents \subseteq incidents', pc'[s] \in InFlight
    PROVE  Holds(s)'
<1>1. keyOf[s] # keyOf[r]
  BY DEF KeyInv, KeyIsAlone
<1> QED BY <1>1 DEF KeyInv, RowIsHeld, Holds, TypeOK, Own, Row

LEMMA IsTaken ==
    ASSUME KeyInv
    PROVE  \A r \in Requests : pc[r] \in InFlight => Own(r).status # "free"
BY DEF KeyInv, RowIsHeld, Holds, Row

\* A request that starts to work finds nobody else working for its key.
LEMMA KeyReserve ==
    ASSUME KeyInv, NEW r \in Requests, ReserveStep(r)
    PROVE  RowIsHeld' /\ KeyIsAlone'
<1> USE DEF KeyInv, RowIsHeld, Holds, KeyIsAlone, TypeOK, InFlight, Executing
<1>1. CASE Reserve(r)
  <2>1. \A s \in Requests : keyOf[s] = keyOf[r] => pc[s] \notin InFlight
    <3>1. Own(r).status = "free" BY <1>1 DEF Reserve, Reservable
    <3>2. \A s \in Requests : pc[s] \in InFlight => Own(s).status # "free" BY IsTaken
    <3> QED BY <3>1, <3>2 DEF Own
  <2>2. \A s \in Requests : s # r => pc'[s] = pc[s] /\ (keyOf[s] # keyOf[r] => Own(s)' = Own(s))
    BY <1>1 DEF Reserve, Goto, Write, Own
  <2>3. pc'[r] = "resolve" /\ Own(r)' = Row("IN_PROGRESS", email'[r])
    BY <1>1 DEF Reserve, Goto, Write, Own
  <2>4. UNCHANGED <<keyOf, email, incidents>>
    BY <1>1 DEF Reserve
  <2>5. RowIsHeld'
    BY <2>1, <2>2, <2>3, <2>4 DEF Row
  <2>6. KeyIsAlone'
    BY <2>1, <2>2, <2>3, <2>4
  <2> QED BY <2>5, <2>6
<1>2. CASE Conflict(r) \/ Replay(r) \/ ReserveFails(r)
  <2>1. \A s \in Requests : s # r => pc'[s] = pc[s]
    BY <1>2 DEF Conflict, Replay, ReserveFails, Answer, Goto
  <2>2. pc'[r] = "done"
    BY <1>2 DEF Conflict, Replay, ReserveFails, Answer, Goto
  <2>3. \A s \in Requests : pc[s] \in InFlight => Own(s)' = Own(s)
    <3>1. CASE UNCHANGED record
      BY <1>2, <3>1 DEF Conflict, Replay, ReserveFails, Own
    <3>2. CASE record' # record
      <4>1. Own(r).status = "free" /\ \A k \in Keys : k # keyOf[r] => record'[k] = record[k]
        BY <1>2, <3>2 DEF Conflict, Replay, store, ReserveFails, Reservable, Write
      <4>2. \A s \in Requests : pc[s] \in InFlight => keyOf[s] # keyOf[r]
        BY <4>1, IsTaken DEF Own
      <4>3. UNCHANGED keyOf BY <1>2 DEF Conflict, Replay, ReserveFails
      <4> QED BY <4>1, <4>2, <4>3 DEF Own
    <3> QED BY <3>1, <3>2
  <2>4. UNCHANGED <<keyOf, email>> /\ incidents \subseteq incidents'
    BY <1>2 DEF Conflict, Replay, ReserveFails, Incident
  <2> QED BY <2>1, <2>2, <2>3, <2>4
<1> QED BY <1>1, <1>2 DEF ReserveStep

LEMMA KeyExecute ==
    ASSUME KeyInv, NEW r \in Requests, ExecuteStep(r) \/ Crash(r)
    PROVE  RowIsHeld' /\ KeyIsAlone'
<1>1. pc[r] \in InFlight
  BY DEF ExecuteStep, ResolveProvider, CreateUser, PersistCreatedUser, SyncRoles, Deactivate,
         CompleteIdempotency, FailIdempotency, Crash, InFlight, Executing
<1>2. \A s \in Requests : s # r => pc'[s] = pc[s]
  BY DEF ExecuteStep, ResolveProvider, CreateUser, PersistCreatedUser, SyncRoles, Deactivate,
         CompleteIdempotency, FailIdempotency, Crash, PersistFails, Answer, Goto, KeyInv, TypeOK
<1>3. UNCHANGED <<keyOf, email>> /\ incidents \subseteq incidents'
  BY DEF ExecuteStep, ResolveProvider, CreateUser, PersistCreatedUser, SyncRoles, Deactivate,
         CompleteIdempotency, FailIdempotency, Crash, Incident
<1>4. \A k \in Keys : k # keyOf[r] => record'[k] = record[k]
  BY DEF ExecuteStep, ResolveProvider, CreateUser, PersistCreatedUser, SyncRoles, Deactivate,
         CompleteIdempotency, FailIdempotency, Crash, Write, store, KeyInv, TypeOK
<1>5. KeyIsAlone'
  BY <1>1, <1>2, <1>3, AloneStep
<1>6. pc'[r] \in InFlight => Holds(r)'
  <2> USE DEF KeyInv, TypeOK, RowIsHeld, Holds, Own, Row
  <2>1. CASE UNCHANGED record /\ (pc[r] # "fail" \/ pc'[r] \notin InFlight)
    BY <1>1, <1>3, <2>1
  <2>2. CASE CompleteIdempotency(r)
    BY <1>1, <2>2 DEF CompleteIdempotency, Write, Answer, Goto, Incident, InFlight, Executing
  <2>3. CASE FailIdempotency(r)
    BY <2>3 DEF FailIdempotency, Answer, Goto, InFlight, Executing
  <2>4. CASE ResolveProvider(r) \/ CreateUser(r) \/ PersistCreatedUser(r) \/ SyncRoles(r)
             \/ Deactivate(r)
    BY <2>1, <2>4 DEF ResolveProvider, CreateUser, PersistCreatedUser, SyncRoles, Deactivate, store
  <2>5. CASE Crash(r)
    BY <2>5 DEF Crash, Goto, InFlight, Executing
  <2> QED BY <2>2, <2>3, <2>4, <2>5 DEF ExecuteStep
<1>7. \A s \in Requests : s # r /\ pc'[s] \in InFlight => Holds(s)'
  BY <1>1, <1>2, <1>3, <1>4, HeldByOthers
<1>8. RowIsHeld'
  BY <1>6, <1>7 DEF RowIsHeld
<1> QED BY <1>5, <1>8

\* Whoever answers is done.
LEMMA UnansweredStep == TypeOK /\ Unanswered /\ [Next]_vars => Unanswered'
<1> SUFFICES ASSUME TypeOK, Unanswered, [Next]_vars PROVE Unanswered'
  OBVIOUS
<1> USE DEF TypeOK, Unanswered, InFlight, Executing
<1>1. ASSUME NEW r \in Requests, ReserveStep(r) PROVE Unanswered'
  BY <1>1 DEF ReserveStep, Reserve, Conflict, Replay, ReserveFails, Answer, Goto
<1>2. ASSUME NEW r \in Requests, ExecuteStep(r) PROVE Unanswered'
  BY <1>2 DEF ExecuteStep, ResolveProvider, CreateUser, PersistCreatedUser, PersistFails, SyncRoles,
       Deactivate, CompleteIdempotency, FailIdempotency, Answer, Goto
<1>3. ASSUME NEW r \in Requests, Crash(r) PROVE Unanswered'
  BY <1>3 DEF Crash, Goto
<1>4. ASSUME NEW k \in Keys, Expire(k) PROVE Unanswered'
  BY <1>4 DEF Expire
<1>5. ASSUME NEW e \in Emails, ImportUser(e) PROVE Unanswered'
  BY <1>5 DEF ImportUser
<1>6. CASE UNCHANGED vars
  BY <1>6 DEF vars
<1> QED BY <1>1, <1>2, <1>3, <1>4, <1>5, <1>6 DEF Next

LEMMA KeyStep == KeyInv /\ [Next]_vars => KeyInv'
<1> SUFFICES ASSUME KeyInv, [Next]_vars PROVE KeyInv'
  OBVIOUS
<1>1. TypeOK'
  BY TypeStep DEF KeyInv
<1>2. ASSUME NEW k \in Keys, Expire(k) PROVE RowIsHeld' /\ KeyIsAlone'
  BY <1>2 DEF Expire, KeyInv, RowIsHeld, Holds, KeyIsAlone, TypeOK, Own
<1>3. ASSUME UNCHANGED <<keyOf, email, record, pc, incidents>> PROVE RowIsHeld' /\ KeyIsAlone'
  BY <1>3 DEF KeyInv, RowIsHeld, Holds, KeyIsAlone, Own
<1>4. ASSUME NEW e \in Emails, ImportUser(e) PROVE RowIsHeld' /\ KeyIsAlone'
  BY <1>3, <1>4 DEF ImportUser, KeyInv
<1>5. ASSUME UNCHANGED vars PROVE RowIsHeld' /\ KeyIsAlone'
  BY <1>3, <1>5 DEF vars, store
<1>6. ASSUME NEW r \in Requests, ReserveStep(r) \/ ExecuteStep(r) \/ Crash(r)
      PROVE  RowIsHeld' /\ KeyIsAlone'
  BY <1>6, KeyReserve, KeyExecute
<1>7. RowIsHeld' /\ KeyIsAlone'
  BY <1>2, <1>4, <1>5, <1>6 DEF Next
<1>8. Unanswered'
  BY UnansweredStep DEF KeyInv
<1> QED BY <1>1, <1>7, <1>8 DEF KeyInv

LEMMA KeyInit == Init => KeyInv
BY TypeInit DEF Init, KeyInv, RowIsHeld, KeyIsAlone, Unanswered, InFlight, Executing

LEMMA KeyHolds == Spec => []KeyInv
BY KeyInit, KeyStep, PTL DEF Spec

\* A request that works for a key has it to itself: a repeated request never
\* causes a second creation, whatever crashes and lost acknowledgements happen.
THEOREM KeyExclusive == Spec => []KeyExecutesOnce
<1>1. KeyInv => KeyExecutesOnce
  BY DEF KeyInv, RowIsHeld, Holds, KeyIsAlone, KeyExecutesOnce, InFlight, Executing
<1> QED BY <1>1, KeyHolds, PTL

\* The answer stored under a key is only replaced by the request that stored it,
\* before it answers, and only because an acknowledgement was lost.
THEOREM AnswerStands == Spec => StoredAnswerStands
<1> DEFINE Replaced(k) ==
      /\ "ackLost" \in incidents
      /\ \E r \in Requests : /\ keyOf[r] = k /\ pc[r] = "fail" /\ reply[r] = "none"
                            /\ record[k] = Row("COMPLETED", email[r])
                            /\ record'[k] = Row("FAILED", email[r])
<1>1. ASSUME KeyInv, [Next]_vars, NEW k \in Keys, record[k].status \in Final,
             record'[k] \notin {record[k], Free}
      PROVE  Replaced(k)
  <2> USE <1>1 DEF KeyInv, TypeOK
  <2>1. ASSUME NEW r \in Requests, ReserveStep(r) PROVE record'[k] = record[k]
    BY <2>1 DEF ReserveStep, Reserve, Conflict, Replay, ReserveFails, Reservable, Own, Write,
                store, Final
  <2>2. ASSUME NEW r \in Requests, ExecuteStep(r) PROVE Replaced(k)
    <3>1. /\ pc[r] \in InFlight
          /\ UNCHANGED record \/ (\E s \in Final : Write(r, s))
          /\ pc[r] = "fail" => UNCHANGED record \/ Write(r, "FAILED")
      BY <2>2 DEF ExecuteStep, ResolveProvider, CreateUser, PersistCreatedUser, SyncRoles,
           Deactivate, CompleteIdempotency, FailIdempotency, InFlight, Executing, store, Final
    <3>2. k = keyOf[r] /\ ~ UNCHANGED record
      BY <3>1 DEF Write
    <3>3. Own(r).status # "IN_PROGRESS"
      BY <3>2 DEF Own, Final
    <3>4. pc[r] = "fail" /\ "ackLost" \in incidents /\ Own(r) = Row("COMPLETED", email[r])
      BY <3>1, <3>3 DEF RowIsHeld, Holds, Row
    <3>5. reply[r] = "none"
      BY <3>1 DEF Unanswered
    <3>6. record'[k] = Row("FAILED", email[r])
      BY <3>1, <3>2, <3>4 DEF Write
    <3> QED BY <3>2, <3>4, <3>5, <3>6 DEF Own
  <2>3. ASSUME NEW l \in Keys, Expire(l) PROVE record'[k] \in {record[k], Free}
    BY <2>3 DEF Expire
  <2>4. ASSUME NEW r \in Requests, Crash(r) PROVE record'[k] = record[k]
    BY <2>4 DEF Crash, store
  <2>5. ASSUME NEW e \in Emails, ImportUser(e) PROVE record'[k] = record[k]
    BY <2>5 DEF ImportUser
  <2>6. CASE UNCHANGED vars
    BY <2>6 DEF vars, store
  <2> QED BY <2>1, <2>2, <2>3, <2>4, <2>5, <2>6 DEF Next
<1>2. KeyInv /\ [Next]_vars =>
        [\A k \in Keys : record[k].status \in Final /\ record'[k] \notin {record[k], Free} =>
            Replaced(k)]_vars
  BY <1>1
<1> QED BY <1>2, KeyHolds, PTL DEF Spec, StoredAnswerStands

-----------------------------------------------------------------------------
(***************************************************************************)
(* The user.  CreatedIsUsable could be lost to a compensation that comes    *)
(* late; it is not, because Keycloak lets only one request past CreateUser  *)
(* for an address, and that request does not compensate once it has stored  *)
(* a success.                                                              *)
(***************************************************************************)
Undecided == {"persist", "sync", "compensate"}
Creating  == Undecided \cup {"complete"}

\* A user exists while a request creates it, and is whole when the request says so.
UserIsThere ==
    \A r \in Requests :
        /\ pc[r] \in Creating => identity[email[r]] # "none"
        /\ pc[r] \in Creating \ {"compensate"} => identity[email[r]] = "enabled"
        /\ pc[r] \in {"sync", "complete"} => account[email[r]]

OneCreator ==
    \A r, s \in Requests : r # s /\ email[r] = email[s] /\ pc[r] \in Creating
        => pc[s] \notin Creating

\* Nobody is left who could compensate the creation.
Settled(e) == /\ identity[e] = "enabled" /\ account[e]
              /\ \A r \in Requests : email[r] = e => pc[r] \notin Undecided

SuccessIsSettled ==
    /\ \A k \in Keys : record[k].status = "COMPLETED" => Settled(record[k].email)
    /\ \A r \in Requests : reply[r] = "created" => Settled(email[r])

UserInv == TypeOK /\ UserIsThere /\ OneCreator /\ SuccessIsSettled

LEMMA UserInit == Init => UserInv
BY TypeInit DEF Init, UserInv, UserIsThere, OneCreator, SuccessIsSettled, Creating, Undecided, Free

\* Whoever was settled stays settled: no request gets past CreateUser for a user
\* that exists, and none that is past it can fail for this one.
LEMMA SettledStep ==
    ASSUME UserInv, [Next]_vars, NEW e \in Emails, Settled(e)
    PROVE  Settled(e)'
<1> USE DEF Settled, UserInv, TypeOK, Undecided
<1>1. ASSUME NEW r \in Requests, ReserveStep(r) PROVE Settled(e)'
  BY <1>1 DEF ReserveStep, Reserve, Conflict, Replay, ReserveFails, Answer, Goto, store
<1>2. ASSUME NEW r \in Requests, ExecuteStep(r) PROVE Settled(e)'
  BY <1>2 DEF ExecuteStep, ResolveProvider, CreateUser, PersistCreatedUser, PersistFails, SyncRoles,
       Deactivate, CompleteIdempotency, FailIdempotency, Answer, Goto, store
<1>3. ASSUME NEW r \in Requests, Crash(r) PROVE Settled(e)'
  BY <1>3 DEF Crash, Goto, store
<1>4. ASSUME NEW k \in Keys, Expire(k) PROVE Settled(e)'
  BY <1>4 DEF Expire
<1>5. ASSUME NEW f \in Emails, ImportUser(f) PROVE Settled(e)'
  BY <1>5 DEF ImportUser
<1>6. CASE UNCHANGED vars
  BY <1>6 DEF vars, store
<1> QED BY <1>1, <1>2, <1>3, <1>4, <1>5, <1>6 DEF Next

\* A step of one request, by what it may do to those that create a user.
LEMMA CreatorStep ==
    ASSUME UserInv, NEW r \in Requests, ReserveStep(r) \/ ExecuteStep(r) \/ Crash(r)
    PROVE  UserIsThere' /\ OneCreator'
<1> USE DEF UserInv, TypeOK, UserIsThere, OneCreator, Creating, Undecided
<1>1. UNCHANGED email /\ \A s \in Requests : s # r => pc'[s] = pc[s]
  BY DEF ReserveStep, Reserve, Conflict, Replay, ReserveFails, ExecuteStep, ResolveProvider,
         CreateUser, PersistCreatedUser, PersistFails, SyncRoles, Deactivate, CompleteIdempotency,
         FailIdempotency, Crash, Answer, Goto
<1>2. CASE pc'[r] \notin Creating /\ UNCHANGED <<identity, account>>
  BY <1>1, <1>2
<1>3. CASE ReserveStep(r) \/ Crash(r) \/ FailIdempotency(r) \/ CompleteIdempotency(r) \/ ResolveProvider(r)
  BY <1>2, <1>3 DEF ReserveStep, Reserve, Conflict, Replay, ReserveFails, Crash, FailIdempotency,
       CompleteIdempotency, ResolveProvider, Answer, Goto, store
<1>4. CASE CreateUser(r)
  <2>1. CASE UNCHANGED identity
    BY <1>2, <1>4, <2>1 DEF CreateUser, Goto
  <2>2. CASE identity[email[r]] = "none" /\ identity' = [identity EXCEPT ![email[r]] = "enabled"]
    <3>1. \A s \in Requests : email[s] = email[r] => pc[s] \notin Creating
      BY <2>2
    <3> QED BY <1>1, <1>4, <2>2, <3>1 DEF CreateUser, Goto
  <2> QED BY <1>4, <2>1, <2>2 DEF CreateUser
<1>5. CASE PersistCreatedUser(r)
  BY <1>1, <1>5 DEF PersistCreatedUser, PersistFails, Goto
<1>6. CASE SyncRoles(r)
  BY <1>1, <1>6 DEF SyncRoles, Goto, store
<1>7. CASE Deactivate(r)
  <2>1. \A s \in Requests : s # r /\ pc[s] \in Creating => email[s] # email[r]
    BY <1>7 DEF Deactivate
  <2> QED BY <1>1, <1>7, <2>1 DEF Deactivate, Goto
<1> QED BY <1>3, <1>4, <1>5, <1>6, <1>7 DEF ExecuteStep

LEMMA SuccessStep ==
    ASSUME UserInv, [Next]_vars
    PROVE  SuccessIsSettled'
<1> USE DEF UserInv, TypeOK
<1>1. UNCHANGED email
  BY DEF Next, ReserveStep, Reserve, Conflict, Replay, ReserveFails, ExecuteStep, ResolveProvider,
         CreateUser, PersistCreatedUser, SyncRoles, Deactivate, CompleteIdempotency,
         FailIdempotency, Crash, Expire, ImportUser, vars
<1>2. \A e \in Emails : Settled(e) => Settled(e)'
  BY SettledStep
<1>3. ASSUME NEW k \in Keys, record'[k].status = "COMPLETED"
      PROVE  Settled(record[k].email)'
  <2>1. CASE record'[k] = record[k]
    BY <1>2, <1>3, <2>1 DEF SuccessIsSettled, Settled, Rows, Free
  <2>2. ASSUME NEW r \in Requests, CompleteIdempotency(r), record' # record
        PROVE  Settled(record[k].email)'
    <3>1. Settled(email[r])'
      BY <1>1, <2>2 DEF CompleteIdempotency, Settled, UserIsThere, OneCreator, Creating,
           Undecided, Answer, Goto
    <3> QED BY <1>1, <2>1, <2>2, <3>1 DEF CompleteIdempotency, Write, Row
  <2>3. ASSUME NEW r \in Requests, \/ Reserve(r) \/ ReserveFails(r) \/ FailIdempotency(r)
        PROVE  record'[k] = record[k]
    BY <1>3, <2>3 DEF Reserve, ReserveFails, FailIdempotency, Write, Row
  <2>4. ASSUME NEW r \in Requests, \/ Conflict(r) \/ Replay(r) \/ ResolveProvider(r)
                 \/ CreateUser(r) \/ PersistCreatedUser(r) \/ SyncRoles(r) \/ Deactivate(r) \/ Crash(r)
        PROVE  UNCHANGED record
    BY <2>4 DEF Conflict, Replay, ResolveProvider, CreateUser, PersistCreatedUser, SyncRoles,
         Deactivate, Crash, store
  <2>5. ASSUME NEW j \in Keys, Expire(j) PROVE record'[k] = record[k]
    BY <1>3, <2>5 DEF Expire, Free
  <2>6. ASSUME NEW e \in Emails, ImportUser(e) PROVE UNCHANGED record
    BY <2>6 DEF ImportUser
  <2>7. CASE UNCHANGED vars
    BY <2>1, <2>7 DEF vars, store
  <2> QED BY <2>1, <2>2, <2>3, <2>4, <2>5, <2>6, <2>7 DEF Next, ReserveStep, ExecuteStep
<1>4. ASSUME NEW r \in Requests, reply'[r] = "created"
      PROVE  Settled(email[r])'
  <2>1. CASE reply[r] = "created"
    BY <1>1, <1>2, <2>1 DEF SuccessIsSettled, Settled
  <2>2. CASE Replay(r)
    BY <1>1, <1>2, <1>4, <2>2 DEF Replay, Own, SuccessIsSettled, Settled, Answer, Final
  <2>3. CASE CompleteIdempotency(r)
    BY <1>1, <2>3 DEF CompleteIdempotency, Settled, UserIsThere, OneCreator, Creating, Undecided,
         Answer, Goto
  <2> QED BY <1>4, <2>1, <2>2, <2>3 DEF Next, ReserveStep, Reserve, Conflict, ReserveFails,
       Replay, ExecuteStep, ResolveProvider, CreateUser, PersistCreatedUser, SyncRoles, Deactivate,
       CompleteIdempotency, FailIdempotency, Crash, Expire, ImportUser, vars, store, Answer
<1> QED BY <1>1, <1>3, <1>4 DEF SuccessIsSettled

LEMMA UserStep == UserInv /\ [Next]_vars => UserInv'
<1> SUFFICES ASSUME UserInv, [Next]_vars PROVE UserInv'
  OBVIOUS
<1>1. TypeOK' /\ SuccessIsSettled'
  BY TypeStep, SuccessStep DEF UserInv
<1>2. ASSUME UNCHANGED <<email, identity, account, pc>> PROVE UserIsThere' /\ OneCreator'
  BY <1>2 DEF UserInv, UserIsThere, OneCreator
<1>3. ASSUME NEW r \in Requests, ReserveStep(r) \/ ExecuteStep(r) \/ Crash(r)
      PROVE  UserIsThere' /\ OneCreator'
  BY <1>3, CreatorStep
<1>4. ASSUME NEW k \in Keys, Expire(k) PROVE UserIsThere' /\ OneCreator'
  BY <1>2, <1>4 DEF Expire
<1>5. ASSUME NEW e \in Emails, ImportUser(e) PROVE UserIsThere' /\ OneCreator'
  BY <1>5 DEF ImportUser, UserInv, TypeOK, UserIsThere, OneCreator
<1>6. ASSUME UNCHANGED vars PROVE UserIsThere' /\ OneCreator'
  BY <1>2, <1>6 DEF vars, store
<1>7. UserIsThere' /\ OneCreator'
  BY <1>3, <1>4, <1>5, <1>6 DEF Next
<1> QED BY <1>1, <1>7 DEF UserInv

\* Who was told "created", by this request or by the stored answer, finds a user
\* that can log in and that the Studio knows: no later compensation, of any key,
\* can hit this user.
THEOREM CreatedStaysUsable == Spec => []CreatedIsUsable
<1>1. UserInv => CreatedIsUsable
  BY DEF UserInv, SuccessIsSettled, Settled, CreatedIsUsable
<1> QED BY <1>1, UserInit, UserStep, PTL DEF Spec

\* An identity without an account is in the hands of the request that created it,
\* if no process, no creation and no compensation has failed.
THEOREM LoginIsKnown == Spec => []NoUnknownLogin
<1> DEFINE Plain == incidents \subseteq {"ackLost"}
           Held(e) == \E r \in Requests : email[r] = e /\ pc[r] \in {"persist", "compensate"}
           Unknown(e) == identity[e] = "enabled" /\ ~ account[e]
<1>1. Init => NoUnknownLogin
  BY DEF Init, NoUnknownLogin
<1>2. ASSUME TypeOK, NoUnknownLogin, [Next]_vars PROVE NoUnknownLogin'
  <2> USE <1>2 DEF TypeOK
  <2> SUFFICES ASSUME Plain', NEW e \in Emails, Unknown(e)' PROVE Held(e)'
    BY DEF NoUnknownLogin
  <2>1. Plain /\ UNCHANGED email
    BY DEF Next, ReserveStep, Reserve, Conflict, Replay, ReserveFails, ExecuteStep, ResolveProvider,
         CreateUser, PersistCreatedUser, SyncRoles, Deactivate, CompleteIdempotency,
         FailIdempotency, Crash, Expire, ImportUser, vars, Incident
  <2>2. Unknown(e) => Held(e)
    BY <2>1 DEF NoUnknownLogin
  <2>3. CASE Unknown(e) /\ \A r \in Requests : pc[r] \in {"persist", "compensate"} => pc'[r] = pc[r]
    BY <2>1, <2>2, <2>3
  <2>4. ASSUME NEW r \in Requests, ReserveStep(r) PROVE Held(e)'
    BY <2>3, <2>4 DEF ReserveStep, Reserve, Conflict, Replay, ReserveFails, Answer, Goto, store
  <2>5. ASSUME NEW r \in Requests, CreateUser(r) PROVE Held(e)'
    BY <2>1, <2>2, <2>5 DEF CreateUser, Goto, Incident
  <2>6. ASSUME NEW r \in Requests, PersistCreatedUser(r) PROVE Held(e)'
    BY <2>1, <2>2, <2>6 DEF PersistCreatedUser, PersistFails, Goto
  <2>7. ASSUME NEW r \in Requests, Deactivate(r) PROVE Held(e)'
    BY <2>1, <2>2, <2>7 DEF Deactivate, Goto, Incident
  <2>8. ASSUME NEW r \in Requests, \/ ResolveProvider(r) \/ SyncRoles(r)
                                   \/ CompleteIdempotency(r) \/ FailIdempotency(r)
        PROVE  Held(e)'
    BY <2>3, <2>8 DEF ResolveProvider, SyncRoles, CompleteIdempotency, FailIdempotency, Answer,
         Goto, store
  <2>9. ASSUME NEW r \in Requests, Crash(r) PROVE Held(e)'
    BY <2>9 DEF Crash, Incident
  <2>10. ASSUME NEW k \in Keys, Expire(k) PROVE Held(e)'
    BY <2>3, <2>10 DEF Expire
  <2>11. ASSUME NEW f \in Emails, ImportUser(f) PROVE Held(e)'
    BY <2>3, <2>11 DEF ImportUser
  <2>12. CASE UNCHANGED vars
    BY <2>3, <2>12 DEF vars, store
  <2> QED BY <2>4, <2>5, <2>6, <2>7, <2>8, <2>9, <2>10, <2>11, <2>12 DEF Next, ExecuteStep
<1>3. TypeOK /\ NoUnknownLogin /\ [Next]_vars => NoUnknownLogin'
  BY <1>2
<1> QED BY <1>1, <1>3, TypeCorrect, PTL DEF Spec

=============================================================================
