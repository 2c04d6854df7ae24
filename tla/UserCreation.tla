----------------------------- MODULE UserCreation -----------------------------
(***************************************************************************)
(* POST /api/v1/iam/users: a request with an Idempotency-Key creates an     *)
(* identity in Keycloak and an account in the Studio database, and stores   *)
(* its answer under the key (shared-idempotency.ts, user-create-handler.ts, *)
(* user-create-operation.ts).                                              *)
(*                                                                         *)
(* Requests run in any process, concurrently, with equal or different keys  *)
(* and e-mail addresses; a payload is its e-mail address.  Nothing spans    *)
(* database and Keycloak: a failure is compensated by disabling the         *)
(* identity.                                                               *)
(***************************************************************************)
EXTENDS FiniteSets

CONSTANTS
    Requests,  \* requests, repeated ones included
    Keys,      \* idempotency keys of one actor and endpoint
    Emails     \* payloads

VARIABLES
    keyOf, email,  \* of each request
    record,        \* row of a key in iam.idempotency_keys, or "free"
    identity,      \* the Keycloak user of an e-mail address
    account,       \* has it an account in the Studio database?
    pc, reply,     \* of each request
    incidents      \* what has gone wrong so far, see Incidents

store == <<record, identity, account>>
vars == <<keyOf, email, store, pc, reply, incidents>>

\* crash: a process dies.  ackLost: a commit is not acknowledged.  keycloak:
\* Keycloak creates the user, but the call ends in an error.  compensation:
\* the identity is not disabled.
Incidents == {"crash", "ackLost", "keycloak", "compensation"}

Final == {"COMPLETED", "FAILED"}
Executing == {"resolve", "create", "persist", "sync", "compensate"}
InFlight == Executing \cup {"complete", "fail"}
Free == [status |-> "free"]
Row(s, e) == [status |-> s, email |-> e]

Init ==
    /\ keyOf \in [Requests -> Keys]
    /\ email \in [Requests -> Emails]
    /\ record = [k \in Keys |-> Free]
    \* users the import has brought in before
    /\ \E known \in SUBSET Emails :
          /\ identity = [e \in Emails |-> IF e \in known THEN "enabled" ELSE "none"]
          /\ account = [e \in Emails |-> e \in known]
    /\ pc = [r \in Requests |-> "new"]
    /\ reply = [r \in Requests |-> "none"]
    /\ incidents = {}

Goto(r, l) == pc' = [pc EXCEPT ![r] = l]
Answer(r, a) == Goto(r, "done") /\ reply' = [reply EXCEPT ![r] = a]
Incident(i) == incidents' = incidents \cup {i}
WriteStatus(r, status) ==  \* mutant: the hash of the payload is not stored
    record' = [record EXCEPT ![keyOf[r]] = [status |-> status]]
Write(r, status) == record' = [record EXCEPT ![keyOf[r]] = Row(status, email[r])]

-----------------------------------------------------------------------------
(***************************************************************************)
(* reserveIdempotency: one transaction under an advisory lock of the key.  *)
(***************************************************************************)
Own(r) == record[keyOf[r]]

ReservableUnlessDone(r) ==  \* mutant: a repeated request takes an unfinished one over
    Own(r).status = "free" \/ Own(r) = Row("IN_PROGRESS", email[r])
ReservableAfterFailure(r) ==  \* mutant: a failed request may be repeated
    Own(r).status \in {"free", "FAILED"}
Reservable(r) == Own(r).status = "free"

Reserve(r) ==
    /\ pc[r] = "new" /\ Reservable(r)
    /\ Write(r, "IN_PROGRESS")
    /\ Goto(r, "resolve")
    /\ UNCHANGED <<keyOf, email, identity, account, reply, incidents>>

\* The key is in use by another payload or by a request under way.
Conflict(r) ==
    /\ pc[r] = "new" /\ ~ Reservable(r)
    /\ Own(r).email # email[r] \/ Own(r).status = "IN_PROGRESS"
    /\ Answer(r, "conflict")
    /\ UNCHANGED <<keyOf, email, store, incidents>>

Replay(r) ==
    /\ pc[r] = "new" /\ ~ Reservable(r)
    /\ Own(r).email = email[r] /\ Own(r).status \in Final
    /\ Answer(r, IF Own(r).status = "COMPLETED" THEN "created" ELSE "failed")
    /\ UNCHANGED <<keyOf, email, store, incidents>>

\* mapError
ReserveFails(r) ==
    /\ pc[r] = "new"
    /\ Answer(r, "error")
    /\ \/ UNCHANGED <<record, incidents>>
       \/ Reservable(r) /\ Write(r, "IN_PROGRESS") /\ Incident("ackLost")
    /\ UNCHANGED <<keyOf, email, identity, account>>

\* The cleanup of the next reservation after 24 hours, when no request of the
\* key is left.
Expire(k) ==
    /\ record[k].status # "free"
    /\ \A r \in Requests : keyOf[r] = k => pc[r] \notin InFlight
    /\ record' = [record EXCEPT ![k] = Free]
    /\ UNCHANGED <<keyOf, email, identity, account, pc, reply, incidents>>

-----------------------------------------------------------------------------
(***************************************************************************)
(* executeCreateUserMutation and executeCreateUser.                        *)
(***************************************************************************)

\* No provider is answered like a failed creation; an error of the lookup is
\* thrown outside of the try block.
ResolveProvider(r) ==
    /\ pc[r] = "resolve"
    /\ \/ Goto(r, "create") /\ UNCHANGED reply
       \/ Goto(r, "fail") /\ UNCHANGED reply
       \/ Answer(r, "error")
    /\ UNCHANGED <<keyOf, email, store, incidents>>

\* Keycloak keeps user names unique.  The client repeats a call that got no
\* answer; if the first one had an effect, the repeated one is refused.
CreateUserAdopting(r) ==  \* mutant: a user that exists is taken for a created one
    /\ pc[r] = "create"
    /\ identity' = [identity EXCEPT ![email[r]] = IF @ = "none" THEN "enabled" ELSE @]
    /\ Goto(r, "persist")
    /\ UNCHANGED <<keyOf, email, record, account, reply, incidents>>
CreateUser(r) ==
    /\ pc[r] = "create"
    /\ \/ /\ identity[email[r]] = "none"
          /\ identity' = [identity EXCEPT ![email[r]] = "enabled"]
          /\ \/ Goto(r, "persist") /\ UNCHANGED incidents
             \/ Goto(r, "fail") /\ Incident("keycloak")
       \/ Goto(r, "fail") /\ UNCHANGED <<identity, incidents>>
    /\ UNCHANGED <<keyOf, email, record, account, reply>>

\* The insert of the account is refused if the import was faster, or for any
\* other reason.
PersistFailsPlainly(r) == Goto(r, "fail")  \* mutant: nothing is compensated
PersistFails(r) == Goto(r, "compensate")

PersistCreatedUser(r) ==
    /\ pc[r] = "persist"
    /\ \/ /\ ~ account[email[r]]
          /\ account' = [account EXCEPT ![email[r]] = TRUE]
          /\ \/ Goto(r, "sync") /\ UNCHANGED incidents
             \/ PersistFails(r) /\ Incident("ackLost")
       \/ PersistFails(r) /\ UNCHANGED <<account, incidents>>
    /\ UNCHANGED <<keyOf, email, record, identity, reply>>

\* What follows, the credentials of the Mainserver and the invitation, never
\* fails a creation.
SyncRoles(r) ==
    /\ pc[r] = "sync"
    /\ Goto(r, "complete") \/ Goto(r, "compensate")
    /\ UNCHANGED <<keyOf, email, store, reply, incidents>>

\* deactivateCreatedExternalUser; its failure is only logged.
Deactivate(r) ==
    /\ pc[r] = "compensate"
    /\ Goto(r, "fail")
    /\ \/ identity' = [identity EXCEPT ![email[r]] = "disabled"] /\ UNCHANGED incidents
       \/ Incident("compensation") /\ UNCHANGED identity
    /\ UNCHANGED <<keyOf, email, record, account, reply>>

\* An error of this write is caught like one of the creation.
CompleteIdempotency(r) ==
    /\ pc[r] = "complete"
    /\ \/ Write(r, "COMPLETED") /\ Answer(r, "created") /\ UNCHANGED incidents
       \/ Write(r, "COMPLETED") /\ Goto(r, "fail") /\ Incident("ackLost") /\ UNCHANGED reply
       \/ Goto(r, "fail") /\ UNCHANGED <<record, reply, incidents>>
    /\ UNCHANGED <<keyOf, email, identity, account>>

FailIdempotency(r) ==
    /\ pc[r] = "fail"
    /\ \/ Write(r, "FAILED") /\ Answer(r, "failed") /\ UNCHANGED incidents
       \/ Write(r, "FAILED") /\ Answer(r, "error") /\ Incident("ackLost")
       \/ Answer(r, "error") /\ UNCHANGED <<record, incidents>>
    /\ UNCHANGED <<keyOf, email, identity, account>>

Crash(r) ==
    /\ pc[r] \in InFlight
    /\ Goto(r, "dead")
    /\ Incident("crash")
    /\ UNCHANGED <<keyOf, email, store, reply>>

\* The import of Keycloak users, or the first login, may be faster than the
\* request that creates the user.
ImportUser(e) ==
    /\ identity[e] # "none" /\ ~ account[e]
    /\ account' = [account EXCEPT ![e] = TRUE]
    /\ UNCHANGED <<keyOf, email, record, identity, pc, reply, incidents>>

-----------------------------------------------------------------------------
ReserveStep(r) == Reserve(r) \/ Conflict(r) \/ Replay(r) \/ ReserveFails(r)

ExecuteStep(r) == \/ ResolveProvider(r) \/ CreateUser(r) \/ PersistCreatedUser(r)
                  \/ SyncRoles(r) \/ Deactivate(r)
                  \/ CompleteIdempotency(r) \/ FailIdempotency(r)

Next == \/ \E r \in Requests : ReserveStep(r) \/ ExecuteStep(r) \/ Crash(r)
        \/ \E k \in Keys : Expire(k)
        \/ \E e \in Emails : ImportUser(e)

Spec == Init /\ [][Next]_vars

-----------------------------------------------------------------------------
Rows == {Free} \cup [status : {"IN_PROGRESS"} \cup Final, email : Emails]

TypeOK ==
    /\ keyOf \in [Requests -> Keys] /\ email \in [Requests -> Emails]
    /\ record \in [Keys -> Rows]
    /\ identity \in [Emails -> {"none", "enabled", "disabled"}]
    /\ account \in [Emails -> BOOLEAN]
    /\ pc \in [Requests -> InFlight \cup {"new", "done", "dead"}]
    /\ reply \in [Requests -> {"none", "created", "failed", "conflict", "error"}]
    /\ incidents \subseteq Incidents

\* A request that still works for a key has the key to itself, reserved for its
\* own payload: no repeated request, however close, changes Keycloak or the
\* database a second time, and none does after an answer was stored.
KeyExecutesOnce ==
    \A r \in Requests : pc[r] \in InFlight =>
        /\ pc[r] \in Executing => Own(r) = Row("IN_PROGRESS", email[r])
        /\ \A s \in Requests : s # r /\ keyOf[s] = keyOf[r] => pc[s] \notin InFlight

\* Who is told that the user was created, now or by a replay, finds an enabled
\* identity with an account, whatever other requests for the same user, with
\* this key or another, compensate.
CreatedIsUsable ==
    \A r \in Requests : reply[r] = "created" =>
        identity[email[r]] = "enabled" /\ account[email[r]]

\* "Scheitert der lokale Persistenzschritt nach erfolgreicher Keycloak-Anlage,
\* deaktiviert der Service den externen Benutzer": an identity nobody knows in
\* the Studio can only log in while a request is working on it.  Process,
\* Keycloak's answer to the creation and the compensation must not fail.
NoUnknownLogin ==
    incidents \subseteq {"ackLost"} =>
        \A e \in Emails : identity[e] = "enabled" /\ ~ account[e] =>
            \E r \in Requests : email[r] = e /\ pc[r] \in {"persist", "compensate"}

\* The stored answer of a key stands until it expires.  Only a lost acknowledgement
\* lets it be replaced, only a success, only by a failure, and only by the request
\* that stored it and has not answered yet: no repeated request, no request with
\* another payload and none that has answered ever does (shared-idempotency.ts:91).
StoredAnswerStands ==
    [][\A k \in Keys : record[k].status \in Final /\ record'[k] \notin {record[k], Free} =>
          /\ "ackLost" \in incidents
          /\ \E r \in Requests : /\ keyOf[r] = k /\ pc[r] = "fail" /\ reply[r] = "none"
                                /\ record[k] = Row("COMPLETED", email[r])
                                /\ record'[k] = Row("FAILED", email[r])]_vars

=============================================================================
