------------------------------- MODULE RoleSync -------------------------------
(***************************************************************************)
(* The technical role system_admin of one instance, kept in the database    *)
(* and in the instance's Keycloak realm (iam-admin: role-create-sync.ts,    *)
(* role-update-sync.ts, role-delete-handler.ts, managed-role-sync.ts,       *)
(* reconcile-core.ts).  It is the only role that both hold.                 *)
(*                                                                         *)
(* An operation writes to one system after the other.  What the second one  *)
(* refuses is undone in the first, as far as that works; what is left       *)
(* over is for the reconciliation, which compares the two.                  *)
(***************************************************************************)
EXTENDS Integers

CONSTANTS
    Operations,  \* operations under way at a time
    Scheduler,   \* the one of them that only reconciles, again and again
    Names,       \* display names of the role
    Users,       \* who may be assigned to it
    RowIds       \* ids of its row; an id is used again once nothing refers to it

ASSUME ConstantsAssumption == Scheduler \in Operations /\ RowIds # {}

VARIABLES
    row,       \* the row of iam.roles
    assigned,  \* the users iam.account_roles assigns to that row
    realmRole, \* the realm role in Keycloak and its members
    op,        \* what every operation does
    history,   \* history: has anything happened that operations do not allow for
    paused     \* have administration and faults come to a pause

vars == <<row, assigned, realmRole, op, history, paused>>

None == [none |-> TRUE]
Idle == [kind |-> "idle"]

Kinds == {"create", "update", "delete", "reconcile", "ensure"}
\* last_error_code; DB_WRITE_FAILED is told apart by the operation that failed.
Codes == {"none", "idp", "update", "delete", "compensation"}
Row == [id : RowIds, name : Names, system : BOOLEAN,
        sync : {"synced", "pending", "failed"}, code : Codes]
RealmRole == [name : Names, members : SUBSET Users]

\* An instance is provisioned with a protected row that waits for its first
\* synchronisation, or has none; the realm may hold the role under any name.
Init ==
    /\ row \in {None} \cup [id : {CHOOSE i \in RowIds : TRUE}, name : Names, system : BOOLEAN,
                            sync : {"pending"}, code : {"none"}]
    /\ assigned \in SUBSET Users /\ (row = None => assigned = {})
    /\ realmRole \in {None} \cup [name : Names, members : {assigned}]
    /\ op = [o \in Operations |-> Idle]
    /\ history = "clean" /\ paused = FALSE

\* Keycloak: a role is created, or renamed if it is there already.
MadeBare(n) == [name |-> n]  \* mutant: the realm role is replaced, not renamed
Made(n) == IF realmRole = None THEN [name |-> n, members |-> {}]
           ELSE [realmRole EXCEPT !.name = n]
Renamed(n) == IF realmRole = None THEN None ELSE [realmRole EXCEPT !.name = n]

\* The database: a state is written to the row with that id, if there is one.
Marked(id, sync, code) ==
    IF row # None /\ row.id = id THEN [row EXCEPT !.sync = sync, !.code = code] ELSE row
Seen == [id |-> row.id, name |-> row.name, synced |-> row.sync = "synced"]
Present(id) == row # None /\ row.id = id
FreshIds ==
    {i \in RowIds : ~Present(i) /\ \A o \in Operations :
                       op[o] # Idle => op[o].seen = None \/ op[o].seen.id # i}
NewRow(n) == [id |-> CHOOSE i \in FreshIds : TRUE, name |-> n, system |-> FALSE, sync |-> "synced", code |-> "none"]

At(o, kinds, pc) == op[o] # Idle /\ op[o].kind \in kinds /\ op[o].pc = pc
Goto(o, pc) == op' = [op EXCEPT ![o].pc = pc]
Fail(o, code) == op' = [op EXCEPT ![o].pc = "fail", ![o].code = code]
End(o) == op' = [op EXCEPT ![o] = Idle]
Disturb == history' = "disturbed"
\* A creation has written to Keycloak: did the database have the role already?
NoteCreation ==
    history' = IF row # None /\ history = "clean" THEN "recreated" ELSE history

Begin(o, kind, n) ==
    /\ op[o] = Idle /\ (o = Scheduler => kind = "reconcile")
    /\ kind \in {"create", "update"} <=> n # None
    /\ op' = [op EXCEPT ![o] = [kind |-> kind, pc |-> IF kind = "create" THEN "write" ELSE "read",
                                name |-> n, seen |-> None, subjects |-> {}, code |-> "none"]]
    /\ IF \E p \in Operations : op[p] # Idle THEN Disturb ELSE UNCHANGED history
    /\ paused => kind \in {"reconcile", "ensure"}
    /\ UNCHANGED <<row, assigned, realmRole>>
-----------------------------------------------------------------------------
(***************************************************************************)
(* Creation: Keycloak, the row, the idempotency key.  If the row or the key *)
(* cannot be written, the role is deleted in Keycloak.                      *)
(***************************************************************************)
CreateRole(o) ==
    /\ At(o, {"create"}, "write")
    /\ realmRole' = Made(op[o].name) /\ NoteCreation
    /\ Goto(o, "persist")
    /\ UNCHANGED <<row, assigned>>

PersistCreatedRole(o) ==
    /\ At(o, {"create"}, "persist")
    /\ \/ /\ row = None /\ Goto(o, "complete")
          /\ FreshIds # {} /\ row' = NewRow(op[o].name)
       \/ row # None /\ Goto(o, "undo") /\ UNCHANGED row
    /\ UNCHANGED <<assigned, realmRole, history>>

CompleteKey(o) ==
    /\ At(o, {"create"}, "complete")
    /\ End(o)
    /\ UNCHANGED <<row, assigned, realmRole, history>>

UndoCreate(o) ==
    /\ At(o, {"create"}, "undo")
    /\ realmRole' = None /\ NoteCreation
    /\ End(o)
    /\ UNCHANGED <<row, assigned>>
-----------------------------------------------------------------------------
(***************************************************************************)
(* Update and deletion: the row is read and marked pending, Keycloak is     *)
(* changed, then the row.                                                  *)
(***************************************************************************)
ReadRole(o) ==
    /\ At(o, {"update", "delete"}, "read")
    /\ IF row = None \/ row.system THEN End(o)
       ELSE op' = [op EXCEPT ![o].seen = Seen, ![o].pc = IF op[o].kind = "delete" THEN "list" ELSE "mark"]
    /\ UNCHANGED <<row, assigned, realmRole, history>>

ListSubjects(o) ==
    /\ At(o, {"delete"}, "list")
    /\ op' = [op EXCEPT ![o].subjects = IF Present(op[o].seen.id) THEN assigned ELSE {},
                        ![o].pc = "mark"]
    /\ UNCHANGED <<row, assigned, realmRole, history>>

MarkNothing(o) ==  \* mutant: the row is not marked before Keycloak is changed
    /\ At(o, {"update", "delete"}, "mark")
    /\ Goto(o, "write")
    /\ UNCHANGED <<row, assigned, realmRole, history>>

MarkPending(o) ==
    /\ At(o, {"update", "delete"}, "mark")
    /\ row' = Marked(op[o].seen.id, "pending", "none")
    /\ Goto(o, "write")
    /\ UNCHANGED <<assigned, realmRole, history>>

UpdateRole(o) ==
    /\ At(o, {"update"}, "write")
    /\ realmRole' = Renamed(op[o].name)
    /\ IF realmRole # None THEN Goto(o, "persist") ELSE Fail(o, "idp")
    /\ UNCHANGED <<row, assigned, history>>

PersistUpdatedRole(o) ==
    /\ At(o, {"update"}, "persist")
    /\ \/ /\ Present(op[o].seen.id) /\ End(o)
          /\ row' = [row EXCEPT !.name = op[o].name, !.sync = "synced", !.code = "none"]
       \/ ~Present(op[o].seen.id) /\ Goto(o, "undo") /\ UNCHANGED row
    /\ UNCHANGED <<assigned, realmRole, history>>

UndoUpdate(o) ==
    /\ At(o, {"update"}, "undo")
    /\ realmRole' = Renamed(op[o].seen.name)
    /\ Fail(o, IF realmRole # None THEN "update" ELSE "compensation")
    /\ UNCHANGED <<row, assigned, history>>

\* A role that Keycloak does not know counts as deleted there.
DeleteRole(o) ==
    /\ At(o, {"delete"}, "write")
    /\ realmRole' = None
    /\ Goto(o, "persist")
    /\ UNCHANGED <<row, assigned, history>>

DeleteRows(id) ==
    /\ row' = IF Present(id) THEN None ELSE row
    /\ assigned' = IF Present(id) THEN {} ELSE assigned

DeleteFromDatabase(o) ==
    /\ At(o, {"delete"}, "persist")
    /\ DeleteRows(op[o].seen.id)
    /\ End(o)
    /\ UNCHANGED <<realmRole, history>>

UndoDelete(o) ==
    /\ At(o, {"delete"}, "undo")
    /\ realmRole' = Made(op[o].seen.name)
    /\ Goto(o, "reassign")
    /\ UNCHANGED <<row, assigned, history>>

ReassignNobody(o) ==  \* mutant: the role is restored without its members
    /\ At(o, {"delete"}, "reassign")
    /\ Fail(o, "delete")
    /\ UNCHANGED <<row, assigned, realmRole, history>>

Reassign(o) ==
    /\ At(o, {"delete"}, "reassign")
    /\ \/ /\ realmRole # None /\ Fail(o, "delete")
          /\ realmRole' = [realmRole EXCEPT !.members = @ \cup op[o].subjects]
       \/ realmRole = None /\ op[o].subjects = {} /\ Fail(o, "delete") /\ UNCHANGED realmRole
       \/ realmRole = None /\ op[o].subjects # {} /\ End(o) /\ UNCHANGED realmRole
    /\ UNCHANGED <<row, assigned, history>>

MarkFailed(o) ==
    /\ At(o, Kinds, "fail")
    /\ row' = Marked(op[o].seen.id, "failed", op[o].code)
    /\ End(o)
    /\ UNCHANGED <<assigned, realmRole, history>>
-----------------------------------------------------------------------------
(***************************************************************************)
(* Reconciliation: the row is read, then the realm role, then what differs  *)
(* is corrected.  ensureManagedRealmRolesExist, which the creation and the  *)
(* update of users call, creates a missing realm role in the same way.      *)
(***************************************************************************)
LoadRoles(o) ==
    /\ At(o, {"reconcile", "ensure"}, "read")
    /\ IF row = None /\ op[o].kind = "ensure" THEN End(o)
       ELSE op' = [op EXCEPT ![o].seen = IF row = None THEN None ELSE Seen, ![o].pc = "list"]
    /\ UNCHANGED <<row, assigned, realmRole, history>>

PlanByName(o) ==  \* mutant: a role whose names agree is left as it is
    LET seen == op[o].seen IN
    IF realmRole = None THEN IF seen = None THEN "nothing" ELSE "createmissing"
    ELSE IF op[o].kind = "ensure" THEN "nothing"
    ELSE IF seen = None THEN "import"
    ELSE IF realmRole.name # seen.name THEN "rename" ELSE "nothing"

\* What is to be done follows from what was read of the row and of the realm.
Plan(o) ==
    LET seen == op[o].seen IN
    IF realmRole = None THEN IF seen = None THEN "nothing" ELSE "createmissing"
    ELSE IF op[o].kind = "ensure" THEN "nothing"
    ELSE IF seen = None THEN "import"
    ELSE IF realmRole.name # seen.name THEN "rename"
    ELSE IF seen.synced THEN "nothing" ELSE "marksynced"

ListRoles(o) ==
    /\ At(o, {"reconcile", "ensure"}, "list")
    /\ IF Plan(o) = "nothing" THEN End(o)
       ELSE op' = [op EXCEPT ![o].pc = Plan(o),
                             ![o].name = IF Plan(o) = "import" THEN realmRole.name ELSE None]
    /\ UNCHANGED <<row, assigned, realmRole, history>>

CreateMissing(o) ==
    /\ At(o, {"reconcile", "ensure"}, "createmissing")
    /\ realmRole' = Made(op[o].seen.name)
    /\ Goto(o, "marksynced")
    /\ UNCHANGED <<row, assigned, history>>

UpdateMatched(o) ==
    /\ At(o, {"reconcile"}, "rename")
    /\ realmRole' = Renamed(op[o].seen.name)
    /\ IF realmRole # None THEN Goto(o, "marksynced") ELSE Fail(o, "idp")
    /\ UNCHANGED <<row, assigned, history>>

MarkSynced(o) ==
    /\ At(o, {"reconcile", "ensure"}, "marksynced")
    /\ row' = Marked(op[o].seen.id, "synced", "none")
    /\ End(o)
    /\ UNCHANGED <<assigned, realmRole, history>>

\* A realm role that the database does not have becomes an ordinary row of it.
Import(o) ==
    /\ At(o, {"reconcile"}, "import")
    /\ IF row = None THEN FreshIds # {} /\ row' = NewRow(op[o].name) ELSE UNCHANGED row
    /\ End(o)
    /\ UNCHANGED <<assigned, realmRole, history>>
-----------------------------------------------------------------------------
(***************************************************************************)
(* Faults.  A call to Keycloak fails, with its effect or without; a         *)
(* transaction fails, or is committed without an acknowledgement; a process *)
(* dies, which is also what an error does that nothing catches.             *)
(***************************************************************************)
CreateRoleFails(o) ==
    /\ At(o, {"create"}, "write")
    /\ \/ UNCHANGED <<realmRole, history>>
       \/ realmRole' = Made(op[o].name) /\ NoteCreation
    /\ End(o)
    /\ UNCHANGED <<row, assigned>>

PersistCreatedFails(o) ==
    /\ At(o, {"create"}, "persist")
    /\ \/ UNCHANGED <<row, history>>
       \/ /\ row = None /\ Disturb
          /\ FreshIds # {} /\ row' = NewRow(op[o].name)
    /\ Goto(o, "undo")
    /\ UNCHANGED <<assigned, realmRole>>

CompleteKeyFails(o) ==
    /\ At(o, {"create"}, "complete")
    /\ Goto(o, "undo")
    /\ UNCHANGED <<row, assigned, realmRole, history>>

UpdateRoleFails(o) ==
    /\ At(o, {"update"}, "write")
    /\ realmRole' \in {realmRole, Renamed(op[o].name)}
    /\ Fail(o, "idp")
    /\ UNCHANGED <<row, assigned, history>>

PersistUpdatedFails(o) ==
    /\ At(o, {"update"}, "persist")
    /\ \/ UNCHANGED <<row, history>>
       \/ /\ Present(op[o].seen.id) /\ Disturb
          /\ row' = [row EXCEPT !.name = op[o].name, !.sync = "synced", !.code = "none"]
    /\ Goto(o, "undo")
    /\ UNCHANGED <<assigned, realmRole>>

UndoUpdateFails(o) ==
    /\ At(o, {"update"}, "undo")
    /\ realmRole' \in {realmRole, Renamed(op[o].seen.name)}
    /\ Fail(o, "compensation")
    /\ UNCHANGED <<row, assigned, history>>

DeleteRoleFails(o) ==
    /\ At(o, {"delete"}, "write")
    /\ realmRole' \in {realmRole, None}
    /\ Fail(o, "idp")
    /\ UNCHANGED <<row, assigned, history>>

DeleteFromDatabaseFails(o) ==
    /\ At(o, {"delete"}, "persist")
    /\ \/ UNCHANGED <<row, assigned, history>>
       \/ DeleteRows(op[o].seen.id) /\ Disturb
    /\ Goto(o, "undo")
    /\ UNCHANGED realmRole

\* The deletion is neither finished nor marked as failed.
UndoDeleteFails(o) ==
    /\ \/ /\ At(o, {"delete"}, "undo")
          /\ realmRole' \in {realmRole, Made(op[o].seen.name)}
       \/ /\ At(o, {"delete"}, "reassign") /\ realmRole # None
          /\ \E S \in SUBSET op[o].subjects :
                realmRole' = [realmRole EXCEPT !.members = @ \cup S]
    /\ End(o)
    /\ UNCHANGED <<row, assigned, history>>

\* Creating, renaming or marking fails; the row is marked as failed instead.
CorrectionFails(o) ==
    /\ \/ /\ At(o, {"reconcile", "ensure"}, "createmissing") /\ UNCHANGED row
          /\ realmRole' \in {realmRole, Made(op[o].seen.name)}
       \/ /\ At(o, {"reconcile"}, "rename") /\ UNCHANGED row
          /\ realmRole' \in {realmRole, Renamed(op[o].seen.name)}
       \/ /\ At(o, {"reconcile", "ensure"}, "marksynced") /\ UNCHANGED realmRole
          /\ row' \in {row, Marked(op[o].seen.id, "synced", "none")}
    /\ Fail(o, "idp")
    /\ UNCHANGED <<assigned, history>>

Crash(o) ==
    /\ op[o] # Idle
    /\ End(o)
    /\ UNCHANGED <<row, assigned, realmRole, history>>
-----------------------------------------------------------------------------
CreateStep(o) == CreateRole(o) \/ PersistCreatedRole(o) \/ CompleteKey(o) \/ UndoCreate(o)
ChangeStep(o) ==
    \/ ReadRole(o) \/ ListSubjects(o) \/ MarkPending(o) \/ UpdateRole(o)
    \/ PersistUpdatedRole(o) \/ UndoUpdate(o) \/ DeleteRole(o) \/ DeleteFromDatabase(o)
    \/ UndoDelete(o) \/ Reassign(o) \/ MarkFailed(o)
ReconcileStep(o) ==
    \/ LoadRoles(o) \/ ListRoles(o) \/ CreateMissing(o) \/ UpdateMatched(o)
    \/ MarkSynced(o) \/ Import(o)
Step(o) == CreateStep(o) \/ ChangeStep(o) \/ ReconcileStep(o)
Fault(o) ==
    \/ CreateRoleFails(o) \/ PersistCreatedFails(o) \/ CompleteKeyFails(o)
    \/ UpdateRoleFails(o) \/ PersistUpdatedFails(o) \/ UndoUpdateFails(o)
    \/ DeleteRoleFails(o) \/ DeleteFromDatabaseFails(o) \/ UndoDeleteFails(o)
    \/ CorrectionFails(o) \/ Crash(o)

Act(o) ==
    \/ Step(o)
    \/ \E k \in Kinds, n \in Names \cup {None} : Begin(o, k, n)
    \/ ~paused /\ Fault(o)

Pause ==
    /\ ~paused /\ paused' = TRUE
    /\ UNCHANGED <<row, assigned, realmRole, op, history>>

Next == (UNCHANGED paused /\ \E o \in Operations : Act(o)) \/ Pause

Spec == Init /\ [][Next]_vars

\* What has begun goes on, and the scheduler's timer starts the next run.
Fairness ==
    /\ \A o \in Operations : WF_vars(Step(o) /\ UNCHANGED paused)
    /\ WF_vars(Begin(Scheduler, "reconcile", None) /\ UNCHANGED paused)

FairSpec == Spec /\ Fairness
-----------------------------------------------------------------------------
Stages == {"write", "persist", "complete", "undo", "read", "list", "mark", "reassign",
           "fail", "createmissing", "rename", "marksynced", "import"}

TypeOK ==
    /\ row \in Row \cup {None}
    /\ assigned \in SUBSET Users
    /\ realmRole \in RealmRole \cup {None}
    /\ op \in [Operations -> {Idle} \cup
                 [kind : Kinds, pc : Stages, name : Names \cup {None},
                  seen : [id : RowIds, name : Names, synced : BOOLEAN] \cup {None}, subjects : SUBSET Users, code : Codes]]
    /\ history \in {"clean", "recreated", "disturbed"}
    /\ paused \in BOOLEAN

Agree == realmRole # None /\ realmRole.name = row.name

\* A row that says "synced" agrees with Keycloak, whatever failed or died on
\* the way: a change is announced before it is made and settled after it.
\* Holds for operations that do not overlap, as long as no commit went
\* unacknowledged and no creation met a role that the database had
\* (role-update-sync.ts:239-281, role-delete-handler.ts:166-272).
SyncedIsTrue ==
    row # None /\ row.sync = "synced" /\ history = "clean" => Agree

\* A change that the database refused has left no trace in Keycloak, once the
\* row says so: the name is back, and so are the members of a role that was
\* not deleted after all (role-update-sync.ts:177-202, role-delete-handler.ts:206-266).
RefusedIsUndone ==
    row # None /\ history = "clean" =>
        /\ row.code \in {"update", "delete"} => Agree
        /\ row.code = "delete" => assigned \subseteq realmRole.members

\* Whatever overlapped, failed or died: when administration and faults pause,
\* the scheduled reconciliation brings the two systems to agree for good
\* (reconcile-core.ts:654-738, :911-1044).
Converges ==
    paused ~> [](IF row = None THEN realmRole = None ELSE Agree /\ row.sync = "synced")

\* What the runbook says of "synced", of operations that do not overlap and
\* whose commits are acknowledged: no role that is synced needs repair
\* (docs/guides/keycloak-rollen-sync-runbook.md:53).
SyncedNeedsNoRepair ==
    row # None /\ row.sync = "synced" /\ history # "disturbed"
        /\ (\A o \in Operations : op[o] = Idle) => Agree

=============================================================================
