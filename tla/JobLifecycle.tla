---------------------------- MODULE JobLifecycle ----------------------------
(***************************************************************************)
(* What the readers of a Studio job's row (monitoring list, job detail,    *)
(* polling clients) may rely on: attempts are numbered upwards, an attempt *)
(* runs and then ends in one way, a later attempt may replace the end of   *)
(* an earlier one (jobs run at least once), the last attempt never ends in *)
(* "retrying", and "cancelled" is only ever the answer to a request.       *)
(***************************************************************************)
EXTENDS Naturals

CONSTANT MaxAttempts  \* attempts a job has

VARIABLES status, attempts, cancel

vars == <<status, attempts, cancel>>

Exists == status \notin {"absent", "deleted"}

Init == status = "absent" /\ attempts = 0 /\ cancel = FALSE

Create == /\ status = "absent"
          /\ status' = "queued"
          /\ UNCHANGED <<attempts, cancel>>

\* Attempt n starts; attempts between may have died before they wrote anything.
Begin == /\ Exists
         /\ \E n \in (attempts + 1)..MaxAttempts : attempts' = n
         /\ status' = "running"
         /\ UNCHANGED cancel

End == /\ status = "running"
       /\ \/ status' \in {"succeeded", "failed"}
          \/ status' = "retrying" /\ attempts < MaxAttempts
          \/ status' = "cancelled" /\ cancel
       /\ UNCHANGED <<attempts, cancel>>

RequestCancel == /\ Exists
                 /\ cancel' = TRUE
                 /\ UNCHANGED <<status, attempts>>

Delete == /\ Exists
          /\ status' = "deleted"
          /\ UNCHANGED <<attempts, cancel>>

Next == Create \/ Begin \/ End \/ RequestCancel \/ Delete

Spec == Init /\ [][Next]_vars
=============================================================================
