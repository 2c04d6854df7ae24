----------------------------- MODULE StudioJobs -----------------------------
(***************************************************************************)
(* The life of one Studio job: the row of iam.studio_jobs, its history in  *)
(* iam.studio_job_events, the entry of the graphile queue that makes it    *)
(* run, the worker runs that execute it, and the HTTP handlers that start, *)
(* cancel and delete it.                                                   *)
(*                                                                         *)
(* Every write of the row or of the history is a transaction of its own    *)
(* (withStudioJobRepository).  A worker run issues the two writes of one   *)
(* status change with Promise.all: they commit in either order, and when   *)
(* one is rejected the run goes on while the other is still under way (it  *)
(* is then in "late").  Jobs share nothing but the worker, so one job is   *)
(* modelled, with as many runs as may be under way at the same time.       *)
(***************************************************************************)
EXTENDS Naturals, FiniteSets

CONSTANTS
    Runs,         \* slots for runs of the task that are under way at one time
    MaxAttempts,  \* max_attempts of the queue entry and of the row
    Crashes,      \* bound: processes that die while they execute the job
    Stalls,       \* bound: queue locks that expire under a run still alive
    DbFaults      \* bound: database calls, the enqueue included, that are rejected

ASSUME StudioJobsAssumption ==
    /\ MaxAttempts \in Nat \ {0}
    /\ {Crashes, Stalls, DbFaults} \subseteq Nat
    /\ {"free", "orphan"} \cap Runs = {}

VARIABLES
    job,       \* the row: status, attempts, and whether a cancel is requested
    events,    \* the history: event type and attempts of each event
    start,     \* progress of the handler that starts the job
    entry,     \* the queue entry: whether it exists, its attempts, its lock
    run,       \* the runs of the task
    late,      \* writes still under way that nobody waits for any more
    deleting,  \* a delete handler has read a terminal status
    faults     \* faults that may still happen

vars == <<job, events, start, entry, run, late, deleting, faults>>

Active   == {"queued", "running", "retrying"}
Terminal == {"succeeded", "failed", "cancelled"}

\* The status changes a run writes.  "missing" (no handler is registered) and
\* "failed" write the same status and event but come from different places.
Outcomes  == {"running", "succeeded", "missing", "cancelled", "retrying", "failed"}
InTry     == {"running", "succeeded", "missing"}
StatusOfAsIs(o) == o  \* mutant: the row gets a status of its own
StatusOf(o) == IF o = "missing" THEN "failed" ELSE o

Writes == [kind : {"state", "event"}, outcome : Outcomes, attempt : 1..MaxAttempts]

\* updateJobState: unconditional; a row that is gone matches nothing.
SetState(status, attempts) ==
    job' = IF job.status = "absent" THEN job
           ELSE [job EXCEPT !.status = status, !.attempts = attempts]

Idle == [pc |-> "idle", attempt |-> 0, outcome |-> "running", pend |-> {}]

Load(attempt) ==
    [pc |-> "load", attempt |-> attempt, outcome |-> "running", pend |-> {}]

Persist(o, attempt) ==
    [pc |-> "persist", attempt |-> attempt, outcome |-> o, pend |-> {"state", "event"}]

\* createExecutionErrorPayload: the last attempt fails for good.
FailureOutcomeLate(attempt) ==  \* mutant: one attempt too many is expected
    IF attempt > MaxAttempts THEN "failed" ELSE "retrying"
FailureOutcome(attempt) == IF attempt >= MaxAttempts THEN "failed" ELSE "retrying"

\* The writes of a run that have not been settled yet.
Unsettled(r) ==
    {[kind |-> k, outcome |-> run[r].outcome, attempt |-> run[r].attempt] : k \in run[r].pend}

Spend(fault) == /\ faults[fault] > 0
                /\ faults' = [faults EXCEPT ![fault] = @ - 1]

-----------------------------------------------------------------------------
Init ==
    /\ job = [status |-> "absent", attempts |-> 0, cancel |-> FALSE]
    /\ events = {}
    /\ start = "idle"
    /\ entry = [live |-> FALSE, attempts |-> 0, lock |-> "free"]
    /\ run = [r \in Runs |-> Idle]
    /\ late = {}
    /\ deleting = FALSE
    /\ faults = [crash |-> Crashes, stall |-> Stalls, db |-> DbFaults]

(***************************************************************************)
(* The start handler: one transaction creates the row and its first event, *)
(* a second connection enqueues.                                           *)
(***************************************************************************)
CreateStudioJob ==
    /\ start = "idle"
    /\ start' = "created"
    /\ job' = [status |-> "queued", attempts |-> 0, cancel |-> FALSE]
    /\ events' = {[type |-> "queued", attempt |-> 0]}
    /\ UNCHANGED <<entry, run, late, deleting, faults>>

QueueStudioJob ==
    /\ start = "created"
    /\ start' = "accepted"
    /\ entry' = [live |-> TRUE, attempts |-> 0, lock |-> "free"]
    /\ UNCHANGED <<job, events, run, late, deleting, faults>>

\* The enqueue call is rejected: before it took effect or, when only the
\* answer is lost, after.
QueueStudioJobFails ==
    /\ start = "created"
    /\ Spend("db")
    /\ start' = "enqueueFailed"
    /\ \E queued \in BOOLEAN : entry' = [entry EXCEPT !.live = queued]
    /\ UNCHANGED <<job, events, run, late, deleting>>

\* The row is marked failed, with the attempts it was created with and without
\* an event; an error of this write is swallowed.
MarkEnqueueFailed ==
    /\ start = "enqueueFailed"
    /\ start' = "rejected"
    /\ \/ SetState("failed", 0) /\ UNCHANGED faults
       \/ Spend("db") /\ UNCHANGED job
    /\ UNCHANGED <<events, entry, run, late, deleting>>

StartHandlerDies ==
    /\ start \in {"created", "enqueueFailed"}
    /\ start' = "dead"
    /\ UNCHANGED <<job, events, entry, run, late, deleting, faults>>

-----------------------------------------------------------------------------
(***************************************************************************)
(* The queue (graphile-worker).                                            *)
(***************************************************************************)
GetJob(r) ==
    /\ run[r].pc = "idle"
    /\ entry.live /\ entry.lock = "free" /\ entry.attempts < MaxAttempts
    /\ entry' = [entry EXCEPT !.lock = r, !.attempts = @ + 1]
    /\ run' = [run EXCEPT ![r] = Load(entry.attempts + 1)]
    /\ UNCHANGED <<job, events, start, late, deleting, faults>>

\* The task returned normally: the entry is removed, whoever has locked it.
CompleteEntry(r) ==
    /\ run[r].pc = "return"
    /\ entry' = [entry EXCEPT !.live = FALSE, !.lock = "free"]
    /\ run' = [run EXCEPT ![r] = Idle]
    /\ UNCHANGED <<job, events, start, late, deleting, faults>>

\* The task threw: the entry is unlocked for a retry if it is still this run's.
FailEntry(r) ==
    /\ run[r].pc = "throw"
    /\ entry' = IF entry.lock = r THEN [entry EXCEPT !.lock = "free"] ELSE entry
    /\ run' = [run EXCEPT ![r] = Idle]
    /\ UNCHANGED <<job, events, start, late, deleting, faults>>

\* The lock of a dead run expires after four hours, when none of its writes can
\* still be under way.
LockExpires ==
    /\ entry.live /\ entry.lock = "orphan" /\ late = {}
    /\ entry' = [entry EXCEPT !.lock = "free"]
    /\ UNCHANGED <<job, events, start, run, late, deleting, faults>>

\* A run that is alive for longer than that loses its lock.
LockIsLost ==
    /\ entry.live /\ entry.lock \in Runs
    /\ Spend("stall")
    /\ entry' = [entry EXCEPT !.lock = "free"]
    /\ UNCHANGED <<job, events, start, run, late, deleting>>

-----------------------------------------------------------------------------
(***************************************************************************)
(* A run of the task (createJobLifecycleOrchestrator).                     *)
(***************************************************************************)
LoadJobNotAwaited(r) ==  \* mutant: the handler starts before markRunning commits
    /\ run[r].pc = "load"
    /\ run' = [run EXCEPT ![r].pc = IF job.status = "absent" THEN "return" ELSE "handle"]
    /\ UNCHANGED <<job, events, start, entry, late, deleting, faults>>

\* A missing row is reported and the run returns.
LoadJob(r) ==
    /\ run[r].pc = "load"
    /\ run' = [run EXCEPT ![r] = IF job.status = "absent"
                                 THEN [@ EXCEPT !.pc = "return"]
                                 ELSE Persist("running", @.attempt)]
    /\ UNCHANGED <<job, events, start, entry, late, deleting, faults>>

LoadJobFails(r) ==
    /\ run[r].pc = "load"
    /\ Spend("db")
    /\ run' = [run EXCEPT ![r].pc = "throw"]
    /\ UNCHANGED <<job, events, start, entry, late, deleting>>

CommitState(r) ==
    /\ run[r].pc = "persist" /\ "state" \in run[r].pend
    /\ SetState(StatusOf(run[r].outcome), run[r].attempt)
    /\ run' = [run EXCEPT ![r].pend = @ \ {"state"}]
    /\ UNCHANGED <<events, start, entry, late, deleting, faults>>

\* An event refers to its row.
CommitEvent(r) ==
    /\ run[r].pc = "persist" /\ "event" \in run[r].pend
    /\ job.status # "absent"
    /\ events' = events \cup {[type |-> StatusOf(run[r].outcome), attempt |-> run[r].attempt]}
    /\ run' = [run EXCEPT ![r].pend = @ \ {"event"}]
    /\ UNCHANGED <<job, start, entry, late, deleting, faults>>

WriteFailsSwallowed(r) ==  \* mutant: an error of the catch block is swallowed
    /\ run[r].pc = "persist"
    /\ \E k \in run[r].pend :
          /\ \/ Spend("db")
             \/ k = "event" /\ job.status = "absent" /\ UNCHANGED faults
          /\ late' = late \cup {w \in Unsettled(r) : w.kind # k}
    /\ run' = [run EXCEPT ![r] = IF @.outcome \in InTry
                                 THEN Persist(FailureOutcome(@.attempt), @.attempt)
                                 ELSE [@ EXCEPT !.pc = "return", !.pend = {}]]
    /\ UNCHANGED <<job, events, start, entry, deleting>>

\* One of the writes is rejected.  Promise.all rejects at once and the other
\* write is left alone; in the try block the failure is persisted next, in the
\* catch block the run throws.
WriteFails(r) ==
    /\ run[r].pc = "persist"
    /\ \E k \in run[r].pend :
          /\ \/ Spend("db")
             \/ k = "event" /\ job.status = "absent" /\ UNCHANGED faults
          /\ late' = late \cup {w \in Unsettled(r) : w.kind # k}
    /\ run' = [run EXCEPT ![r] = IF @.outcome \in InTry
                                 THEN Persist(FailureOutcome(@.attempt), @.attempt)
                                 ELSE [@ EXCEPT !.pc = "throw", !.pend = {}]]
    /\ UNCHANGED <<job, events, start, entry, deleting>>

PersistedNoRethrow(r) ==  \* mutant: a failed attempt does not throw
    /\ run[r].pc = "persist" /\ run[r].pend = {}
    /\ run' = [run EXCEPT ![r].pc = IF run[r].outcome = "running" THEN "handle" ELSE "return"]
    /\ UNCHANGED <<job, events, start, entry, late, deleting, faults>>

PersistedInPlace(r) ==  \* mutant: a failed attempt is retried by the run itself
    /\ run[r].pc = "persist" /\ run[r].pend = {}
    /\ run' = [run EXCEPT ![r].pc = IF run[r].outcome \in {"running", "retrying"}
                                    THEN "handle" ELSE "return"]
    /\ UNCHANGED <<job, events, start, entry, late, deleting, faults>>

\* Both writes are committed.
Persisted(r) ==
    /\ run[r].pc = "persist" /\ run[r].pend = {}
    /\ run' = [run EXCEPT ![r].pc = CASE run[r].outcome = "running"  -> "handle"
                                      [] run[r].outcome = "retrying" -> "throw"
                                      [] OTHER -> "return"]
    /\ UNCHANGED <<job, events, start, entry, late, deleting, faults>>

\* The handler, and the writes its end leads to.
Handle(r, outcome) ==
    /\ run[r].pc = "handle"
    /\ run' = [run EXCEPT ![r] = Persist(outcome, @.attempt)]
    /\ UNCHANGED <<job, events, start, entry, late, deleting, faults>>

NoHandler(r)       == Handle(r, "missing")
HandlerSucceeds(r) == Handle(r, "succeeded")
HandlerThrows(r)   == Handle(r, FailureOutcome(run[r].attempt))
HandlerThrowsPermanent(r) == Handle(r, "failed")

\* throwIfCancellationRequested reads the row.
HandlerCancels(r) ==
    /\ job.status # "absent" /\ job.cancel
    /\ Handle(r, "cancelled")

\* The process dies.  What it had sent to the database may still commit.
Crash(r) ==
    /\ run[r].pc # "idle"
    /\ Spend("crash")
    /\ late' = late \cup Unsettled(r)
    /\ run' = [run EXCEPT ![r] = Idle]
    /\ entry' = IF entry.lock = r THEN [entry EXCEPT !.lock = "orphan"] ELSE entry
    /\ UNCHANGED <<job, events, start, deleting>>

CommitLate ==
    /\ \E w \in late :
          /\ late' = late \ {w}
          /\ \/ w.kind = "state" /\ SetState(StatusOf(w.outcome), w.attempt)
                                  /\ UNCHANGED events
             \/ /\ w.kind = "event" /\ job.status # "absent"
                /\ events' = events \cup {[type |-> StatusOf(w.outcome), attempt |-> w.attempt]}
                /\ UNCHANGED job
    /\ UNCHANGED <<start, entry, run, deleting, faults>>

LoseLate ==
    /\ \E w \in late : late' = late \ {w}
    /\ UNCHANGED <<job, events, start, entry, run, deleting, faults>>

-----------------------------------------------------------------------------
(***************************************************************************)
(* The monitoring handlers.  Deleting reads the status and deletes in one  *)
(* transaction, READ COMMITTED and without a lock.                         *)
(***************************************************************************)
RequestJobCancellation ==
    /\ job.status # "absent" /\ ~job.cancel
    /\ job' = [job EXCEPT !.cancel = TRUE]
    /\ UNCHANGED <<events, start, entry, run, late, deleting, faults>>

DeleteJobReads ==
    /\ ~deleting /\ job.status \in Terminal
    /\ deleting' = TRUE
    /\ UNCHANGED <<job, events, start, entry, run, late, faults>>

DeleteJob ==
    /\ deleting
    /\ deleting' = FALSE
    /\ job' = [job EXCEPT !.status = "absent"]
    /\ events' = {}
    /\ UNCHANGED <<start, entry, run, late, faults>>

-----------------------------------------------------------------------------
StartStep == \/ CreateStudioJob \/ QueueStudioJob \/ QueueStudioJobFails
             \/ MarkEnqueueFailed \/ StartHandlerDies

HandlerStep(r) == \/ NoHandler(r) \/ HandlerSucceeds(r) \/ HandlerThrows(r)
                  \/ HandlerThrowsPermanent(r) \/ HandlerCancels(r)

WorkerStep(r) == \/ GetJob(r) \/ CompleteEntry(r) \/ FailEntry(r)
                 \/ LoadJob(r) \/ CommitState(r) \/ CommitEvent(r)
                 \/ WriteFails(r) \/ Persisted(r) \/ HandlerStep(r)

Next == \/ StartStep
        \/ \E r \in Runs : WorkerStep(r) \/ LoadJobFails(r) \/ Crash(r)
        \/ LockExpires \/ LockIsLost \/ CommitLate \/ LoseLate
        \/ RequestJobCancellation \/ DeleteJobReads \/ DeleteJob

\* The worker polls the queue, the database answers, a handler ends, and an
\* expired lock is released; nobody has to cancel or delete, and no fault has
\* to happen.
Fairness == /\ \A r \in Runs : WF_vars(WorkerStep(r))
            /\ WF_vars(LockExpires) /\ WF_vars(CommitLate \/ LoseLate)

Spec == Init /\ [][Next]_vars
FairSpec == Spec /\ Fairness

-----------------------------------------------------------------------------
TypeOK ==
    /\ job \in [status : Active \cup Terminal \cup {"absent"},
               attempts : 0..MaxAttempts, cancel : BOOLEAN]
    /\ events \subseteq [type : Active \cup Terminal, attempt : 0..MaxAttempts]
    /\ start \in {"idle", "created", "accepted", "enqueueFailed", "rejected", "dead"}
    /\ entry \in [live : BOOLEAN, attempts : 0..MaxAttempts,
                 lock : Runs \cup {"free", "orphan"}]
    /\ run \in [Runs -> [pc : {"idle", "load", "persist", "handle", "return", "throw"},
                        attempt : 0..MaxAttempts, outcome : Outcomes,
                        pend : SUBSET {"state", "event"}]]
    /\ late \subseteq Writes
    /\ deleting \in BOOLEAN
    /\ faults \in [{"crash", "stall", "db"} -> Nat]

Deleted == job.status = "absent" /\ start # "idle"

\* A job whose start was answered with 202 is never lost: when its queue entry
\* is gone the row was deleted, or the history records how the job ended
\* (createJobLifecycleOrchestrator returns only after both writes of a terminal
\* status).  Holds under every fault modelled.
AcceptedIsNeverLost ==
    start = "accepted" /\ ~entry.live =>
        Deleted \/ \E e \in events : e.type \in Terminal

\* No database call was rejected (a write left behind may land last) and no run
\* has outlived its lock, so far.
Undisturbed == faults.db = DbFaults /\ faults.stall = Stalls

\* What the monitoring list shows of an accepted job that has left the queue is
\* how it ended, and its history agrees: a terminal status with the event of
\* the same attempt, whatever processes died before.
DequeuedIsTerminal ==
    Undisturbed /\ start = "accepted" /\ ~entry.live =>
        \/ Deleted
        \/ /\ job.status \in Terminal
           /\ [type |-> job.status, attempt |-> job.attempts] \in events

\* While a handler works on a job the row says so: "running", in the attempt
\* that the handler belongs to.
HandlerIsVisible ==
    Undisturbed /\ start = "accepted" =>
        \A r \in Runs : run[r].pc = "handle" /\ ~Deleted =>
            job.status = "running" /\ job.attempts = run[r].attempt

\* An accepted job leaves the queue, unless the last attempt the queue allows
\* ended in a crash or in a rejected database call.
AcceptedSettles ==
    start = "accepted" ~>
        \/ ~entry.live
        \/ entry.attempts = MaxAttempts /\ entry.lock \notin Runs

\* The row, seen through its status, attempts and cancel request, lives the life
\* JobLifecycle describes: nobody reverts the end of an attempt, whatever dies
\* on the way.  For instances without rejected database calls and stalled runs.
Lifecycle == INSTANCE JobLifecycle WITH
    status   <- IF Deleted THEN "deleted" ELSE job.status,
    attempts <- job.attempts,
    cancel   <- job.cancel

ImplementsLifecycle == Lifecycle!Spec
=============================================================================
