-------------------------- MODULE StudioJobsProofs --------------------------
(***************************************************************************)
(* What holds of StudioJobs for every number of runs, attempts and faults. *)
(***************************************************************************)
EXTENDS StudioJobs, TLAPS

USE StudioJobsAssumption

\* A run record of the right shape, so that the leaves need not expand it.
RunType == [pc : {"idle", "load", "persist", "handle", "return", "throw"},
            attempt : 0..MaxAttempts, outcome : Outcomes,
            pend : SUBSET {"state", "event"}]

LEMMA PersistType ==
    ASSUME NEW o \in Outcomes, NEW n \in 0..MaxAttempts
    PROVE  Persist(o, n) \in RunType
BY DEF Persist, RunType

LEMMA FailureOutcomeType ==
    ASSUME NEW n \in 0..MaxAttempts
    PROVE  FailureOutcome(n) \in Outcomes
BY DEF FailureOutcome, Outcomes

LEMMA StatusOfType ==
    ASSUME NEW o \in Outcomes
    PROVE  StatusOf(o) \in Active \cup Terminal
BY DEF StatusOf, Outcomes, Active, Terminal

LEMMA IdleType == Idle \in RunType
BY DEF Idle, RunType, Outcomes
-----------------------------------------------------------------------------
(***************************************************************************)
(* Type correctness.  An attempt is numbered from the moment the queue     *)
(* hands it out, so whatever is left in flight carries a number of its own *)
(* run: without that TypeOK would not survive a crash.                     *)
(***************************************************************************)
Numbered == \A r \in Runs : run[r].pc # "idle" => run[r].attempt # 0

TypeInv == TypeOK /\ Numbered

FaultKinds == {"crash", "stall", "db"}

EntryType == [live : BOOLEAN, attempts : 0..MaxAttempts, lock : Runs \cup {"free", "orphan"}]

LEMMA LockedType ==
    ASSUME NEW e \in EntryType, NEW r \in Runs, NEW n \in 0..MaxAttempts
    PROVE  [e EXCEPT !.lock = r, !.attempts = n] \in EntryType
BY DEF EntryType

LEMMA SpendType ==
    ASSUME TypeOK, NEW fault \in FaultKinds, Spend(fault)
    PROVE  faults' \in [FaultKinds -> Nat]
<1>1. faults[fault] \in Nat /\ faults[fault] - 1 \in Nat
  BY DEF Spend, TypeOK, FaultKinds
<1> QED BY <1>1 DEF Spend, TypeOK, FaultKinds

LEMMA SetStateType ==
    ASSUME TypeOK, NEW status \in Active \cup Terminal, NEW n \in 0..MaxAttempts,
           SetState(status, n)
    PROVE  job' \in [status : Active \cup Terminal \cup {"absent"},
                    attempts : 0..MaxAttempts, cancel : BOOLEAN]
BY DEF SetState, TypeOK

LEMMA UnsettledType ==
    ASSUME TypeInv, NEW r \in Runs, run[r].pc # "idle"
    PROVE  Unsettled(r) \subseteq Writes
BY DEF Unsettled, Writes, TypeInv, TypeOK, Numbered

\* The steps of the start handler, the queue and the monitoring handlers.
LEMMA TypeOther ==
    ASSUME TypeInv,
           \/ StartStep \/ LockExpires \/ LockIsLost \/ CommitLate \/ LoseLate
           \/ RequestJobCancellation \/ DeleteJobReads \/ DeleteJob
    PROVE  TypeInv'
<1> USE DEF TypeInv, TypeOK, Numbered
<1>1. CASE CreateStudioJob
  BY <1>1 DEF CreateStudioJob, Active, Terminal
<1>2. CASE QueueStudioJob
  BY <1>2 DEF QueueStudioJob
<1>3. CASE QueueStudioJobFails
  BY <1>3, SpendType DEF QueueStudioJobFails, FaultKinds
<1>4. CASE MarkEnqueueFailed
  <2>1. "failed" \in Active \cup Terminal /\ 0 \in 0..MaxAttempts
    BY DEF Terminal
  <2> QED BY <1>4, <2>1, SpendType, SetStateType DEF MarkEnqueueFailed, FaultKinds
<1>5. CASE StartHandlerDies
  BY <1>5 DEF StartHandlerDies
<1>6. CASE LockExpires
  BY <1>6 DEF LockExpires
<1>7. CASE LockIsLost
  BY <1>7, SpendType DEF LockIsLost, FaultKinds
<1>8. CASE CommitLate
  <2>1. PICK w \in late :
          /\ late' = late \ {w}
          /\ \/ w.kind = "state" /\ SetState(StatusOf(w.outcome), w.attempt) /\ UNCHANGED events
             \/ /\ w.kind = "event" /\ job.status # "absent"
                /\ events' = events \cup {[type |-> StatusOf(w.outcome), attempt |-> w.attempt]}
                /\ UNCHANGED job
    BY <1>8 DEF CommitLate
  <2>2. w.outcome \in Outcomes /\ w.attempt \in 0..MaxAttempts
    BY DEF Writes
  <2>3. StatusOf(w.outcome) \in Active \cup Terminal
    BY <2>2, StatusOfType
  <2> QED BY <1>8, <2>1, <2>2, <2>3, SetStateType DEF CommitLate
<1>9. CASE LoseLate
  BY <1>9 DEF LoseLate
<1>10. CASE RequestJobCancellation
  BY <1>10 DEF RequestJobCancellation
<1>11. CASE DeleteJobReads
  BY <1>11 DEF DeleteJobReads
<1>12. CASE DeleteJob
  BY <1>12 DEF DeleteJob
<1> QED BY <1>1, <1>2, <1>3, <1>4, <1>5, <1>6, <1>7, <1>8, <1>9, <1>10, <1>11, <1>12
        DEF StartStep

\* The steps of a run.
LEMMA TypeRun ==
    ASSUME TypeInv, NEW r \in Runs, WorkerStep(r) \/ LoadJobFails(r) \/ Crash(r)
    PROVE  TypeInv'
<1> USE DEF TypeInv, TypeOK, Numbered
<1>0. run[r] \in RunType /\ run[r].attempt \in 0..MaxAttempts /\ run[r].outcome \in Outcomes
  BY DEF RunType
<1>1. CASE GetJob(r)
  <2>1. entry.attempts + 1 \in 1..MaxAttempts
    BY <1>1 DEF GetJob
  <2>2. Load(entry.attempts + 1) \in RunType
    BY <2>1 DEF Load, RunType, Outcomes
  <2>3. run' \in [Runs -> RunType]
    BY <1>1, <2>2 DEF GetJob, RunType
  <2>4. Numbered'
    BY <1>1, <2>1 DEF GetJob, Load
  <2>5. entry' \in EntryType
    <3>1. entry \in EntryType /\ entry.attempts + 1 \in 0..MaxAttempts
      BY <2>1 DEF EntryType
    <3>2. entry' = [entry EXCEPT !.lock = r, !.attempts = entry.attempts + 1]
      BY <1>1 DEF GetJob
    <3> HIDE DEF TypeInv, TypeOK, Numbered
    <3> QED BY <3>1, <3>2, LockedType
  <2> QED BY <1>1, <2>3, <2>4, <2>5 DEF GetJob, RunType, EntryType
<1>2. CASE CompleteEntry(r)
  BY <1>2, IdleType DEF CompleteEntry, RunType, Idle
<1>3. CASE FailEntry(r)
  BY <1>3, IdleType DEF FailEntry, RunType, Idle
<1>4. CASE LoadJob(r)
  <2>1. Persist("running", run[r].attempt) \in RunType
    BY <1>0, PersistType DEF Outcomes
  <2> QED BY <1>4, <2>1 DEF LoadJob, RunType, Persist
<1>5. CASE CommitState(r)
  <2>1. StatusOf(run[r].outcome) \in Active \cup Terminal
    BY <1>0, StatusOfType
  <2> QED BY <1>5, <1>0, <2>1, SetStateType DEF CommitState
<1>6. CASE CommitEvent(r)
  <2>1. StatusOf(run[r].outcome) \in Active \cup Terminal
    BY <1>0, StatusOfType
  <2> QED BY <1>6, <1>0, <2>1 DEF CommitEvent
<1>7. CASE WriteFails(r)
  <2>1. Persist(FailureOutcome(run[r].attempt), run[r].attempt) \in RunType
    BY <1>0, PersistType, FailureOutcomeType
  <2>2. late' \subseteq Writes
    BY <1>7, UnsettledType DEF WriteFails
  <2>3. faults' \in [FaultKinds -> Nat]
    BY <1>7, SpendType DEF WriteFails, FaultKinds
  <2> QED BY <1>7, <2>1, <2>2, <2>3 DEF WriteFails, RunType, Persist, FaultKinds
<1>8. CASE Persisted(r)
  BY <1>8 DEF Persisted
<1>9. CASE HandlerStep(r)
  <2>1. PICK o \in Outcomes : Handle(r, o)
    BY <1>9, <1>0, FailureOutcomeType
    DEF HandlerStep, NoHandler, HandlerSucceeds, HandlerThrows, HandlerThrowsPermanent,
        HandlerCancels, Outcomes
  <2>2. Persist(o, run[r].attempt) \in RunType
    BY <1>0, PersistType
  <2> QED BY <2>1, <2>2 DEF Handle, RunType, Persist
<1>10. CASE LoadJobFails(r)
  BY <1>10, SpendType DEF LoadJobFails, FaultKinds
<1>11. CASE Crash(r)
  <2>1. late' \subseteq Writes
    BY <1>11, UnsettledType DEF Crash
  <2>2. faults' \in [FaultKinds -> Nat]
    BY <1>11, SpendType DEF Crash, FaultKinds
  <2> QED BY <1>11, <2>1, <2>2, IdleType DEF Crash, RunType, Idle, FaultKinds
<1> QED BY <1>1, <1>2, <1>3, <1>4, <1>5, <1>6, <1>7, <1>8, <1>9, <1>10, <1>11 DEF WorkerStep

LEMMA InitType == Init => TypeInv
<1> SUFFICES ASSUME Init PROVE TypeInv
  OBVIOUS
<1>1. faults \in [FaultKinds -> Nat]
  BY DEF Init, FaultKinds
<1>2. run \in [Runs -> RunType]
  BY IdleType DEF Init
<1>3. Numbered
  BY DEF Init, Numbered, Idle
<1>4. job \in [status : Active \cup Terminal \cup {"absent"},
              attempts : 0..MaxAttempts, cancel : BOOLEAN]
  BY DEF Init
<1>5. entry \in EntryType
  BY DEF Init, EntryType
<1> QED BY <1>1, <1>2, <1>3, <1>4, <1>5 DEF Init, TypeInv, TypeOK, RunType, FaultKinds, EntryType

LEMMA NextType == TypeInv /\ [Next]_vars => TypeInv'
<1> SUFFICES ASSUME TypeInv, [Next]_vars PROVE TypeInv'
  OBVIOUS
<1>1. CASE UNCHANGED vars
  BY <1>1 DEF vars, TypeInv, TypeOK, Numbered
<1>2. CASE Next
  BY <1>2, TypeOther, TypeRun DEF Next
<1> QED BY <1>1, <1>2

\* Every state of a job has the type TypeOK says: no status, attempt number or
\* write in flight outside what the code knows.
THEOREM TypeCorrect == Spec => []TypeOK
<1>1. TypeInv => TypeOK
  BY DEF TypeInv
<1> QED BY <1>1, InitType, NextType, PTL DEF Spec

-----------------------------------------------------------------------------
(***************************************************************************)
(* An accepted job is never lost.  Ended is stable once the row exists,    *)
(* and a run owes it from the moment the event of a final status commits:  *)
(* that is what makes the invariant inductive.                             *)
(***************************************************************************)
Ended == job.status = "absent" \/ \E e \in events : e.type \in Terminal

Finals == {"succeeded", "missing", "cancelled", "failed"}

\* Nothing is queued and nobody runs before the row exists.
NothingBeforeStart ==
    start = "idle" => ~entry.live /\ \A r \in Runs : run[r].pc = "idle"

\* A run that is about to return, or has committed the event of a final
\* status, leaves a job that ended.
RunEnds ==
    \A r \in Runs :
        \/ run[r].pc = "return"
        \/ run[r].pc = "persist" /\ run[r].outcome \in Finals /\ "event" \notin run[r].pend
        => Ended

EndInv == TypeInv /\ NothingBeforeStart /\ RunEnds
              /\ (start = "accepted" /\ ~entry.live => Ended)

\* Only the start of the job can take Ended back.
LEMMA EndedIsStable ==
    ASSUME TypeInv, Ended, [Next]_vars, start # "idle"
    PROVE  Ended'
<1> USE DEF Ended, SetState, TypeInv, TypeOK
<1>1. CASE UNCHANGED vars
  BY <1>1 DEF vars
<1>2. CASE StartStep
  BY <1>2 DEF StartStep, CreateStudioJob, QueueStudioJob, QueueStudioJobFails,
              MarkEnqueueFailed, StartHandlerDies
<1>3. ASSUME NEW r \in Runs, WorkerStep(r) \/ LoadJobFails(r) \/ Crash(r)
      PROVE  Ended'
  BY <1>3 DEF WorkerStep, GetJob, CompleteEntry, FailEntry, LoadJob, CommitState,
              CommitEvent, WriteFails, Persisted, HandlerStep, NoHandler, HandlerSucceeds,
              HandlerThrows, HandlerThrowsPermanent, HandlerCancels, Handle, LoadJobFails, Crash
<1>4. CASE LockExpires \/ LockIsLost \/ LoseLate \/ CommitLate
  BY <1>4 DEF LockExpires, LockIsLost, LoseLate, CommitLate
<1>5. CASE RequestJobCancellation \/ DeleteJobReads \/ DeleteJob
  BY <1>5 DEF RequestJobCancellation, DeleteJobReads, DeleteJob
<1> QED BY <1>1, <1>2, <1>3, <1>4, <1>5 DEF Next
\* Nobody runs in "idle": a step of a run finds the row created.
LEMMA RunsStarted ==
    ASSUME EndInv, NEW r \in Runs, WorkerStep(r) \/ LoadJobFails(r) \/ Crash(r)
    PROVE  start # "idle" /\ start' = start
BY DEF EndInv, NothingBeforeStart, WorkerStep, GetJob, CompleteEntry, FailEntry, LoadJob,
       CommitState, CommitEvent, WriteFails, Persisted, HandlerStep, NoHandler,
       HandlerSucceeds, HandlerThrows, HandlerThrowsPermanent, HandlerCancels, Handle,
       LoadJobFails, Crash

LEMMA FinalStatus ==
    ASSUME NEW o \in Finals
    PROVE  StatusOf(o) \in Terminal
BY DEF Finals, StatusOf, Terminal

\* A step of a run leaves the other runs alone, and itself owes an end only
\* where the job has one.
LEMMA RunEndsByRun ==
    ASSUME EndInv, NEW r \in Runs, WorkerStep(r) \/ LoadJobFails(r) \/ Crash(r),
           Ended => Ended'
    PROVE  RunEnds'
<1> USE DEF RunEnds
<1>0. run \in [Runs -> RunType] /\ RunEnds
  BY DEF EndInv, TypeInv, TypeOK, RunType
<1>1. CASE GetJob(r)
  BY <1>0, <1>1 DEF GetJob, Load
<1>2. CASE CompleteEntry(r)
  BY <1>0, <1>2 DEF CompleteEntry, Idle
<1>3. CASE FailEntry(r)
  BY <1>0, <1>3 DEF FailEntry, Idle
<1>4. CASE LoadJob(r)
  <2>1. job.status = "absent" => Ended
    BY DEF Ended
  <2> QED BY <1>0, <1>4, <2>1 DEF LoadJob, Persist
<1>5. CASE CommitState(r)
  BY <1>0, <1>5 DEF CommitState
<1>6. CASE CommitEvent(r)
  <2>1. run[r].outcome \in Finals => Ended'
    <3> DEFINE e == [type |-> StatusOf(run[r].outcome), attempt |-> run[r].attempt]
    <3>1. e \in events'
      BY <1>6 DEF CommitEvent
    <3>2. run[r].outcome \in Finals => e.type \in Terminal
      BY FinalStatus
    <3> QED BY <3>1, <3>2 DEF Ended
  <2> QED BY <1>0, <1>6, <2>1 DEF CommitEvent
<1>7. CASE WriteFails(r)
  BY <1>0, <1>7 DEF WriteFails, Persist
<1>8. CASE Persisted(r)
  <2>1. run[r].outcome \in Finals \cup {"running", "retrying"}
    BY <1>0 DEF RunType, Outcomes, Finals
  <2>2. run'[r].pc = "return" => Ended
    BY <1>0, <1>8, <2>1 DEF Persisted, RunType
  <2>3. run'[r].pc # "persist" /\ \A q \in Runs : q # r => run'[q] = run[q]
    BY <1>0, <1>8 DEF Persisted
  <2> QED BY <1>0, <2>2, <2>3
<1>9. CASE HandlerStep(r)
  BY <1>0, <1>9 DEF HandlerStep, NoHandler, HandlerSucceeds, HandlerThrows,
        HandlerThrowsPermanent, HandlerCancels, Handle, Persist
<1>10. CASE LoadJobFails(r)
  BY <1>0, <1>10 DEF LoadJobFails
<1>11. CASE Crash(r)
  BY <1>0, <1>11 DEF Crash, Idle
<1> QED BY <1>1, <1>2, <1>3, <1>4, <1>5, <1>6, <1>7, <1>8, <1>9, <1>10, <1>11 DEF WorkerStep

\* An accepted job whose queue entry is gone has ended, in its row's absence or
\* in its history, for any number of runs, attempts and faults.
THEOREM AcceptedNeverLost == Spec => []AcceptedIsNeverLost
<1>1. Init => EndInv
  <2> SUFFICES ASSUME Init PROVE EndInv
    OBVIOUS
  <2>1. TypeInv
    BY InitType
  <2>2. NothingBeforeStart /\ RunEnds
    BY DEF Init, NothingBeforeStart, RunEnds, Idle
  <2>3. start = "idle"
    BY DEF Init
  <2> QED BY <2>1, <2>2, <2>3 DEF EndInv
<1>2. EndInv /\ [Next]_vars => EndInv'
  <2> SUFFICES ASSUME EndInv, [Next]_vars PROVE EndInv'
    OBVIOUS
  <2>1. TypeInv'
    BY NextType DEF EndInv
  <2>2. start # "idle" => (Ended => Ended')
    BY EndedIsStable DEF EndInv
  <2>3. CASE UNCHANGED vars
    BY <2>1, <2>3 DEF vars, EndInv, NothingBeforeStart, RunEnds, Ended
  <2>4. CASE CreateStudioJob
    BY <2>1, <2>4 DEF CreateStudioJob, EndInv, NothingBeforeStart, RunEnds
  <2>5. CASE QueueStudioJob
    BY <2>1, <2>2, <2>5 DEF QueueStudioJob, EndInv, NothingBeforeStart, RunEnds
  <2>6. CASE QueueStudioJobFails \/ MarkEnqueueFailed \/ StartHandlerDies
    BY <2>1, <2>2, <2>6 DEF QueueStudioJobFails, MarkEnqueueFailed, StartHandlerDies,
                            EndInv, NothingBeforeStart, RunEnds
  <2>7. CASE LockExpires \/ LockIsLost \/ CommitLate \/ LoseLate
    <3>1. start' = start /\ run' = run /\ entry'.live = entry.live
      BY <2>7 DEF LockExpires, LockIsLost, CommitLate, LoseLate, EndInv, TypeInv, TypeOK
    <3> QED BY <2>1, <2>2, <2>7, <3>1
            DEF LockExpires, LockIsLost, CommitLate, LoseLate,
                EndInv, NothingBeforeStart, RunEnds, TypeInv, TypeOK
  <2>8. CASE RequestJobCancellation \/ DeleteJobReads \/ DeleteJob
    BY <2>1, <2>2, <2>8 DEF RequestJobCancellation, DeleteJobReads, DeleteJob,
                            EndInv, NothingBeforeStart, RunEnds
  <2>9. ASSUME NEW r \in Runs, WorkerStep(r) \/ LoadJobFails(r) \/ Crash(r)
        PROVE  EndInv'
    <3>1. start # "idle" /\ start' = start
      BY <2>9, RunsStarted
    <3>2. RunEnds'
      BY <2>2, <2>9, <3>1, RunEndsByRun
    <3>3. entry'.live = entry.live \/ Ended
      BY <2>9 DEF WorkerStep, GetJob, CompleteEntry, FailEntry, LoadJob,
           CommitState, CommitEvent, WriteFails, Persisted, HandlerStep, NoHandler,
           HandlerSucceeds, HandlerThrows, HandlerThrowsPermanent, HandlerCancels, Handle,
           LoadJobFails, Crash, EndInv, RunEnds, TypeInv, TypeOK
    <3> QED BY <2>1, <2>2, <3>1, <3>2, <3>3 DEF EndInv, NothingBeforeStart
  <2> QED BY <2>3, <2>4, <2>5, <2>6, <2>7, <2>8, <2>9 DEF Next, StartStep
<1>3. EndInv => AcceptedIsNeverLost
  BY DEF EndInv, AcceptedIsNeverLost, Ended, Deleted
<1> QED BY <1>1, <1>2, <1>3, PTL DEF Spec

-----------------------------------------------------------------------------
(***************************************************************************)
(* Undisturbed, the one run that is under way holds the lock, and writes   *)
(* that a dead run left behind keep the entry locked: nobody else writes   *)
(* the row.  What the row and the history show then follows from where the *)
(* run is; what a write still under way will find follows likewise.        *)
(***************************************************************************)

\* The row before the status of outcome o is written in attempt n ...
Expects(o, n) ==
    IF o = "running"
    THEN job.attempts < n
    ELSE /\ job.status = "running" /\ job.attempts = n
         /\ o = "retrying" => n < MaxAttempts
         /\ o = "cancelled" => job.cancel
\* ... and after, and the history after its event.
Shows(o, n) == job.status = StatusOf(o) /\ job.attempts = n
Records(o, n) == [type |-> StatusOf(o), attempt |-> n] \in events

RowRecorded ==
    job.status \in Terminal /\ [type |-> job.status, attempt |-> job.attempts] \in events

RowOf(r) ==
    /\ run[r].pc \notin {"idle", "persist"} => run[r].pend = {}
    /\ run[r].pc = "load" => job.attempts < run[r].attempt
    /\ run[r].pc = "persist" =>
          /\ "state" \in run[r].pend => Expects(run[r].outcome, run[r].attempt)
          /\ "state" \notin run[r].pend => Shows(run[r].outcome, run[r].attempt)
          /\ "event" \notin run[r].pend => Records(run[r].outcome, run[r].attempt)
    /\ run[r].pc = "handle" => Shows("running", run[r].attempt)
    /\ run[r].pc = "return" => RowRecorded

\* Only an accepted job is queued and run, by the holder of the lock.
Held ==
    /\ start = "idle" => job = [status |-> "absent", attempts |-> 0, cancel |-> FALSE]
    /\ start \in {"idle", "created"} => job.attempts = 0
    /\ start # "enqueueFailed"
    /\ start # "accepted" => ~entry.live /\ late = {} /\ \A r \in Runs : run[r].pc = "idle"
    /\ \A r \in Runs : run[r].pc # "idle" =>
          entry.live /\ entry.lock = r /\ run[r].attempt = entry.attempts

Calm ==
    /\ job.attempts <= entry.attempts
    /\ late # {} => entry.live /\ entry.lock = "orphan"
    /\ \A v, w \in late : v.kind = w.kind => v = w
    /\ \A w \in late : w.attempt = entry.attempts
                         /\ (w.kind = "state" => Expects(w.outcome, w.attempt))
    /\ \A r \in Runs : RowOf(r)
    /\ start = "accepted" /\ ~entry.live => RowRecorded

FaultsBounded == faults.db <= DbFaults /\ faults.stall <= Stalls

CalmInv ==
    /\ TypeInv /\ FaultsBounded
    /\ Undisturbed => Held /\ (job.status # "absent" => Calm)

JobType == [status : Active \cup Terminal \cup {"absent"}, attempts : 0..MaxAttempts,
            cancel : BOOLEAN]

LEMMA Types ==
    ASSUME TypeInv
    PROVE  /\ run \in [Runs -> RunType] /\ job \in JobType /\ entry \in EntryType
           /\ late \subseteq Writes
           /\ faults \in [FaultKinds -> Nat]
           /\ "absent" \notin Active \cup Terminal
           /\ MaxAttempts \in Nat
BY DEF TypeInv, TypeOK, RunType, JobType, EntryType, FaultKinds, Active, Terminal

\* A fault that has been spent does not come back.
LEMMA Spends ==
    ASSUME TypeInv, FaultsBounded, NEW fault \in FaultKinds, Spend(fault)
    PROVE  FaultsBounded' /\ (Undisturbed' => Undisturbed /\ fault = "crash")
<1>1. /\ \A f \in FaultKinds : faults[f] \in Nat
      /\ \A f \in FaultKinds : faults'[f] = IF f = fault THEN faults[f] - 1 ELSE faults[f]
  BY Types DEF Spend
<1> QED BY <1>1 DEF FaultsBounded, Undisturbed, FaultKinds

LEMMA FaultsStep ==
    ASSUME TypeInv, FaultsBounded, [Next]_vars
    PROVE  FaultsBounded' /\ (Undisturbed' => Undisturbed)
<1>1. CASE UNCHANGED faults
  BY <1>1 DEF FaultsBounded, Undisturbed
<1>2. CASE Spend("db") \/ Spend("stall") \/ Spend("crash")
  BY <1>2, Spends DEF FaultKinds
<1> QED BY <1>1, <1>2
    DEF Next, StartStep, CreateStudioJob, QueueStudioJob, QueueStudioJobFails, MarkEnqueueFailed,
        StartHandlerDies, WorkerStep, GetJob, CompleteEntry, FailEntry, LoadJob, CommitState,
        CommitEvent, WriteFails, Persisted, HandlerStep, NoHandler, HandlerSucceeds,
        HandlerThrows, HandlerThrowsPermanent, HandlerCancels, Handle, LoadJobFails, Crash,
        LockExpires, LockIsLost, CommitLate, LoseLate, RequestJobCancellation, DeleteJobReads,
        DeleteJob, vars

\* What is left of the steps when nothing is rejected: a run only loses a write
\* when its row is gone.
QuietRun(r) ==
    \/ GetJob(r) \/ CompleteEntry(r) \/ FailEntry(r) \/ LoadJob(r) \/ CommitState(r)
    \/ CommitEvent(r) \/ Persisted(r) \/ HandlerStep(r) \/ Crash(r)
    \/ WriteFails(r) /\ job.status = "absent"

QuietOther ==
    \/ CreateStudioJob \/ QueueStudioJob \/ StartHandlerDies \/ LockExpires \/ CommitLate
    \/ LoseLate \/ RequestJobCancellation \/ DeleteJobReads \/ DeleteJob
    \/ MarkEnqueueFailed /\ start = "enqueueFailed"
    \/ UNCHANGED vars

LEMMA QuietSteps ==
    ASSUME TypeInv, FaultsBounded, [Next]_vars, Undisturbed'
    PROVE  QuietOther \/ \E r \in Runs : QuietRun(r)
<1>1. ~ Spend("db") /\ ~ Spend("stall")
  BY Spends DEF FaultKinds
<1>2. CASE Next
  BY <1>1, <1>2 DEF Next, StartStep, WorkerStep, QuietRun, QuietOther, QueueStudioJobFails,
                    MarkEnqueueFailed, LockIsLost, LoadJobFails, WriteFails
<1>3. CASE UNCHANGED vars
  BY <1>3 DEF QuietOther
<1> QED BY <1>2, <1>3

-----------------------------------------------------------------------------
LEMMA HeldByRun ==
    ASSUME TypeInv, Held, NEW r \in Runs, QuietRun(r)
    PROVE  Held'
<1> USE Types DEF Held
<1>1. CASE GetJob(r)
  <2>1. start = "accepted" /\ \A q \in Runs : run[q].pc = "idle"
    BY <1>1 DEF GetJob
  <2>2. entry'.live /\ entry'.lock = r /\ entry'.attempts = entry.attempts + 1
    BY <1>1 DEF GetJob, EntryType
  <2> QED BY <1>1, <2>1, <2>2 DEF GetJob, Load
<1>2. CASE GetJob(r) \/ run[r].pc # "idle"
  <2>0. run[r].pc # "idle" => start = "accepted" /\ entry.live /\ entry.lock = r
    OBVIOUS
  <2>1. CASE CompleteEntry(r) \/ FailEntry(r)
    <3>1. run' = [run EXCEPT ![r] = Idle] /\ start' = start /\ start = "accepted"
      BY <2>0, <2>1 DEF CompleteEntry, FailEntry
    <3>2. \A q \in Runs : run'[q].pc = "idle"
      BY <3>1, <2>1, <2>0 DEF Idle, CompleteEntry, FailEntry
    <3> QED BY <3>1, <3>2
  <2>2. CASE Crash(r)
    BY <2>0, <2>2 DEF Crash, Idle
  <2>3. CASE UNCHANGED <<start, entry>> /\ run[r].pc # "idle" /\ run'[r].attempt = run[r].attempt
             /\ \A q \in Runs : q # r => run'[q] = run[q]
    BY <2>0, <2>3
  <2> DEFINE Keeps == /\ UNCHANGED <<start, entry>> /\ run[r].pc # "idle"
                      /\ run'[r].attempt = run[r].attempt
                      /\ \A q \in Runs : q # r => run'[q] = run[q]
  <2>4. LoadJob(r) => Keeps
    BY DEF LoadJob, Persist, RunType
  <2>5. CommitState(r) \/ CommitEvent(r) \/ Persisted(r) => Keeps
    BY DEF CommitState, CommitEvent, Persisted, RunType
  <2>6. HandlerStep(r) => Keeps
    BY DEF HandlerStep, NoHandler, HandlerSucceeds, HandlerThrows, HandlerThrowsPermanent,
           HandlerCancels, Handle, Persist, RunType
  <2>7. WriteFails(r) => Keeps
    BY DEF WriteFails, Persist, RunType
  <2> QED BY <1>1, <1>2, <2>1, <2>2, <2>3, <2>4, <2>5, <2>6, <2>7 DEF QuietRun
<1>3. run[r].pc # "idle" \/ GetJob(r)
  BY DEF QuietRun, CompleteEntry, FailEntry, LoadJob, CommitState, CommitEvent, Persisted,
         HandlerStep, NoHandler, HandlerSucceeds, HandlerThrows, HandlerThrowsPermanent,
         HandlerCancels, Handle, WriteFails, Crash
<1> QED BY <1>2, <1>3

\* Undisturbed, no enqueue call has failed.
LEMMA HeldByOther ==
    ASSUME TypeInv, Held, QuietOther
    PROVE  Held'
<1> USE Types DEF Held
<1>1. CASE CreateStudioJob
  BY <1>1 DEF CreateStudioJob
<1>2. CASE QueueStudioJob
  BY <1>2 DEF QueueStudioJob
<1>3. CASE StartHandlerDies
  BY <1>3 DEF StartHandlerDies
<1>4. CASE LockExpires
  <2>1. \A r \in Runs : run[r].pc = "idle"
    BY <1>4 DEF LockExpires
  <2> QED BY <1>4, <2>1 DEF LockExpires, EntryType
<1>5. CASE CommitLate \/ LoseLate
  BY <1>5 DEF CommitLate, LoseLate
<1>6. CASE RequestJobCancellation \/ DeleteJobReads \/ DeleteJob
  BY <1>6 DEF RequestJobCancellation, DeleteJobReads, DeleteJob, JobType
<1>7. CASE MarkEnqueueFailed /\ start = "enqueueFailed"
  BY <1>7 DEF MarkEnqueueFailed
<1>8. CASE UNCHANGED vars
  BY <1>8 DEF vars
<1> QED BY <1>1, <1>2, <1>3, <1>4, <1>5, <1>6, <1>7, <1>8 DEF QuietOther

-----------------------------------------------------------------------------
\* The row after a status was written.
LEMMA RowSet ==
    ASSUME TypeInv, job.status # "absent", NEW status \in Active \cup Terminal,
           NEW n \in 0..MaxAttempts, SetState(status, n)
    PROVE  job'.status = status /\ job'.attempts = n /\ job'.cancel = job.cancel
BY Types DEF SetState, JobType

\* Whoever moves, no other run is under way, and no write of a dead one.
LEMMA RunsAlone ==
    ASSUME TypeInv, Held, Calm, NEW r \in Runs, QuietRun(r)
    PROVE  /\ late = {} /\ entry.live /\ start' = start
           /\ \A q \in Runs : q # r => run[q].pc = "idle" /\ run'[q] = run[q]
<1> USE Types DEF Held, Calm
<1>1. CASE GetJob(r)
  BY <1>1, StudioJobsAssumption DEF GetJob
<1>2. CASE ~ GetJob(r)
  <2>1. run[r].pc # "idle"
    BY <1>2 DEF QuietRun, CompleteEntry, FailEntry, LoadJob, CommitState, CommitEvent, Persisted,
             HandlerStep, NoHandler, HandlerSucceeds, HandlerThrows, HandlerThrowsPermanent,
             HandlerCancels, Handle, WriteFails, Crash
  <2>2. entry.live /\ entry.lock = r /\ late = {} /\ \A q \in Runs : q # r => run[q].pc = "idle"
    BY <2>1, StudioJobsAssumption
  <2> QED BY <1>2, <2>2
      DEF QuietRun, CompleteEntry, FailEntry, LoadJob, CommitState, CommitEvent, Persisted,
          HandlerStep, NoHandler, HandlerSucceeds, HandlerThrows, HandlerThrowsPermanent,
          HandlerCancels, Handle, WriteFails, Crash
<1> QED BY <1>1, <1>2

\* So only what the step does to the run itself is to be shown.
LEMMA CalmFromRow ==
    ASSUME TypeInv, Held, Calm, NEW r \in Runs, QuietRun(r),
           RowOf(r)', job'.attempts <= entry'.attempts,
           late' = {},
           entry'.live \/ RowRecorded'
    PROVE  Calm'
<1>1. \A q \in Runs : q # r => RowOf(q)'
  BY RunsAlone DEF Calm, RowOf
<1> QED BY <1>1 DEF Calm

LEMMA CalmByRun ==
    ASSUME TypeInv, Held, Calm, job.status # "absent", NEW r \in Runs, QuietRun(r)
    PROVE  Calm'
<1> USE Types
<1>0. /\ late = {} /\ entry.live /\ RowOf(r) /\ job.attempts <= entry.attempts
      /\ run[r].pc # "idle" => run[r].attempt = entry.attempts /\ entry.lock = r
      /\ run[r].attempt \in 0..MaxAttempts /\ run[r].outcome \in Outcomes
      /\ run[r].pend \in SUBSET {"state", "event"}
  BY RunsAlone DEF Calm, Held, RunType
<1>1. CASE GetJob(r)
  <2>1. entry'.attempts = entry.attempts + 1 /\ entry'.live
    BY <1>0, <1>1 DEF GetJob, EntryType
  <2>2. job'.attempts < entry'.attempts /\ job'.attempts <= entry'.attempts
    BY <1>0, <1>1, <2>1 DEF GetJob, EntryType, JobType
  <2>3. run'[r] = Load(entry'.attempts)
    BY <1>1, <2>1 DEF GetJob
  <2>4. RowOf(r)'
    BY <2>2, <2>3 DEF RowOf, Load
  <2>5. late' = {}
    BY <1>0, <1>1 DEF GetJob
  <2> QED BY <2>1, <2>2, <2>4, <2>5, CalmFromRow
<1>2. CASE CompleteEntry(r)
  <2>1. RowRecorded'
    BY <1>0, <1>2 DEF CompleteEntry, RowOf, RowRecorded
  <2>2. RowOf(r)' /\ late' = {}
    BY <1>0, <1>2 DEF CompleteEntry, RowOf, Idle
  <2>3. job'.attempts <= entry'.attempts
    BY <1>0, <1>2 DEF CompleteEntry, EntryType
  <2> QED BY <2>1, <2>2, <2>3, CalmFromRow
<1>3. CASE FailEntry(r)
  <2>1. RowOf(r)' /\ late' = {}
    BY <1>0, <1>3 DEF FailEntry, RowOf, Idle
  <2>2. job'.attempts <= entry'.attempts /\ entry'.live
    BY <1>0, <1>3 DEF FailEntry, EntryType
  <2> QED BY <2>1, <2>2, CalmFromRow
<1>4. CASE LoadJob(r)
  <2>1. run'[r] = Persist("running", run[r].attempt)
    BY <1>4 DEF LoadJob
  <2>2. RowOf(r)'
    BY <1>0, <1>4, <2>1 DEF LoadJob, RowOf, Persist, Expects
  <2> QED BY <1>0, <1>4, <2>2, CalmFromRow DEF LoadJob
<1>5. CASE CommitState(r)
  <2>1. StatusOf(run[r].outcome) \in Active \cup Terminal
    BY <1>0, StatusOfType
  <2>2. job'.status = StatusOf(run[r].outcome) /\ job'.attempts = run[r].attempt
    BY <1>0, <1>5, <2>1, RowSet DEF CommitState
  <2>3. run'[r] = [run[r] EXCEPT !.pend = @ \ {"state"}]
    BY <1>5 DEF CommitState
  <2>4. RowOf(r)'
    BY <1>0, <1>5, <2>2, <2>3 DEF CommitState, RowOf, RunType, Shows, Records
  <2>5. job'.attempts <= entry'.attempts /\ entry'.live /\ late' = {}
    BY <1>0, <1>5, <2>2 DEF CommitState, EntryType
  <2> QED BY <2>4, <2>5, CalmFromRow
<1>6. CASE CommitEvent(r)
  <2>1. run'[r] = [run[r] EXCEPT !.pend = @ \ {"event"}]
    BY <1>6 DEF CommitEvent
  <2>2. Records(run[r].outcome, run[r].attempt)'
    BY <1>6, <2>1 DEF CommitEvent, Records, RunType
  <2>3. RowOf(r)'
    BY <1>0, <1>6, <2>1, <2>2 DEF CommitEvent, RowOf, RunType, Shows, Expects, Records
  <2> QED BY <1>0, <1>6, <2>3, CalmFromRow DEF CommitEvent
<1>7. CASE Persisted(r)
  <2>1. Shows(run[r].outcome, run[r].attempt) /\ Records(run[r].outcome, run[r].attempt)
    BY <1>0, <1>7 DEF Persisted, RowOf
  <2>2. CASE run[r].outcome = "running"
    <3>1. run'[r] = [run[r] EXCEPT !.pc = "handle"]
      BY <1>7, <2>2 DEF Persisted
    <3>2. RowOf(r)'
      BY <1>7, <2>1, <2>2, <3>1 DEF Persisted, RowOf, RunType, Shows
    <3> QED BY <1>0, <1>7, <3>2, CalmFromRow DEF Persisted
  <2>3. CASE run[r].outcome = "retrying"
    <3>1. run'[r] = [run[r] EXCEPT !.pc = "throw"]
      BY <1>7, <2>3 DEF Persisted
    <3>2. RowOf(r)'
      BY <1>7, <3>1 DEF Persisted, RowOf, RunType
    <3> QED BY <1>0, <1>7, <3>2, CalmFromRow DEF Persisted
  <2>4. CASE run[r].outcome \in Finals
    <3>1. run'[r] = [run[r] EXCEPT !.pc = "return"]
      BY <1>7, <2>4 DEF Persisted, Finals
    <3>2. RowRecorded'
      <4>1. RowRecorded
        BY <2>1, <2>4, FinalStatus DEF RowRecorded, Shows, Records
      <4> QED BY <1>7, <4>1 DEF Persisted, RowRecorded
    <3>3. RowOf(r)'
      BY <1>7, <3>1, <3>2 DEF Persisted, RowOf, RunType
    <3> QED BY <1>0, <1>7, <3>3, CalmFromRow DEF Persisted
  <2> QED BY <1>0, <2>2, <2>3, <2>4 DEF Outcomes, Finals
<1>8. CASE HandlerStep(r)
  <2>1. PICK o \in Outcomes :
          /\ Handle(r, o) /\ o # "running"
          /\ o = "retrying" => run[r].attempt < MaxAttempts
          /\ o = "cancelled" => job.cancel
    <3>1. /\ FailureOutcome(run[r].attempt) \in {"failed", "retrying"}
          /\ FailureOutcome(run[r].attempt) = "retrying" => run[r].attempt < MaxAttempts
      BY <1>0 DEF FailureOutcome
    <3> QED BY <1>8, <3>1 DEF HandlerStep, NoHandler, HandlerSucceeds, HandlerThrows,
              HandlerThrowsPermanent, HandlerCancels, Outcomes
  <2>2. job.status = "running" /\ job.attempts = run[r].attempt
    BY <1>0, <2>1 DEF Handle, RowOf, Shows, StatusOf
  <2>3. run'[r] = Persist(o, run[r].attempt)
    BY <2>1 DEF Handle
  <2>4. RowOf(r)'
    BY <2>1, <2>2, <2>3 DEF Handle, RowOf, Persist, Expects
  <2> QED BY <1>0, <2>1, <2>4, CalmFromRow DEF Handle
<1>9. CASE Crash(r)
  <2>1. late' = Unsettled(r) /\ run'[r] = Idle
    BY <1>0, <1>9 DEF Crash
  <2>2. /\ job' = job /\ events' = events /\ entry'.live /\ entry'.lock = "orphan"
        /\ entry'.attempts = entry.attempts
    BY <1>0, <1>9 DEF Crash, EntryType
  <2>3. ASSUME NEW w \in late'
        PROVE  w.attempt = entry'.attempts /\ (w.kind = "state" => Expects(w.outcome, w.attempt))
    <3>1. PICK k \in run[r].pend :
             w = [kind |-> k, outcome |-> run[r].outcome, attempt |-> run[r].attempt]
      BY <2>1, <2>3 DEF Unsettled
    <3>2. run[r].pc = "persist" /\ w.attempt = entry.attempts
      BY <1>0, <1>9, <3>1 DEF RowOf, Crash
    <3> QED BY <1>0, <2>2, <3>1, <3>2 DEF RowOf
  <2>4. \A q \in Runs : RowOf(q)'
    BY <2>1, RunsAlone DEF RowOf, Idle, Calm
  <2>5. \A v, w \in late' : v.kind = w.kind => v = w
    BY <2>1 DEF Unsettled
  <2> QED BY <1>0, <2>2, <2>3, <2>4, <2>5 DEF Calm, Expects
<1> QED BY <1>1, <1>2, <1>3, <1>4, <1>5, <1>6, <1>7, <1>8, <1>9 DEF QuietRun

\* A run that is not under way asks nothing of the row.
LEMMA IdleRow == ASSUME NEW r \in Runs, run'[r].pc = "idle" PROVE RowOf(r)'
BY DEF RowOf

\* A step that moves nothing of the row but the request to cancel.
LEMMA CalmSameRow ==
    ASSUME TypeInv, Calm, UNCHANGED <<events, run, entry, start>>, late' \subseteq late,
           job'.status = job.status, job'.attempts = job.attempts, job.cancel => job'.cancel
    PROVE  Calm'
<1>1. \A r \in Runs : RowOf(r)'
  BY DEF Calm, RowOf, Expects, Shows, Records, RowRecorded
<1> QED BY <1>1 DEF Calm, Expects, RowRecorded

\* What a dead run left behind commits after it, before anybody else runs.
LEMMA CalmByLate ==
    ASSUME TypeInv, Held, Calm, job.status # "absent", CommitLate
    PROVE  Calm'
<1> USE Types
<1>1. PICK w \in late :
        /\ late' = late \ {w}
        /\ \/ w.kind = "state" /\ SetState(StatusOf(w.outcome), w.attempt) /\ UNCHANGED events
           \/ /\ w.kind = "event" /\ job.status # "absent"
              /\ events' = events \cup {[type |-> StatusOf(w.outcome), attempt |-> w.attempt]}
              /\ UNCHANGED job
  BY DEF CommitLate
<1>2. /\ entry.live /\ entry.lock = "orphan" /\ \A r \in Runs : run[r].pc = "idle"
      /\ w.attempt = entry.attempts /\ w.outcome \in Outcomes /\ w.attempt \in 0..MaxAttempts
      /\ UNCHANGED <<run, entry, start>>
  BY StudioJobsAssumption DEF Calm, Held, Writes, CommitLate
<1>3. \A r \in Runs : RowOf(r)'
  BY <1>2, IdleRow
<1>4. CASE w.kind = "event" /\ UNCHANGED job
  BY <1>1, <1>2, <1>3, <1>4 DEF Calm, Expects
<1>5. CASE w.kind = "state" /\ SetState(StatusOf(w.outcome), w.attempt)
  <2>1. job'.attempts = w.attempt
    BY <1>2, <1>5, RowSet, StatusOfType
  <2>2. \A v \in late' : v.kind # "state"
    BY <1>1, <1>5 DEF Calm
  <2> QED BY <1>1, <1>2, <1>3, <2>1, <2>2 DEF Calm, EntryType
<1> QED BY <1>1, <1>4, <1>5

LEMMA CalmByOther ==
    ASSUME TypeInv, Held, job.status # "absent" => Calm, QuietOther, job'.status # "absent"
    PROVE  Calm'
<1> USE Types DEF Held
<1>1. CASE CreateStudioJob
  <2>1. /\ late' = {} /\ start' = "created" /\ job'.attempts <= entry'.attempts
        /\ \A r \in Runs : run'[r].pc = "idle"
    BY <1>1 DEF CreateStudioJob, EntryType
  <2>2. \A r \in Runs : RowOf(r)'
    BY <2>1, IdleRow
  <2> QED BY <2>1, <2>2 DEF Calm
<1>2. CASE job.status = "absent" /\ ~ CreateStudioJob
  BY <1>2 DEF QuietOther, QueueStudioJob, StartHandlerDies, LockExpires, CommitLate, SetState,
              LoseLate, RequestJobCancellation, DeleteJobReads, DeleteJob, MarkEnqueueFailed,
              vars, JobType
<1>3. CASE job.status # "absent"
  <2>0. Calm
    BY <1>3
  <2>1. CASE QueueStudioJob
    <3>1. /\ late' = {} /\ entry'.live /\ entry'.attempts = 0 /\ job' = job
          /\ \A r \in Runs : run'[r].pc = "idle"
      BY <2>1 DEF QueueStudioJob
    <3>2. \A r \in Runs : RowOf(r)'
      BY <3>1, IdleRow
    <3> QED BY <2>1, <3>1, <3>2 DEF QueueStudioJob, Calm
  <2>2. CASE StartHandlerDies
    <3>1. /\ late' = {} /\ start' = "dead" /\ \A r \in Runs : run'[r].pc = "idle"
          /\ UNCHANGED <<job, entry>>
      BY <2>2 DEF StartHandlerDies
    <3>2. \A r \in Runs : RowOf(r)'
      BY <3>1, IdleRow
    <3> QED BY <2>0, <3>1, <3>2 DEF Calm
  <2>3. CASE LockExpires
    <3>0. late' = {} /\ \A r \in Runs : run'[r].pc = "idle"
      BY <2>3, StudioJobsAssumption DEF LockExpires
    <3>1. \A r \in Runs : RowOf(r)'
      BY <3>0, IdleRow
    <3>2. entry'.live /\ entry'.attempts = entry.attempts /\ job' = job
      BY <2>3 DEF LockExpires, EntryType
    <3> QED BY <2>0, <3>0, <3>1, <3>2 DEF Calm
  <2>4. CASE CommitLate
    BY <1>3, <2>0, <2>4, CalmByLate
  <2>5. CASE LoseLate \/ DeleteJobReads \/ UNCHANGED vars
    <3>1. late' \subseteq late /\ UNCHANGED <<job, events, run, entry, start>>
      BY <2>5 DEF LoseLate, DeleteJobReads, vars
    <3> QED BY <2>0, <3>1, CalmSameRow
  <2>6. CASE RequestJobCancellation
    <3>1. job'.status = job.status /\ job'.attempts = job.attempts /\ job'.cancel
      BY <2>6 DEF RequestJobCancellation, JobType
    <3> QED BY <2>0, <2>6, <3>1, CalmSameRow DEF RequestJobCancellation
  <2>7. CASE DeleteJob
    BY <2>7 DEF DeleteJob, JobType
  <2>8. CASE MarkEnqueueFailed /\ start = "enqueueFailed"
    BY <2>8
  <2>9. ~ CreateStudioJob
    BY <1>3 DEF CreateStudioJob
  <2> QED BY <2>1, <2>2, <2>3, <2>4, <2>5, <2>6, <2>7, <2>8, <2>9 DEF QuietOther
<1> QED BY <1>1, <1>2, <1>3

LEMMA InitCalm == Init => CalmInv
<1> SUFFICES ASSUME Init PROVE CalmInv
  OBVIOUS
<1>1. TypeInv
  BY InitType
<1>2. FaultsBounded
  BY DEF Init, FaultsBounded
<1>3. Held
  BY DEF Init, Held, Idle
<1>4. job.status = "absent"
  BY DEF Init
<1> QED BY <1>1, <1>2, <1>3, <1>4 DEF CalmInv

LEMMA NextCalm == CalmInv /\ [Next]_vars => CalmInv'
<1> SUFFICES ASSUME CalmInv, [Next]_vars PROVE CalmInv'
  OBVIOUS
<1>1. TypeInv' /\ FaultsBounded' /\ (Undisturbed' => Undisturbed)
  BY NextType, FaultsStep DEF CalmInv
<1>2. ASSUME Undisturbed' PROVE Held' /\ (job'.status # "absent" => Calm')
  <2>1. Held /\ (job.status # "absent" => Calm)
    BY <1>1, <1>2 DEF CalmInv
  <2>2. CASE QuietOther
    BY <2>1, <2>2, HeldByOther, CalmByOther DEF CalmInv
  <2>3. ASSUME NEW r \in Runs, QuietRun(r)
        PROVE  Held' /\ (job'.status # "absent" => Calm')
    <3>1. Held'
      BY <2>1, <2>3, HeldByRun DEF CalmInv
    <3>2. CASE job.status = "absent"
      <4>1. job'.status = "absent"
        BY <2>3, <3>2 DEF QuietRun, GetJob, CompleteEntry, FailEntry, LoadJob, CommitState, SetState,
           CommitEvent, Persisted, HandlerStep, NoHandler, HandlerSucceeds, HandlerThrows,
           HandlerThrowsPermanent, HandlerCancels, Handle, WriteFails, Crash
      <4> QED BY <3>1, <4>1
    <3>3. CASE job.status # "absent"
      BY <2>1, <2>3, <3>1, <3>3, CalmByRun DEF CalmInv
    <3> QED BY <3>2, <3>3
  <2> QED BY <1>2, <2>2, <2>3, QuietSteps DEF CalmInv
<1> QED BY <1>1, <1>2 DEF CalmInv

LEMMA CalmAlways == Spec => []CalmInv
BY InitCalm, NextCalm, PTL DEF Spec

\* While no database call is rejected and no lock lost, an accepted job that
\* has left the queue is shown as ended, and its history says the same, however
\* often a process died with writes still under way.
THEOREM DequeuedTerminal == Spec => []DequeuedIsTerminal
<1>1. CalmInv => DequeuedIsTerminal
  BY DEF CalmInv, Held, Calm, RowRecorded, DequeuedIsTerminal, Deleted
<1> QED BY <1>1, CalmAlways, PTL

\* Under the same needs nobody sees a job as queued or ended, or in another
\* attempt, while its handler works.
THEOREM HandlerVisible == Spec => []HandlerIsVisible
<1>1. CalmInv => HandlerIsVisible
  BY DEF CalmInv, Calm, RowOf, Shows, StatusOf, HandlerIsVisible, Deleted
<1> QED BY <1>1, CalmAlways, PTL

-----------------------------------------------------------------------------
(***************************************************************************)
(* The refinement of JobLifecycle.                                         *)
(***************************************************************************)
Seen == <<IF Deleted THEN "deleted" ELSE job.status, job.attempts, job.cancel>>

\* What a write under way expects of the row makes it the begin or the end of
\* an attempt.
LEMMA WriteIsLifecycle ==
    ASSUME TypeInv, job.status # "absent", NEW o \in Outcomes, NEW n \in 0..MaxAttempts,
           Expects(o, n), SetState(StatusOf(o), n), start' = start
    PROVE  Lifecycle!Begin \/ Lifecycle!End
<1>1. /\ job'.status = StatusOf(o) /\ job'.attempts = n /\ job'.cancel = job.cancel
      /\ StatusOf(o) \in Active \cup Terminal
  BY RowSet, StatusOfType
<1>2. ~ Deleted /\ ~ Deleted'
  BY <1>1, Types DEF Deleted
<1>3. job.status \notin {"absent", "deleted"} /\ job.attempts \in 0..MaxAttempts
  BY Types DEF JobType, Active, Terminal
<1>4. CASE o = "running"
  <2>1. n \in (job.attempts + 1)..MaxAttempts
    BY <1>3, <1>4, Types DEF Expects
  <2> QED BY <1>1, <1>2, <1>3, <1>4, <2>1 DEF StatusOf, Lifecycle!Begin, Lifecycle!Exists
<1>5. CASE o # "running"
  BY <1>1, <1>2, <1>5 DEF Outcomes, StatusOf, Expects, Lifecycle!End
<1> QED BY <1>4, <1>5

LEMMA LifecycleByRun ==
    ASSUME TypeInv, Held, job.status # "absent" => Calm, NEW r \in Runs, QuietRun(r)
    PROVE  Lifecycle!Next \/ UNCHANGED Seen
<1>1. CASE CommitState(r) /\ job.status # "absent"
  <2>1. /\ run[r].outcome \in Outcomes /\ run[r].attempt \in 0..MaxAttempts
        /\ Expects(run[r].outcome, run[r].attempt)
    BY <1>1, Types DEF CommitState, Calm, RowOf, RunType
  <2> QED BY <1>1, <2>1, WriteIsLifecycle DEF CommitState, Lifecycle!Next
<1>2. CASE UNCHANGED <<job, start>>
  BY <1>2 DEF Seen, Deleted
<1> QED BY <1>1, <1>2
    DEF QuietRun, GetJob, CompleteEntry, FailEntry, LoadJob, CommitState, SetState, CommitEvent,
        Persisted, HandlerStep, NoHandler, HandlerSucceeds, HandlerThrows, HandlerThrowsPermanent,
        HandlerCancels, Handle, WriteFails, Crash

LEMMA LifecycleByOther ==
    ASSUME TypeInv, Held, job.status # "absent" => Calm, QuietOther
    PROVE  Lifecycle!Next \/ UNCHANGED Seen
<1>1. CASE CreateStudioJob
  <2>1. ~ Deleted /\ ~ Deleted'
    BY <1>1 DEF CreateStudioJob, Deleted
  <2>2. /\ job.status = "absent" /\ job.attempts = 0 /\ job.cancel = FALSE
        /\ job'.status = "queued" /\ job'.attempts = 0 /\ job'.cancel = FALSE
    BY <1>1 DEF CreateStudioJob, Held
  <2> QED BY <2>1, <2>2 DEF Lifecycle!Next, Lifecycle!Create
<1>2. CASE CommitLate /\ job.status # "absent"
  <2>1. PICK w \in late : \/ w.kind = "state" /\ SetState(StatusOf(w.outcome), w.attempt)
                          \/ UNCHANGED job
    BY <1>2 DEF CommitLate
  <2>2. start' = start
    BY <1>2 DEF CommitLate
  <2>3. CASE w.kind = "state" /\ SetState(StatusOf(w.outcome), w.attempt)
    <3>1. /\ w.outcome \in Outcomes /\ w.attempt \in 0..MaxAttempts
          /\ Expects(w.outcome, w.attempt)
      BY <1>2, <2>3, Types DEF Calm, Writes
    <3> QED BY <1>2, <2>2, <2>3, <3>1, WriteIsLifecycle DEF Lifecycle!Next
  <2>4. CASE UNCHANGED job
    BY <2>2, <2>4 DEF Seen, Deleted
  <2> QED BY <2>1, <2>3, <2>4
<1>3. CASE RequestJobCancellation
  <2>1. /\ job'.status = job.status /\ job'.attempts = job.attempts /\ job'.cancel = TRUE
        /\ job.status \notin {"absent", "deleted"}
    BY <1>3, Types DEF RequestJobCancellation, JobType, Active, Terminal
  <2>2. ~ Deleted /\ ~ Deleted'
    BY <2>1 DEF Deleted
  <2> QED BY <2>1, <2>2 DEF Lifecycle!Next, Lifecycle!RequestCancel, Lifecycle!Exists
<1>4. CASE DeleteJob /\ job.status # "absent"
  <2>1. /\ job'.status = "absent" /\ job'.attempts = job.attempts /\ job'.cancel = job.cancel
        /\ job.status \notin {"absent", "deleted"} /\ start' = start
    BY <1>4, Types DEF DeleteJob, JobType, Active, Terminal
  <2>2. ~ Deleted /\ Deleted'
    BY <1>4, <2>1 DEF Deleted, Held
  <2> QED BY <2>1, <2>2 DEF Lifecycle!Next, Lifecycle!Delete, Lifecycle!Exists
<1>5. CASE DeleteJob /\ job.status = "absent"
  BY <1>5, Types DEF DeleteJob, JobType, Seen, Deleted
<1>6. CASE UNCHANGED job /\ (start' = start \/ (start # "idle" /\ start' # "idle"))
  BY <1>6 DEF Seen, Deleted
<1>7. \/ QueueStudioJob \/ StartHandlerDies \/ LockExpires \/ LoseLate \/ DeleteJobReads
      \/ UNCHANGED vars
      => UNCHANGED job /\ (start' = start \/ (start # "idle" /\ start' # "idle"))
  BY DEF QueueStudioJob, StartHandlerDies, LockExpires, LoseLate, DeleteJobReads, vars
<1>8. CommitLate /\ job.status = "absent" => UNCHANGED <<job, start>>
  BY DEF CommitLate, SetState
<1>9. start # "enqueueFailed"
  BY DEF Held
<1> QED BY <1>1, <1>2, <1>3, <1>4, <1>5, <1>6, <1>7, <1>8, <1>9 DEF QuietOther

\* Everything that the workers, dead or alive, and the handlers do to the row is
\* a step of the life that JobLifecycle promises its readers, up to the first
\* database call that is rejected or lock that is lost.
THEOREM LifecycleUntilDisturbed == Spec => Lifecycle!Init /\ [][Undisturbed' => Lifecycle!Next]_Seen
<1>1. Init => Lifecycle!Init
  BY DEF Init, Lifecycle!Init, Deleted
<1>2. CalmInv /\ CalmInv' /\ [Next]_vars => [Undisturbed' => Lifecycle!Next]_Seen
  <2> SUFFICES ASSUME CalmInv, CalmInv', [Next]_vars, Undisturbed'
               PROVE  Lifecycle!Next \/ UNCHANGED Seen
    OBVIOUS
  <2>1. Undisturbed
    BY FaultsStep DEF CalmInv
  <2> QED BY <2>1, QuietSteps, LifecycleByRun, LifecycleByOther DEF CalmInv
<1> QED BY <1>1, <1>2, CalmAlways, PTL DEF Spec

\* Where no such fault happens the row lives that life to its end.
THEOREM LifecycleImplemented ==
    ASSUME DbFaults = 0, Stalls = 0
    PROVE  Spec => ImplementsLifecycle
<1>1. CalmInv => Undisturbed
  <2> SUFFICES ASSUME CalmInv PROVE Undisturbed
    OBVIOUS
  <2>1. faults.db \in Nat /\ faults.stall \in Nat
    BY DEF CalmInv, TypeInv, TypeOK
  <2> QED BY <2>1 DEF CalmInv, FaultsBounded, Undisturbed
<1>2. Undisturbed' /\ [Undisturbed' => Lifecycle!Next]_Seen => [Lifecycle!Next]_Seen
  OBVIOUS
<1> QED BY <1>1, <1>2, CalmAlways, LifecycleUntilDisturbed, PTL DEF ImplementsLifecycle,
           Lifecycle!Spec, Lifecycle!vars, Seen

=============================================================================
