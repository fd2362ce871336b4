------------------------------ MODULE JobQueue ------------------------------
(***************************************************************************)
(* The Celery workers, configured by celery_app.py, running the task       *)
(* functions of tasks.py, and the Redis broker between them and the API.   *)
(*                                                                         *)
(* Broker and worker pool are external (Celery 5.5.2): they are modelled   *)
(* by what celery_app.py configures -- late acknowledgement, one message   *)
(* per process, requeue when a pool process is lost, started tracking,     *)
(* hard time limits -- and the body of a task by the order of audit writes *)
(* and outcome in _run_job and notebook_task.                              *)
(***************************************************************************)
EXTENDS Naturals, FiniteSets

CONSTANTS Jobs,          \* job identifiers
          NotebookJobs,  \* jobs cancelled cooperatively (revoke without SIGTERM)
          LongJobs,      \* jobs with a hard limit above the broker's visibility timeout
          Workers,       \* worker processes, one pool process each
          NoJob,         \* held by a worker that has no message
          FaultKinds,    \* which of the faults below may happen
          MaxFaults      \* bound on the faults of one behaviour

ASSUME QueueAssumption ==
    /\ NotebookJobs \subseteq Jobs /\ LongJobs \subseteq Jobs
    /\ NoJob \notin Jobs
    /\ IsFiniteSet(Workers)
    /\ FaultKinds \subseteq {"child_lost", "restart", "audit_down", "overdue"}
    /\ MaxFaults \in Nat

VARIABLES dispatched,    \* history: jobs apply_async has published
          revoked,       \* history: jobs a revoke has been broadcast for
          result,        \* result backend: Celery state of each job
          queue,         \* messages in the broker, not held by a worker
          held,          \* the unacknowledged message of each worker
          stage,         \* how far each worker is with its message
          overdue,       \* workers whose message the broker has given out again
          inbox,         \* revoke broadcasts a worker has not read yet
          known,         \* revoked ids in a worker's memory
          audit,         \* audit event types appended for each job
          faults         \* faults so far

brokerVars == <<dispatched, revoked, queue>>
memoryVars == <<inbox, known>>
vars == <<dispatched, revoked, result, queue, held, stage, overdue, inbox, known, audit, faults>>

Stages == {"idle", "received", "launched", "running", "returning", "raising", "stored"}
\* The pool process runs the task from its launch to the stored outcome.
Executing == {"launched", "running", "returning", "raising", "stored"}
ReadyStates == {"SUCCESS", "FAILURE", "REVOKED"}
States == {"PENDING", "STARTED"} \union ReadyStates
Events == {"job.started", "tool.raw_result", "job.failed"}

Ready(j) == result[j] \in ReadyStates

TypeOK ==
    /\ dispatched \in SUBSET Jobs
    /\ revoked \in SUBSET Jobs
    /\ result \in [Jobs -> States]
    /\ queue \in SUBSET Jobs
    /\ held \in [Workers -> Jobs \union {NoJob}]
    /\ stage \in [Workers -> Stages]
    /\ overdue \in SUBSET Workers
    /\ inbox \in [Workers -> SUBSET Jobs]
    /\ known \in [Workers -> SUBSET Jobs]
    /\ audit \in [Jobs -> SUBSET Events]
    /\ faults \in 0 .. MaxFaults

Init ==
    /\ dispatched = {}
    /\ revoked = {}
    /\ result = [j \in Jobs |-> "PENDING"]
    /\ queue = {}
    /\ held = [w \in Workers |-> NoJob]
    /\ stage = [w \in Workers |-> "idle"]
    /\ overdue = {}
    /\ inbox = [w \in Workers |-> {}]
    /\ known = [w \in Workers |-> {}]
    /\ audit = [j \in Jobs |-> {}]
    /\ faults = 0

-----------------------------------------------------------------------------
(* What the API does to the queue.                                         *)

\* task.apply_async(..., task_id=job_id): the identifier is fresh.
Submit(j) ==
    /\ j \notin dispatched
    /\ dispatched' = dispatched \union {j}
    /\ queue' = queue \union {j}
    /\ UNCHANGED <<revoked, result, held, stage, overdue, memoryVars, audit, faults>>

\* control.revoke broadcasts to every worker and keeps nothing in the broker.
SendRevoke(j) ==
    /\ j \in dispatched
    /\ revoked' = revoked \union {j}
    /\ inbox' = [w \in Workers |-> inbox[w] \union {j}]
    /\ UNCHANGED <<dispatched, result, queue, held, stage, overdue, known, audit, faults>>

-----------------------------------------------------------------------------
(* The worker process around a task.                                       *)

Transition(w, from, to) ==
    /\ stage[w] = from
    /\ stage' = [stage EXCEPT ![w] = to]

\* Fault variant of Store: a backend that lets any later state overwrite a success.
StoreOverwriting(j, state) == result' = [result EXCEPT ![j] = state]

\* The backend never overwrites a stored success.
Store(j, state) == result' = [result EXCEPT ![j] = IF @ = "SUCCESS" THEN @ ELSE state]

\* task_acks_late: the message leaves the broker's unacknowledged set only now.
Acknowledge(w) ==
    /\ stage' = [stage EXCEPT ![w] = "idle"]
    /\ held' = [held EXCEPT ![w] = NoJob]
    /\ overdue' = overdue \ {w}

Receive(w, j) ==
    /\ j \in queue
    /\ Transition(w, "idle", "received")
    /\ held' = [held EXCEPT ![w] = j]
    /\ queue' = queue \ {j}
    /\ UNCHANGED <<dispatched, revoked, result, overdue, memoryVars, audit, faults>>

\* Fault variant of DiscardRevoked: the revoked message goes back to the broker.
DiscardRevokedToQueue(w) ==
    /\ stage[w] = "received"
    /\ held[w] \in known[w]
    /\ queue' = queue \union {held[w]}
    /\ Acknowledge(w)
    /\ UNCHANGED <<dispatched, revoked, result, memoryVars, audit, faults>>

DiscardRevoked(w) ==
    /\ stage[w] = "received"
    /\ held[w] \in known[w]
    /\ Store(held[w], "REVOKED")
    /\ Acknowledge(w)
    /\ UNCHANGED <<brokerVars, memoryVars, audit, faults>>

\* task_track_started stores STARTED before the task function is entered.
Launch(w) ==
    /\ held[w] \notin known[w]
    /\ Transition(w, "received", "launched")
    /\ Store(held[w], "STARTED")
    /\ UNCHANGED <<brokerVars, held, overdue, memoryVars, audit, faults>>

StoreOutcome(w) ==
    /\ \/ stage[w] = "returning" /\ Store(held[w], "SUCCESS")
       \/ stage[w] = "raising" /\ Store(held[w], "FAILURE")
    /\ stage' = [stage EXCEPT ![w] = "stored"]
    /\ UNCHANGED <<brokerVars, held, overdue, memoryVars, audit, faults>>

AckOutcome(w) ==
    /\ stage[w] = "stored"
    /\ Acknowledge(w)
    /\ UNCHANGED <<brokerVars, result, memoryVars, audit, faults>>

\* The pool kills the process at the hard limit; the parent stores and acks.
HardTimeLimit(w) ==
    /\ stage[w] \in Executing \ {"stored"}
    /\ Store(held[w], "FAILURE")
    /\ Acknowledge(w)
    /\ UNCHANGED <<brokerVars, memoryVars, audit, faults>>

Terminates(w, j) == held[w] = j /\ stage[w] \in Executing /\ j \notin NotebookJobs

\* Fault variant of ReadRevoke: only a worker that has the job remembers.
ReadRevokeHeld(w, j) ==
    /\ j \in inbox[w]
    /\ inbox' = [inbox EXCEPT ![w] = @ \ {j}]
    /\ known' = [known EXCEPT ![w] = IF held[w] = j THEN @ \union {j} ELSE @]
    /\ IF Terminates(w, j) THEN Store(j, "REVOKED") /\ Acknowledge(w)
                           ELSE UNCHANGED <<result, held, stage, overdue>>
    /\ UNCHANGED <<brokerVars, audit, faults>>

\* A revoke is remembered; terminate=True also kills the job it runs.
ReadRevoke(w, j) ==
    /\ j \in inbox[w]
    /\ inbox' = [inbox EXCEPT ![w] = @ \ {j}]
    /\ known' = [known EXCEPT ![w] = @ \union {j}]
    /\ IF Terminates(w, j) THEN Store(j, "REVOKED") /\ Acknowledge(w)
                           ELSE UNCHANGED <<result, held, stage, overdue>>
    /\ UNCHANGED <<brokerVars, audit, faults>>

-----------------------------------------------------------------------------
(* The task function (_run_job, workflow_task, notebook_task).             *)

Record(j, event) == audit' = [audit EXCEPT ![j] = @ \union {event}]

BeginTask(w) ==
    /\ Transition(w, "launched", "running")
    /\ Record(held[w], "job.started")
    /\ UNCHANGED <<brokerVars, result, held, overdue, memoryVars, faults>>

\* Fault variant of ProcessorReturns: the result is returned without its audit event.
ProcessorReturnsUnaudited(w) ==
    /\ Transition(w, "running", "returning")
    /\ UNCHANGED <<brokerVars, result, held, overdue, memoryVars, audit, faults>>

\* The processor's result is audited, then returned to Celery.
ProcessorReturns(w) ==
    /\ Transition(w, "running", "returning")
    /\ Record(held[w], "tool.raw_result")
    /\ UNCHANGED <<brokerVars, result, held, overdue, memoryVars, faults>>

\* An exception of the processor, or the soft limit anywhere in the try block.
TaskRaises(w) ==
    /\ \E from \in {"running", "returning"} : Transition(w, from, "raising")
    /\ Record(held[w], "job.failed")
    /\ UNCHANGED <<brokerVars, result, held, overdue, memoryVars, faults>>

-----------------------------------------------------------------------------
(* Faults.                                                                 *)

Fault(kind) == kind \in FaultKinds /\ faults < MaxFaults /\ faults' = faults + 1

\* The audit database fails: neither the event due next nor job.failed, which
\* the except clause tries to append, is written, and the task raises.
AuditDown(w) ==
    /\ Fault("audit_down")
    /\ \E from \in {"launched", "running", "returning"} : Transition(w, from, "raising")
    /\ UNCHANGED <<brokerVars, result, held, overdue, memoryVars, audit>>

\* Fault variants of Requeue.  Early acknowledgement: the message is gone.
RequeueNothing(w) ==
    /\ Acknowledge(w)
    /\ UNCHANGED <<dispatched, revoked, queue, result, audit>>

\* The broker redelivers a message whose worker is still running.
RequeueWhileRunning(w) ==
    /\ queue' = queue \union ({held[w]} \ {NoJob})
    /\ UNCHANGED <<dispatched, revoked, held, stage, overdue, result, audit>>

\* An overdue message has left the broker's unacknowledged set already.
Requeue(w) ==
    /\ queue' = queue \union (IF w \in overdue THEN {} ELSE {held[w]} \ {NoJob})
    /\ Acknowledge(w)
    /\ UNCHANGED <<dispatched, revoked, result, audit>>

\* task_reject_on_worker_lost: out-of-memory kill or signal to the pool process.
ChildLost(w) ==
    /\ Fault("child_lost")
    /\ stage[w] \in Executing
    /\ Requeue(w)
    /\ UNCHANGED memoryVars

\* The container restarts: its messages are restored, its revokes forgotten.
WorkerRestart(w) ==
    /\ Fault("restart")
    /\ Requeue(w)
    /\ inbox' = [inbox EXCEPT ![w] = {}]
    /\ known' = [known EXCEPT ![w] = {}]

\* A message unacknowledged for the Redis transport's visibility timeout (one
\* hour: celery_app.py sets none) is given out again, its job still running.
VisibilityTimeout(w) ==
    /\ Fault("overdue")
    /\ held[w] \in LongJobs
    /\ stage[w] \in Executing
    /\ w \notin overdue
    /\ overdue' = overdue \union {w}
    /\ queue' = queue \union {held[w]}
    /\ UNCHANGED <<dispatched, revoked, result, held, stage, memoryVars, audit>>

-----------------------------------------------------------------------------

\* The progress of a worker with its message.
MessageStep(w) ==
    \/ \E j \in Jobs : Receive(w, j)
    \/ DiscardRevoked(w)
    \/ Launch(w)
    \/ BeginTask(w)
    \/ ProcessorReturns(w)
    \/ TaskRaises(w)
    \/ HardTimeLimit(w)
    \/ StoreOutcome(w)
    \/ AckOutcome(w)

Next ==
    \/ \E j \in Jobs : Submit(j)
    \/ \E j \in Jobs : SendRevoke(j)
    \/ \E w \in Workers : MessageStep(w)
    \/ \E w \in Workers : \E j \in Jobs : ReadRevoke(w, j)
    \/ \E w \in Workers : AuditDown(w)
    \/ \E w \in Workers : ChildLost(w)
    \/ \E w \in Workers : WorkerRestart(w)
    \/ \E w \in Workers : VisibilityTimeout(w)

Spec == Init /\ [][Next]_vars

\* Workers keep working; users, revokes and faults owe nobody a step.
FairSpec == Spec /\ \A w \in Workers : WF_vars(MessageStep(w))

-----------------------------------------------------------------------------
(* Properties.                                                             *)

\* A dispatched job without an outcome is in the broker or held by a worker,
\* whatever crashes: late acknowledgement loses no job (celery_app.py:35-37).
NoJobLost ==
    \A j \in dispatched :
        Ready(j) \/ j \in queue \/ \E w \in Workers : held[w] = j

\* No two workers, and no worker and the broker, have a job at the same time,
\* so no two runs of it write to one output directory together -- save next to
\* a run that is overdue.
OneCopy ==
    /\ \A w \in Workers \ overdue : held[w] \notin queue
    /\ \A v, w \in Workers \ overdue : held[v] = held[w] /\ held[v] # NoJob => v = w

\* A stored success has its raw result and its start in the audit trail, also
\* when an earlier run of the job was killed (tasks.py:20-21, "returned to
\* Celery after raw JSON is durably audited").
SuccessIsAudited ==
    \A j \in Jobs : result[j] = "SUCCESS" => {"job.started", "tool.raw_result"} \subseteq audit[j]

\* api.py:196, "Revoke a queued/running job": a revoke is broadcast once and kept
\* in memory only, so of the workers that would still run a revoked job there
\* are no more than restarts have made forget it (no worker has --statedb).
ForgettingBounded ==
    Cardinality({w \in Workers : \E j \in revoked : j \notin inbox[w] \union known[w]}) <= faults

\* The queue keeps the abstract promise that JobService relies on.
Lifecycle == INSTANCE JobLifecycle
                WITH Jobs <- Jobs, dispatched <- dispatched, revoked <- revoked, result <- result
ImplementsLifecycle == Lifecycle!LifecycleSpec

\* ... and so does its fairness: each job without outcome is worked on.
ImplementsFairness == Lifecycle!LifecycleFairness

\* Every dispatched job ends, for good, once the faults are over.
JobsSettle == \A j \in Jobs : j \in dispatched ~> []Ready(j)
=============================================================================
