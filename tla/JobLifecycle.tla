---------------------------- MODULE JobLifecycle ----------------------------
(***************************************************************************)
(* What the job queue promises the API, as an abstract specification.      *)
(*                                                                         *)
(* A job is dispatched once, may be revoked, and its row in the Celery     *)
(* result backend moves between the states that api.py maps to the status  *)
(* a user sees.  Success is final.  A failed or revoked job may run again: *)
(* with late acknowledgement the broker delivers a job once more when its  *)
(* worker dies between storing the outcome and acknowledging it, or when   *)
(* it runs for longer than the broker waits.                               *)
(*                                                                         *)
(* JobQueue implements this specification; JobService builds on it.        *)
(***************************************************************************)

CONSTANT Jobs            \* the job identifiers (uuid4 values, api.py:106)

VARIABLES dispatched,    \* jobs that apply_async has handed to the broker
          revoked,       \* jobs for which a revoke has been broadcast
          result         \* Celery state of every job in the result backend

lifecycleVars == <<dispatched, revoked, result>>

\* Celery's states with READY_STATES last; an unknown job reads as PENDING.
ReadyStates == {"SUCCESS", "FAILURE", "REVOKED"}
States == {"PENDING", "STARTED"} \union ReadyStates

Ready(j) == result[j] \in ReadyStates

LifecycleTypeOK ==
    /\ dispatched \in SUBSET Jobs
    /\ revoked \in SUBSET Jobs
    /\ result \in [Jobs -> States]

LifecycleInit ==
    /\ dispatched = {}
    /\ revoked = {}
    /\ result = [j \in Jobs |-> "PENDING"]

Dispatch(j) ==
    /\ j \notin dispatched
    /\ dispatched' = dispatched \union {j}
    /\ UNCHANGED <<revoked, result>>

Revoke(j) ==
    /\ revoked' = revoked \union {j}
    /\ UNCHANGED <<dispatched, result>>

\* The backend never overwrites a stored success.
Store(j, state) ==
    /\ result' = [result EXCEPT ![j] = IF @ = "SUCCESS" THEN @ ELSE state]
    /\ UNCHANGED <<dispatched, revoked>>

Start(j) ==
    /\ j \in dispatched
    /\ result[j] = "PENDING"
    /\ Store(j, "STARTED")

Succeed(j) ==
    /\ result[j] = "STARTED"
    /\ Store(j, "SUCCESS")

Fail(j) ==
    /\ result[j] = "STARTED"
    /\ Store(j, "FAILURE")

\* Revoked before it ran, or terminated while it ran.
Withdraw(j) ==
    /\ j \in dispatched \intersect revoked
    /\ ~ Ready(j)
    /\ Store(j, "REVOKED")

\* Fault variant of Rerun: a redelivery starts a successful job over as well.
RerunFinished(j) ==
    /\ Ready(j)
    /\ result' = [result EXCEPT ![j] = "STARTED"]
    /\ UNCHANGED <<dispatched, revoked>>

\* A redelivered job starts over, unless it had already succeeded.
Rerun(j) ==
    /\ result[j] \in {"FAILURE", "REVOKED"}
    /\ Store(j, "STARTED")

\* A second run of a job that failed or was withdrawn meanwhile has an outcome.
LateOutcome(j) ==
    /\ result[j] \in {"FAILURE", "REVOKED"}
    /\ Store(j, "SUCCESS") \/ Store(j, "FAILURE")

\* ... or is withdrawn itself.
WithdrawAgain(j) ==
    /\ j \in dispatched \intersect revoked
    /\ result[j] = "FAILURE"
    /\ Store(j, "REVOKED")

Execute(j) == Start(j) \/ Succeed(j) \/ Fail(j) \/ Withdraw(j)
Redelivered(j) == Rerun(j) \/ LateOutcome(j) \/ WithdrawAgain(j)

LifecycleNext == \E j \in Jobs : Dispatch(j) \/ Revoke(j) \/ Execute(j) \/ Redelivered(j)

LifecycleSpec == LifecycleInit /\ [][LifecycleNext]_lifecycleVars

\* The workers keep executing every job that has no outcome.
LifecycleFairness == \A j \in Jobs : WF_lifecycleVars(Execute(j))
=============================================================================
