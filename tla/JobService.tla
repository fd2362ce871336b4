----------------------------- MODULE JobService -----------------------------
(***************************************************************************)
(* The FastAPI job-control service (service/app/api.py).                   *)
(*                                                                         *)
(* Route handlers run concurrently: two uvicorn processes, each with a     *)
(* thread pool for these synchronous functions.  They share nothing but    *)
(* Redis, where a job's metadata is one JSON value that handlers read,     *)
(* change in memory and SET again.  One action is one access to Redis, to  *)
(* the Celery application or to the audit database, and a handler keeps in *)
(* its own variables what it has read.                                     *)
(*                                                                         *)
(* Job execution is the abstract one of JobLifecycle, which JobQueue       *)
(* implements.  Metadata and results live seven days: this module is about *)
(* the time before either expires.                                         *)
(***************************************************************************)
EXTENDS JobLifecycle, Naturals, FiniteSets

CONSTANTS Users,         \* OpenWebUI user ids
          Handlers,      \* threads that can run a route handler
          Kinds,         \* "science" (planetir, isis3, workflow) and "notebook"
          Requests,      \* the routes that are called
          MaxUserJobs,   \* settings.max_user_jobs
          MaxQueuedJobs, \* settings.max_queued_jobs
          MaxReruns,     \* bound on the redeliveries of finished jobs
          NoMeta, NoUser, NoJob

ASSUME ServiceAssumption ==
    /\ IsFiniteSet(Jobs) /\ IsFiniteSet(Handlers) /\ Handlers # {}
    /\ Kinds \subseteq {"science", "notebook"}
    /\ Requests \subseteq {"submit", "status", "cancel", "publish"}
    /\ MaxUserJobs \in Nat /\ MaxQueuedJobs \in Nat /\ MaxReruns \in Nat
    /\ NoJob \notin Jobs /\ NoUser \notin Users

\* The JSON value under sacai:job:<id>, flags abstracting the optional fields.
Metadata == [user_id : Users, kind : Kinds, cancelled : BOOLEAN, published : BOOLEAN]

ASSUME NoMetaAssumption == NoMeta \notin Metadata

VARIABLES meta,          \* Redis: metadata of each job, or NoMeta
          pc,            \* where each handler is in its route function
          user,          \* user_id of the request a handler serves
          kind,          \* kind of the job a handler submits
          job,           \* job_id a handler works on
          toScan,        \* keys the quota scan must still return
          counted,       \* outstanding jobs the quota scan has found
          snap,          \* the metadata a handler has read
          told,          \* statuses the service has returned for each job
          events,        \* audit events the service has appended for each job
          reruns         \* redeliveries of finished jobs so far

handlerVars == <<pc, user, kind, job, toScan, counted, snap>>
vars == <<lifecycleVars, meta, handlerVars, told, events, reruns>>

Statuses == {"queued", "running", "succeeded", "failed", "cancelled"}
Events == {"job.submitted", "job.cancelled", "files.published"}
Stages == {"idle", "scan", "dispatch", "audit", "result",
           "cancel_write", "revoke", "cancel_audit", "publish_write", "publish_audit"}

TypeOK ==
    /\ LifecycleTypeOK
    /\ meta \in [Jobs -> Metadata \union {NoMeta}]
    /\ pc \in [Handlers -> Stages]
    /\ user \in [Handlers -> Users \union {NoUser}]
    /\ kind \in [Handlers -> Kinds \union {"none"}]
    /\ job \in [Handlers -> Jobs \union {NoJob}]
    /\ toScan \in [Handlers -> SUBSET Jobs]
    /\ counted \in [Handlers -> SUBSET Jobs]
    /\ snap \in [Handlers -> Metadata \union {NoMeta}]
    /\ told \in [Jobs -> SUBSET Statuses]
    /\ events \in [Jobs -> SUBSET Events]
    /\ reruns \in 0 .. MaxReruns

Init ==
    /\ LifecycleInit
    /\ meta = [j \in Jobs |-> NoMeta]
    /\ pc = [h \in Handlers |-> "idle"]
    /\ user = [h \in Handlers |-> NoUser]
    /\ kind = [h \in Handlers |-> "none"]
    /\ job = [h \in Handlers |-> NoJob]
    /\ toScan = [h \in Handlers |-> {}]
    /\ counted = [h \in Handlers |-> {}]
    /\ snap = [h \in Handlers |-> NoMeta]
    /\ told = [j \in Jobs |-> {}]
    /\ events = [j \in Jobs |-> {}]
    /\ reruns = 0

-----------------------------------------------------------------------------

Stored(j) == meta[j] # NoMeta
Outstanding == {j \in Jobs : Stored(j) /\ ~ Ready(j)}
OwnedBy(u, S) == {j \in S : meta[j].user_id = u}

Transition(h, from, to) ==
    /\ pc[h] = from
    /\ pc' = [pc EXCEPT ![h] = to]

\* The route function returns or raises; its local variables are gone.
Finish(h) ==
    /\ pc' = [pc EXCEPT ![h] = "idle"]
    /\ user' = [user EXCEPT ![h] = NoUser]
    /\ kind' = [kind EXCEPT ![h] = "none"]
    /\ job' = [job EXCEPT ![h] = NoJob]
    /\ toScan' = [toScan EXCEPT ![h] = {}]
    /\ counted' = [counted EXCEPT ![h] = {}]
    /\ snap' = [snap EXCEPT ![h] = NoMeta]

Tell(j, status) == told' = [told EXCEPT ![j] = @ \union {status}]
AppendEvent(j, event) == events' = [events EXCEPT ![j] = @ \union {event}]

-----------------------------------------------------------------------------
(* POST /v1/jobs and POST /v1/notebook-jobs.  The input-file checks of the  *)
(* former come first and change nothing.                                   *)

\* _check_quota: SCAN returns every key that exists throughout the scan.
SubmitStart(h, u, k) ==
    /\ "submit" \in Requests
    /\ Transition(h, "idle", "scan")
    /\ user' = [user EXCEPT ![h] = u]
    /\ kind' = [kind EXCEPT ![h] = k]
    /\ toScan' = [toScan EXCEPT ![h] = {j \in Jobs : Stored(j)}]
    /\ UNCHANGED <<lifecycleVars, meta, job, counted, snap, told, events, reruns>>

\* One key of the scan: GET its metadata and ask whether its result is ready.
\* A key set after the scan began may be returned too.
ScanKey(h, j) ==
    /\ pc[h] = "scan"
    /\ Stored(j)
    /\ j \notin counted[h]
    /\ toScan' = [toScan EXCEPT ![h] = @ \ {j}]
    /\ counted' = [counted EXCEPT ![h] = @ \union (IF Ready(j) THEN {} ELSE {j})]
    /\ UNCHANGED <<lifecycleVars, meta, pc, user, kind, job, snap, told, events, reruns>>

\* Fault variant of WithinQuota: the comparisons are off by one.
WithinQuotaOrAt(h) ==
    /\ Cardinality(counted[h]) <= MaxQueuedJobs
    /\ Cardinality(OwnedBy(user[h], counted[h])) <= MaxUserJobs

WithinQuota(h) ==
    /\ Cardinality(counted[h]) < MaxQueuedJobs
    /\ Cardinality(OwnedBy(user[h], counted[h])) < MaxUserJobs

\* HTTP 429.
QuotaReject(h) ==
    /\ pc[h] = "scan"
    /\ toScan[h] = {}
    /\ ~ WithinQuota(h)
    /\ Finish(h)
    /\ UNCHANGED <<lifecycleVars, meta, told, events, reruns>>

\* A fresh uuid4, and the metadata SET with a seven-day expiry.
StoreMetadata(h, j) ==
    /\ toScan[h] = {}
    /\ WithinQuota(h)
    /\ meta[j] = NoMeta
    /\ Transition(h, "scan", "dispatch")
    /\ job' = [job EXCEPT ![h] = j]
    /\ meta' = [meta EXCEPT ![j] = [user_id |-> user[h], kind |-> kind[h],
                                    cancelled |-> FALSE, published |-> FALSE]]
    /\ toScan' = [toScan EXCEPT ![h] = {}]
    /\ counted' = [counted EXCEPT ![h] = {}]
    /\ UNCHANGED <<lifecycleVars, user, kind, snap, told, events, reruns>>

\* Fault variant of ApplyAsync: the publication to the broker is lost.
ApplyAsyncLost(h) ==
    /\ Transition(h, "dispatch", "audit")
    /\ UNCHANGED <<lifecycleVars, meta, user, kind, job, toScan, counted, snap, told, events,
                   reruns>>

\* task.apply_async with the job id as task id.
ApplyAsync(h) ==
    /\ Transition(h, "dispatch", "audit")
    /\ Dispatch(job[h])
    /\ UNCHANGED <<meta, user, kind, job, toScan, counted, snap, told, events, reruns>>

\* append_event "job.submitted", then JobAccepted with status "queued".
Accept(h) ==
    /\ pc[h] = "audit"
    /\ AppendEvent(job[h], "job.submitted")
    /\ Tell(job[h], "queued")
    /\ Finish(h)
    /\ UNCHANGED <<lifecycleVars, meta, reruns>>

Submission(h) ==
    \/ \E u \in Users, k \in Kinds : SubmitStart(h, u, k)
    \/ \E j \in Jobs : ScanKey(h, j)
    \/ QuotaReject(h)
    \/ \E j \in Jobs : StoreMetadata(h, j)
    \/ ApplyAsync(h)
    \/ Accept(h)

-----------------------------------------------------------------------------
(* A client can name a job once its id has been returned.  _metadata loads  *)
(* the record, and every route answers 404 unless the caller owns it.      *)

\* Fault variant of ReadOwned: a route without the ownership comparison.
ReadAny(u, j) ==
    /\ told[j] # {}
    /\ meta[j] # NoMeta

ReadOwned(u, j) ==
    /\ told[j] # {}
    /\ meta[j] # NoMeta
    /\ meta[j].user_id = u

Load(h, u, j, to) ==
    /\ Transition(h, "idle", to)
    /\ user' = [user EXCEPT ![h] = u]
    /\ job' = [job EXCEPT ![h] = j]
    /\ snap' = [snap EXCEPT ![h] = meta[j]]
    /\ UNCHANGED <<kind, toScan, counted>>

(* GET /v1/jobs/<id>.                                                      *)

\* The persisted cancellation of a notebook wins over its Celery state.
StatusCancelled(h, u, j) ==
    /\ "status" \in Requests
    /\ pc[h] = "idle"
    /\ ReadOwned(u, j)
    /\ meta[j].cancelled
    /\ Tell(j, "cancelled")
    /\ UNCHANGED <<lifecycleVars, meta, handlerVars, events, reruns>>

StatusRead(h, u, j) ==
    /\ "status" \in Requests
    /\ ReadOwned(u, j)
    /\ ~ meta[j].cancelled
    /\ Load(h, u, j, "result")
    /\ UNCHANGED <<lifecycleVars, meta, told, events, reruns>>

StateMap == [PENDING |-> "queued", STARTED |-> "running", SUCCESS |-> "succeeded",
             FAILURE |-> "failed", REVOKED |-> "cancelled"]

StatusReply(h) ==
    /\ pc[h] = "result"
    /\ Tell(job[h], StateMap[result[job[h]]])
    /\ Finish(h)
    /\ UNCHANGED <<lifecycleVars, meta, events, reruns>>

Status(h) ==
    \/ \E u \in Users, j \in Jobs : StatusCancelled(h, u, j) \/ StatusRead(h, u, j)
    \/ StatusReply(h)

-----------------------------------------------------------------------------
(* DELETE /v1/jobs/<id>.                                                   *)

CancelRead(h, u, j) ==
    /\ "cancel" \in Requests
    /\ ReadOwned(u, j)
    /\ Load(h, u, j, IF meta[j].kind = "notebook" THEN "cancel_write" ELSE "revoke")
    /\ UNCHANGED <<lifecycleVars, meta, told, events, reruns>>

\* Fault variant of CancelWrite: the stripped response record is written back.
CancelWriteStripped(h) ==
    /\ Transition(h, "cancel_write", "revoke")
    /\ meta' = [meta EXCEPT ![job[h]] = [snap[h] EXCEPT !.cancelled = TRUE,
                                                        !.published = FALSE]]
    /\ UNCHANGED <<lifecycleVars, user, kind, job, toScan, counted, snap, told, events, reruns>>

\* The whole value read before is written back with the flag set.
CancelWrite(h) ==
    /\ Transition(h, "cancel_write", "revoke")
    /\ meta' = [meta EXCEPT ![job[h]] = [snap[h] EXCEPT !.cancelled = TRUE]]
    /\ UNCHANGED <<lifecycleVars, user, kind, job, toScan, counted, snap, told, events, reruns>>

CancelRevoke(h) ==
    /\ Transition(h, "revoke", "cancel_audit")
    /\ Revoke(job[h])
    /\ UNCHANGED <<meta, user, kind, job, toScan, counted, snap, told, events, reruns>>

CancelReply(h) ==
    /\ pc[h] = "cancel_audit"
    /\ AppendEvent(job[h], "job.cancelled")
    /\ Tell(job[h], "cancelled")
    /\ Finish(h)
    /\ UNCHANGED <<lifecycleVars, meta, reruns>>

Cancel(h) ==
    \/ \E u \in Users, j \in Jobs : CancelRead(h, u, j)
    \/ CancelWrite(h)
    \/ CancelRevoke(h)
    \/ CancelReply(h)

-----------------------------------------------------------------------------
(* POST /v1/jobs/<id>/publication, which a Tool calls some time after it    *)
(* was told that the job succeeded and has uploaded the artifacts.         *)

PublishRead(h, u, j) ==
    /\ "publish" \in Requests
    /\ "succeeded" \in told[j]
    /\ ReadOwned(u, j)
    /\ Load(h, u, j, "publish_write")
    /\ UNCHANGED <<lifecycleVars, meta, told, events, reruns>>

\* The whole value read before is written back with the descriptors.
PublishWrite(h) ==
    /\ Transition(h, "publish_write", "publish_audit")
    /\ meta' = [meta EXCEPT ![job[h]] = [snap[h] EXCEPT !.published = TRUE]]
    /\ UNCHANGED <<lifecycleVars, user, kind, job, toScan, counted, snap, told, events, reruns>>

\* The answer is "succeeded", whatever the job's state.
PublishReply(h) ==
    /\ pc[h] = "publish_audit"
    /\ AppendEvent(job[h], "files.published")
    /\ Tell(job[h], "succeeded")
    /\ Finish(h)
    /\ UNCHANGED <<lifecycleVars, meta, reruns>>

Publication(h) ==
    \/ \E u \in Users, j \in Jobs : PublishRead(h, u, j)
    \/ PublishWrite(h)
    \/ PublishReply(h)

-----------------------------------------------------------------------------

\* An exception of Redis, the broker or the audit database (HTTP 500), or the
\* death of the API process, between any two steps.
HandlerFails(h) ==
    /\ pc[h] # "idle"
    /\ Finish(h)
    /\ UNCHANGED <<lifecycleVars, meta, told, events, reruns>>

WorkerExecutes(j) ==
    /\ Execute(j)
    /\ UNCHANGED <<meta, handlerVars, told, events, reruns>>

WorkerReruns(j) ==
    /\ reruns < MaxReruns
    /\ Redelivered(j)
    /\ reruns' = reruns + 1
    /\ UNCHANGED <<meta, handlerVars, told, events>>

Next ==
    \/ \E h \in Handlers : Submission(h)
    \/ \E h \in Handlers : Status(h)
    \/ \E h \in Handlers : Cancel(h)
    \/ \E h \in Handlers : Publication(h)
    \/ \E h \in Handlers : HandlerFails(h)
    \/ \E j \in Jobs : WorkerExecutes(j)
    \/ \E j \in Jobs : WorkerReruns(j)

Spec == Init /\ [][Next]_vars

\* Only the workers are fair; requests come, fail and stall as they like.
FairSpec == Spec /\ \A j \in Jobs : WF_vars(WorkerExecutes(j))

-----------------------------------------------------------------------------
(* Properties.                                                             *)

Excess == (Cardinality(Handlers) - 1) + reruns

\* Check-then-act without a lock exceeds the per-user and the global limit by at
\* most one job for each other handler, and by the finished jobs that run again.
QuotaBound ==
    /\ \A u \in Users : Cardinality(OwnedBy(u, Outstanding)) <= MaxUserJobs + Excess
    /\ Cardinality(Outstanding) <= MaxQueuedJobs + Excess

\* A handler that is past its ownership check serves the owner of the job it
\* works on, however the metadata was rewritten meanwhile.
OwnerIsolation ==
    \A h \in Handlers :
        job[h] # NoJob => Stored(job[h]) /\ meta[job[h]].user_id = user[h]

\* A user told "succeeded" has a stored result to fetch: no later cancellation,
\* redelivery or publication answer makes that statement untrue.
ToldSuccessIsReal == \A j \in Jobs : "succeeded" \in told[j] => result[j] = "SUCCESS"

Cancelled(j) == Stored(j) /\ meta[j].cancelled
Published(j) == Stored(j) /\ meta[j].published

\* A flag of the metadata gets lost only to a handler of the other route that
\* had read the record before the flag was set.
FlagsLostOnlyToStaleWrites ==
    [][\A j \in Jobs :
          /\ Published(j) /\ ~ Published(j)' =>
                 \E h \in Handlers : /\ pc[h] = "cancel_write" /\ job[h] = j
                                     /\ ~ snap[h].published
          /\ Cancelled(j) /\ ~ Cancelled(j)' =>
                 \E h \in Handlers : /\ pc[h] = "publish_write" /\ job[h] = j
                                     /\ ~ snap[h].cancelled]_vars

\* A submission that was answered with a job id gets an outcome.
AcceptedJobsEnd == \A j \in Jobs : told[j] # {} ~> Ready(j)
=============================================================================
