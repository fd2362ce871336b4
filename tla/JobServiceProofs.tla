-------------------------- MODULE JobServiceProofs --------------------------
(***************************************************************************)
(* Theorems about JobService for any sets of jobs, users and handlers and  *)
(* any limits.                                                             *)
(***************************************************************************)
EXTENDS JobService, FiniteSetTheorems, TLAPS

-----------------------------------------------------------------------------
(* What a handler holds at each stage: the inductive strengthening of type  *)
(* correctness and of OwnerIsolation.                                      *)

Writing == {"cancel_write", "publish_write"}

HandlerOK ==
    \A h \in Handlers :
        /\ pc[h] = "scan" => user[h] \in Users /\ kind[h] \in Kinds
        /\ IF pc[h] \in {"idle", "scan"} THEN job[h] = NoJob ELSE job[h] \in Jobs
        /\ pc[h] \in Writing => snap[h] \in Metadata /\ snap[h].user_id = user[h]

OwnerInv == TypeOK /\ HandlerOK /\ OwnerIsolation

\* Setting a flag in a loaded record yields a record of the same owner.
LEMMA FlagUpdate ==
    ASSUME NEW m \in Metadata
    PROVE  /\ [m EXCEPT !.cancelled = TRUE] \in Metadata
           /\ [m EXCEPT !.published = TRUE] \in Metadata
           /\ [m EXCEPT !.cancelled = TRUE].user_id = m.user_id
           /\ [m EXCEPT !.published = TRUE].user_id = m.user_id
  BY DEF Metadata

\* What the two read-modify-write handlers put into Redis.
LEMMA FlagWrite ==
    ASSUME OwnerInv, NEW h \in Handlers, CancelWrite(h) \/ PublishWrite(h)
    PROVE  \E m \in Metadata : /\ m.user_id = user[h]
                               /\ meta' = [meta EXCEPT ![job[h]] = m]
<1>1. pc[h] \in Writing
  BY DEF CancelWrite, PublishWrite, Transition, Writing
<1>2. snap[h] \in Metadata /\ snap[h].user_id = user[h]
  BY <1>1 DEF OwnerInv, HandlerOK
<1>3. QED
  BY <1>2, FlagUpdate DEF CancelWrite, PublishWrite

\* Every step keeps every variable in its type.
LEMMA TypeStep == ASSUME OwnerInv, [Next]_vars PROVE TypeOK'
<1> USE ServiceAssumption
    DEF OwnerInv, HandlerOK, Writing, TypeOK, LifecycleTypeOK, States, ReadyStates, Stages,
        Statuses, Events, lifecycleVars, handlerVars, Transition, Tell, AppendEvent,
        ReadOwned, Store
<1>1. ASSUME NEW h \in Handlers, NEW u \in Users, NEW k \in Kinds, SubmitStart(h, u, k) PROVE TypeOK'
  BY <1>1 DEF SubmitStart
<1>2. ASSUME NEW h \in Handlers, NEW j \in Jobs, ScanKey(h, j) PROVE TypeOK'
  BY <1>2 DEF ScanKey
<1>3. ASSUME NEW h \in Handlers, QuotaReject(h) PROVE TypeOK'
  BY <1>3 DEF QuotaReject, Finish
<1>4. ASSUME NEW h \in Handlers, NEW j \in Jobs, StoreMetadata(h, j) PROVE TypeOK'
  <2>1. user[h] \in Users /\ kind[h] \in Kinds
    BY <1>4 DEF StoreMetadata
  <2>2. PICK m \in Metadata : m.user_id = user[h] /\ meta' = [meta EXCEPT ![j] = m]
    BY <1>4, <2>1 DEF StoreMetadata, Metadata
  <2>3. /\ pc[h] = "scan" /\ pc' = [pc EXCEPT ![h] = "dispatch"]
        /\ job' = [job EXCEPT ![h] = j]
        /\ toScan' = [toScan EXCEPT ![h] = {}] /\ counted' = [counted EXCEPT ![h] = {}]
        /\ UNCHANGED <<dispatched, revoked, result, user, kind, snap, told, events, reruns>>
        /\ meta[j] = NoMeta
    BY <1>4 DEF StoreMetadata
  <2>4. QED
    BY <2>1, <2>2, <2>3
<1>5. ASSUME NEW h \in Handlers, ApplyAsync(h) PROVE TypeOK'
  BY <1>5 DEF ApplyAsync, Dispatch
<1>6. ASSUME NEW h \in Handlers, Accept(h) PROVE TypeOK'
  BY <1>6 DEF Accept, Finish
<1>7. ASSUME NEW h \in Handlers, NEW u \in Users, NEW j \in Jobs, StatusCancelled(h, u, j)
       PROVE  TypeOK'
  BY <1>7 DEF StatusCancelled
<1>8. ASSUME NEW h \in Handlers, NEW u \in Users, NEW j \in Jobs, StatusRead(h, u, j) PROVE TypeOK'
  BY <1>8 DEF StatusRead, Load
<1>9. ASSUME NEW h \in Handlers, StatusReply(h) PROVE TypeOK'
  BY <1>9 DEF StatusReply, Finish, StateMap
<1>10. ASSUME NEW h \in Handlers, NEW u \in Users, NEW j \in Jobs, CancelRead(h, u, j) PROVE TypeOK'
  BY <1>10 DEF CancelRead, Load
<1>11. ASSUME NEW h \in Handlers, CancelWrite(h) PROVE TypeOK'
  <2>1. PICK m \in Metadata : m.user_id = user[h] /\ meta' = [meta EXCEPT ![job[h]] = m]
    BY <1>11, FlagWrite
  <2>2. /\ pc[h] = "cancel_write" /\ pc' = [pc EXCEPT ![h] = "revoke"]
        /\ UNCHANGED <<dispatched, revoked, result, user, kind, job, toScan, counted, snap,
                       told, events, reruns>>
    BY <1>11 DEF CancelWrite
  <2>3. QED
    BY <2>1, <2>2
<1>12. ASSUME NEW h \in Handlers, CancelRevoke(h) PROVE TypeOK'
  BY <1>12 DEF CancelRevoke, Revoke
<1>13. ASSUME NEW h \in Handlers, CancelReply(h) PROVE TypeOK'
  BY <1>13 DEF CancelReply, Finish
<1>14. ASSUME NEW h \in Handlers, NEW u \in Users, NEW j \in Jobs, PublishRead(h, u, j) PROVE TypeOK'
  BY <1>14 DEF PublishRead, Load
<1>15. ASSUME NEW h \in Handlers, PublishWrite(h) PROVE TypeOK'
  <2>1. PICK m \in Metadata : m.user_id = user[h] /\ meta' = [meta EXCEPT ![job[h]] = m]
    BY <1>15, FlagWrite
  <2>2. /\ pc[h] = "publish_write" /\ pc' = [pc EXCEPT ![h] = "publish_audit"]
        /\ UNCHANGED <<dispatched, revoked, result, user, kind, job, toScan, counted, snap,
                       told, events, reruns>>
    BY <1>15 DEF PublishWrite
  <2>3. QED
    BY <2>1, <2>2
<1>16. ASSUME NEW h \in Handlers, PublishReply(h) PROVE TypeOK'
  BY <1>16 DEF PublishReply, Finish
<1>17. ASSUME NEW h \in Handlers, HandlerFails(h) PROVE TypeOK'
  BY <1>17 DEF HandlerFails, Finish
<1>18. ASSUME NEW j \in Jobs, WorkerExecutes(j) PROVE TypeOK'
  BY <1>18 DEF WorkerExecutes, Execute, Start, Succeed, Fail, Withdraw
<1>19. ASSUME NEW j \in Jobs, WorkerReruns(j) PROVE TypeOK'
  BY <1>19 DEF WorkerReruns, Redelivered, Rerun, LateOutcome, WithdrawAgain
<1>20. CASE UNCHANGED vars
  BY <1>20 DEF vars, handlerVars, lifecycleVars
<1>21. QED
  BY <1>1, <1>2, <1>3, <1>4, <1>5, <1>6, <1>7, <1>8, <1>9, <1>10,
     <1>11, <1>12, <1>13, <1>14, <1>15, <1>16, <1>17, <1>18, <1>19, <1>20
     DEF Next, Submission, Status, Cancel, Publication

\* Every step keeps what handlers hold consistent with the stored metadata.
LEMMA OwnerStep == ASSUME OwnerInv, [Next]_vars PROVE (HandlerOK /\ OwnerIsolation)'
<1> DEFINE Kept == (HandlerOK /\ OwnerIsolation)'
<1> USE ServiceAssumption, NoMetaAssumption
    DEF OwnerInv, HandlerOK, OwnerIsolation, Stored, Writing, TypeOK, LifecycleTypeOK, Stages,
        lifecycleVars, handlerVars, Transition, ReadOwned
<1>1. ASSUME NEW h \in Handlers, NEW u \in Users, NEW k \in Kinds, SubmitStart(h, u, k) PROVE Kept
  BY <1>1 DEF SubmitStart
<1>2. ASSUME NEW h \in Handlers, NEW j \in Jobs, ScanKey(h, j) PROVE Kept
  BY <1>2 DEF ScanKey
<1>3. ASSUME NEW h \in Handlers, QuotaReject(h) PROVE Kept
  BY <1>3 DEF QuotaReject, Finish
<1>4. ASSUME NEW h \in Handlers, NEW j \in Jobs, StoreMetadata(h, j) PROVE Kept
  <2>1. user[h] \in Users /\ kind[h] \in Kinds
    BY <1>4 DEF StoreMetadata
  <2>2. PICK m \in Metadata : m.user_id = user[h] /\ meta' = [meta EXCEPT ![j] = m]
    BY <1>4, <2>1 DEF StoreMetadata, Metadata
  <2>3. /\ pc[h] = "scan" /\ pc' = [pc EXCEPT ![h] = "dispatch"]
        /\ job' = [job EXCEPT ![h] = j]
        /\ toScan' = [toScan EXCEPT ![h] = {}] /\ counted' = [counted EXCEPT ![h] = {}]
        /\ UNCHANGED <<dispatched, revoked, result, user, kind, snap, told, events, reruns>>
        /\ meta[j] = NoMeta
    BY <1>4 DEF StoreMetadata
  <2>4. QED
    BY <2>1, <2>2, <2>3
<1>5. ASSUME NEW h \in Handlers, ApplyAsync(h) PROVE Kept
  BY <1>5 DEF ApplyAsync, Dispatch
<1>6. ASSUME NEW h \in Handlers, Accept(h) PROVE Kept
  BY <1>6 DEF Accept, Finish
<1>7. ASSUME NEW h \in Handlers, NEW u \in Users, NEW j \in Jobs, StatusCancelled(h, u, j) PROVE Kept
  BY <1>7 DEF StatusCancelled
<1>8. ASSUME NEW h \in Handlers, NEW u \in Users, NEW j \in Jobs, StatusRead(h, u, j) PROVE Kept
  BY <1>8 DEF StatusRead, Load
<1>9. ASSUME NEW h \in Handlers, StatusReply(h) PROVE Kept
  BY <1>9 DEF StatusReply, Finish, StateMap
<1>10. ASSUME NEW h \in Handlers, NEW u \in Users, NEW j \in Jobs, CancelRead(h, u, j) PROVE Kept
  BY <1>10 DEF CancelRead, Load
<1>11. ASSUME NEW h \in Handlers, CancelWrite(h) PROVE Kept
  <2>1. PICK m \in Metadata : m.user_id = user[h] /\ meta' = [meta EXCEPT ![job[h]] = m]
    BY <1>11, FlagWrite
  <2>2. /\ pc[h] = "cancel_write" /\ pc' = [pc EXCEPT ![h] = "revoke"]
        /\ UNCHANGED <<dispatched, revoked, result, user, kind, job, toScan, counted, snap,
                       told, events, reruns>>
    BY <1>11 DEF CancelWrite
  <2>3. QED
    BY <2>1, <2>2
<1>12. ASSUME NEW h \in Handlers, CancelRevoke(h) PROVE Kept
  BY <1>12 DEF CancelRevoke, Revoke
<1>13. ASSUME NEW h \in Handlers, CancelReply(h) PROVE Kept
  BY <1>13 DEF CancelReply, Finish
<1>14. ASSUME NEW h \in Handlers, NEW u \in Users, NEW j \in Jobs, PublishRead(h, u, j) PROVE Kept
  BY <1>14 DEF PublishRead, Load
<1>15. ASSUME NEW h \in Handlers, PublishWrite(h) PROVE Kept
  <2>1. PICK m \in Metadata : m.user_id = user[h] /\ meta' = [meta EXCEPT ![job[h]] = m]
    BY <1>15, FlagWrite
  <2>2. /\ pc[h] = "publish_write" /\ pc' = [pc EXCEPT ![h] = "publish_audit"]
        /\ UNCHANGED <<dispatched, revoked, result, user, kind, job, toScan, counted, snap,
                       told, events, reruns>>
    BY <1>15 DEF PublishWrite
  <2>3. QED
    BY <2>1, <2>2
<1>16. ASSUME NEW h \in Handlers, PublishReply(h) PROVE Kept
  BY <1>16 DEF PublishReply, Finish
<1>17. ASSUME NEW h \in Handlers, HandlerFails(h) PROVE Kept
  BY <1>17 DEF HandlerFails, Finish
<1>18. ASSUME NEW j \in Jobs, WorkerExecutes(j) PROVE Kept
  BY <1>18 DEF WorkerExecutes
<1>19. ASSUME NEW j \in Jobs, WorkerReruns(j) PROVE Kept
  BY <1>19 DEF WorkerReruns
<1>20. CASE UNCHANGED vars
  BY <1>20 DEF vars, handlerVars, lifecycleVars
<1>21. QED
  BY <1>1, <1>2, <1>3, <1>4, <1>5, <1>6, <1>7, <1>8, <1>9, <1>10,
     <1>11, <1>12, <1>13, <1>14, <1>15, <1>16, <1>17, <1>18, <1>19, <1>20
     DEF Next, Submission, Status, Cancel, Publication

\* The strengthened invariant holds throughout.
LEMMA OwnerInvariant == Spec => []OwnerInv
<1>1. Init => OwnerInv
  BY ServiceAssumption
     DEF Init, LifecycleInit, OwnerInv, TypeOK, LifecycleTypeOK, HandlerOK, OwnerIsolation,
         Writing, States, Stages
<1>2. OwnerInv /\ [Next]_vars => OwnerInv'
  BY TypeStep, OwnerStep DEF OwnerInv
<1>3. QED
  BY <1>1, <1>2, PTL DEF Spec

\* Type correctness of the service for every choice of its constants.
THEOREM ServiceTypeCorrect == Spec => []TypeOK
<1>1. OwnerInv => TypeOK
  BY DEF OwnerInv
<1>2. QED
  BY <1>1, OwnerInvariant, PTL

\* No handler past its check acts on a job of another user.
THEOREM OwnersAreIsolated == Spec => []OwnerIsolation
<1>1. OwnerInv => OwnerIsolation
  BY DEF OwnerInv
<1>2. QED
  BY <1>1, OwnerInvariant, PTL

-----------------------------------------------------------------------------
(* A success that was reported is there to be fetched.                     *)

\* The Tool publishes only what it was told has succeeded.
ToldInv ==
    /\ ToldSuccessIsReal
    /\ \A h \in Handlers :
          pc[h] \in {"publish_write", "publish_audit"} => result[job[h]] = "SUCCESS"

\* No step of a worker undoes a success.
LEMMA SuccessIsFinal ==
    ASSUME OwnerInv, NEW i \in Jobs, Execute(i) \/ Redelivered(i), NEW j \in Jobs,
           result[j] = "SUCCESS"
    PROVE  result'[j] = "SUCCESS"
BY DEF OwnerInv, TypeOK, LifecycleTypeOK, Execute, Start, Succeed, Fail, Withdraw,
       Redelivered, Rerun, LateOutcome, WithdrawAgain, Store

\* Every step keeps it: only StatusReply and PublishReply report a success.
LEMMA ToldStep == ASSUME OwnerInv, ToldInv, [Next]_vars PROVE ToldInv'
<1> USE ServiceAssumption
    DEF OwnerInv, HandlerOK, TypeOK, LifecycleTypeOK, ToldInv, ToldSuccessIsReal,
        lifecycleVars, handlerVars, Transition, Tell, Finish, Load
<1>1. ASSUME NEW h \in Handlers, Submission(h) PROVE ToldInv'
  BY <1>1 DEF Submission, SubmitStart, ScanKey, QuotaReject, StoreMetadata, ApplyAsync, Dispatch,
              Accept
<1>2. ASSUME NEW h \in Handlers, Status(h) PROVE ToldInv'
  <2>1. CASE StatusReply(h)
    <3>1. job[h] \in Jobs /\ result[job[h]] \in States
      BY <2>1 DEF StatusReply
    <3>2. StateMap[result[job[h]]] = "succeeded" => result[job[h]] = "SUCCESS"
      BY <3>1 DEF StateMap, States, ReadyStates
    <3>3. QED
      BY <2>1, <3>1, <3>2 DEF StatusReply
  <2>2. CASE ~ StatusReply(h)
    BY <1>2, <2>2 DEF Status, StatusCancelled, StatusRead
  <2>3. QED
    BY <2>1, <2>2
<1>3. ASSUME NEW h \in Handlers, Cancel(h) PROVE ToldInv'
  BY <1>3 DEF Cancel, CancelRead, CancelWrite, CancelRevoke, Revoke, CancelReply
<1>4. ASSUME NEW h \in Handlers, Publication(h) PROVE ToldInv'
  BY <1>4 DEF Publication, PublishRead, PublishWrite, PublishReply
<1>5. ASSUME NEW h \in Handlers, HandlerFails(h) PROVE ToldInv'
  BY <1>5 DEF HandlerFails
<1>6. ASSUME NEW j \in Jobs, WorkerExecutes(j) \/ WorkerReruns(j) PROVE ToldInv'
  BY <1>6, SuccessIsFinal DEF WorkerExecutes, WorkerReruns
<1>7. CASE UNCHANGED vars
  BY <1>7 DEF vars
<1>8. QED
  BY <1>1, <1>2, <1>3, <1>4, <1>5, <1>6, <1>7 DEF Next

\* Whoever was told "succeeded" finds the result, whatever is cancelled,
\* redelivered or published afterwards.
THEOREM ToldSuccessesAreReal == Spec => []ToldSuccessIsReal
<1>1. Init => ToldInv
  BY DEF Init, ToldInv, ToldSuccessIsReal
<1>2. ToldInv => ToldSuccessIsReal
  BY DEF ToldInv
<1>3. QED
  BY <1>1, <1>2, ToldStep, OwnerInvariant, PTL DEF Spec

-----------------------------------------------------------------------------
(* The lost updates of the metadata.                                       *)

\* What FlagsLostOnlyToStaleWrites says of a step and a job.
PublishedLost(j) ==
    \E h \in Handlers : pc[h] = "cancel_write" /\ job[h] = j /\ ~ snap[h].published
CancelledLost(j) ==
    \E h \in Handlers : pc[h] = "publish_write" /\ job[h] = j /\ ~ snap[h].cancelled

FlagStep ==
    \A j \in Jobs : /\ Published(j) /\ ~ Published(j)' => PublishedLost(j)
                    /\ Cancelled(j) /\ ~ Cancelled(j)' => CancelledLost(j)

\* The two writers of metadata lose a flag only from an older copy.
LEMMA FlagsStep == ASSUME OwnerInv, [Next]_vars PROVE FlagStep
<1> USE NoMetaAssumption
    DEF FlagStep, PublishedLost, CancelledLost, Published, Cancelled, Stored
<1>1. ASSUME NEW h \in Handlers, CancelWrite(h) PROVE FlagStep
  <2>1. /\ pc[h] = "cancel_write" /\ job[h] \in Jobs /\ snap[h] \in Metadata
        /\ meta \in [Jobs -> Metadata \union {NoMeta}]
    BY <1>1 DEF CancelWrite, Transition, OwnerInv, TypeOK, HandlerOK, Writing
  <2>2. PICK m \in Metadata : /\ m.cancelled /\ m.published = snap[h].published
                              /\ meta' = [meta EXCEPT ![job[h]] = m]
    BY <1>1, <2>1 DEF CancelWrite, Metadata
  <2>3. QED
    BY <2>1, <2>2
<1>2. ASSUME NEW h \in Handlers, PublishWrite(h) PROVE FlagStep
  <2>1. /\ pc[h] = "publish_write" /\ job[h] \in Jobs /\ snap[h] \in Metadata
        /\ meta \in [Jobs -> Metadata \union {NoMeta}]
    BY <1>2 DEF PublishWrite, Transition, OwnerInv, TypeOK, HandlerOK, Writing
  <2>2. PICK m \in Metadata : /\ m.published /\ m.cancelled = snap[h].cancelled
                              /\ meta' = [meta EXCEPT ![job[h]] = m]
    BY <1>2, <2>1 DEF PublishWrite, Metadata
  <2>3. QED
    BY <2>1, <2>2
<1>3. ASSUME NEW h \in Handlers, NEW j \in Jobs, StoreMetadata(h, j) PROVE FlagStep
  <2>1. meta[j] = NoMeta /\ \A i \in Jobs \ {j} : meta'[i] = meta[i]
    BY <1>3 DEF StoreMetadata, OwnerInv, TypeOK
  <2>2. QED
    BY <2>1
<1>4. CASE UNCHANGED meta
  BY <1>4
<1>5. UNCHANGED meta \/ \E h \in Handlers : \/ CancelWrite(h) \/ PublishWrite(h)
                                          \/ \E j \in Jobs : StoreMetadata(h, j)
  BY DEF Next, vars, Submission, SubmitStart, ScanKey, QuotaReject, ApplyAsync, Accept,
         Status, StatusCancelled, StatusRead, StatusReply, Cancel, CancelRead, CancelRevoke,
         CancelReply, Publication, PublishRead, PublishReply, HandlerFails, WorkerExecutes,
         WorkerReruns
<1>6. QED
  BY <1>1, <1>2, <1>3, <1>4, <1>5

\* A published or cancelled flag disappears only when a handler of the other
\* route writes back a record it had read before.
THEOREM FlagsAreLostOnlyToStaleWrites == Spec => FlagsLostOnlyToStaleWrites
<1>1. OwnerInv /\ [Next]_vars => [FlagStep]_vars
  BY FlagsStep
<1>2. Spec => [][FlagStep]_vars
  BY <1>1, OwnerInvariant, PTL DEF Spec
<1>3. FlagStep <=>
        \A j \in Jobs :
          /\ Published(j) /\ ~ Published(j)' =>
                 \E h \in Handlers : /\ pc[h] = "cancel_write" /\ job[h] = j
                                     /\ ~ snap[h].published
          /\ Cancelled(j) /\ ~ Cancelled(j)' =>
                 \E h \in Handlers : /\ pc[h] = "publish_write" /\ job[h] = j
                                     /\ ~ snap[h].cancelled
  BY DEF FlagStep, PublishedLost, CancelledLost
<1>4. QED
  BY <1>2, <1>3, PTL DEF FlagsLostOnlyToStaleWrites
-----------------------------------------------------------------------------
(* How far concurrent submissions exceed the quotas of _check_quota: by one *)
(* job for each handler but one, and by the jobs that were redelivered     *)
(* after they had finished.  Both limits are one argument about a set U of *)
(* users and a limit M: U is a single user, or all of them.                *)

(* The scans see stored jobs only, and nothing is left of them afterwards.  *)

StoredJobs == {j \in Jobs : Stored(j)}

ScanInv ==
    \A h \in Handlers :
        IF pc[h] = "scan" THEN counted[h] \union toScan[h] \subseteq StoredJobs
                          ELSE counted[h] = {} /\ toScan[h] = {}

\* Stored jobs and their owners stay, no finished job becomes unfinished, and
\* every scan stays where it is or is over.
Quiet ==
    /\ \A j \in Jobs : /\ Stored(j)' <=> Stored(j)
                       /\ Stored(j) => meta'[j].user_id = meta[j].user_id
    /\ \A j \in Jobs : Ready(j) => Ready(j)'
    /\ \A h \in Handlers :
          IF pc'[h] = "scan"
          THEN /\ pc[h] = "scan" /\ user'[h] = user[h]
               /\ counted'[h] = counted[h] /\ toScan'[h] = toScan[h]
          ELSE counted'[h] = {} /\ toScan'[h] = {}
    /\ reruns' = reruns

\* The steps that matter to a quota.
QuotaStep ==
    \/ \E h \in Handlers, u \in Users, k \in Kinds : SubmitStart(h, u, k)
    \/ \E h \in Handlers, j \in Jobs : ScanKey(h, j) \/ StoreMetadata(h, j)
    \/ \E j \in Jobs : WorkerReruns(j)

\* A read-modify-write of the metadata keeps the owner of every job.
LEMMA FlagWriteQuiet ==
    ASSUME OwnerInv, ScanInv, NEW h \in Handlers, CancelWrite(h) \/ PublishWrite(h)
    PROVE  Quiet
<1>1. PICK m \in Metadata : m.user_id = user[h] /\ meta' = [meta EXCEPT ![job[h]] = m]
  BY FlagWrite
<1>2. /\ pc[h] \in Writing
      /\ pc' \in {[pc EXCEPT ![h] = "revoke"], [pc EXCEPT ![h] = "publish_audit"]}
      /\ UNCHANGED <<result, user, toScan, counted, reruns>>
  BY DEF CancelWrite, PublishWrite, Transition, Writing, lifecycleVars
<1>3. job[h] \in Jobs /\ meta[job[h]] # NoMeta /\ meta[job[h]].user_id = user[h]
  BY <1>2, ServiceAssumption DEF OwnerInv, HandlerOK, OwnerIsolation, Writing, Stored
<1>4. \A j \in Jobs : /\ meta'[j] # NoMeta <=> meta[j] # NoMeta
                      /\ meta[j] # NoMeta => meta'[j].user_id = meta[j].user_id
  BY <1>1, <1>3, NoMetaAssumption DEF OwnerInv, TypeOK
<1>5. \A g \in Handlers :
          IF pc'[g] = "scan"
          THEN pc[g] = "scan" /\ counted'[g] = counted[g] /\ toScan'[g] = toScan[g]
          ELSE counted'[g] = {} /\ toScan'[g] = {}
  BY <1>2 DEF ScanInv, OwnerInv, TypeOK, Writing
<1>6. QED
  BY <1>2, <1>4, <1>5 DEF Quiet, Stored, Ready

\* All other steps are quiet.
LEMMA QuietSteps ==
    ASSUME OwnerInv, ScanInv, [Next]_vars
    PROVE  Quiet \/ QuotaStep
<1> USE DEF OwnerInv, TypeOK, LifecycleTypeOK, ScanInv, Quiet, QuotaStep, Stored, Ready,
        lifecycleVars, handlerVars, Transition
<1>1. ASSUME NEW h \in Handlers, Submission(h) PROVE Quiet \/ QuotaStep
  BY <1>1 DEF Submission, QuotaReject, ApplyAsync, Accept, Finish, Dispatch
<1>2. ASSUME NEW h \in Handlers, Status(h) PROVE Quiet \/ QuotaStep
  BY <1>2 DEF Status, StatusCancelled, StatusRead, StatusReply, Load, Finish
<1>3. ASSUME NEW h \in Handlers, Cancel(h) PROVE Quiet \/ QuotaStep
  <2>1. CASE CancelWrite(h)
    BY <2>1, FlagWriteQuiet
  <2>2. CASE ~ CancelWrite(h)
    BY <1>3, <2>2 DEF Cancel, CancelRead, CancelRevoke, Revoke, CancelReply, Load, Finish
  <2>3. QED
    BY <2>1, <2>2
<1>4. ASSUME NEW h \in Handlers, Publication(h) PROVE Quiet \/ QuotaStep
  <2>1. CASE PublishWrite(h)
    BY <2>1, FlagWriteQuiet
  <2>2. CASE ~ PublishWrite(h)
    BY <1>4, <2>2 DEF Publication, PublishRead, PublishReply, Load, Finish
  <2>3. QED
    BY <2>1, <2>2
<1>5. ASSUME NEW h \in Handlers, HandlerFails(h) PROVE Quiet \/ QuotaStep
  BY <1>5 DEF HandlerFails, Finish
<1>6. ASSUME NEW j \in Jobs, WorkerExecutes(j) PROVE Quiet \/ QuotaStep
  BY <1>6 DEF WorkerExecutes, Execute, Start, Succeed, Fail, Withdraw, Store, ReadyStates
<1>7. CASE UNCHANGED vars
  BY <1>7 DEF vars
<1>8. QED
  BY <1>1, <1>2, <1>3, <1>4, <1>5, <1>6, <1>7 DEF Next

\* What a scan has found is stored, now and later.
LEMMA ScanStep == ASSUME OwnerInv, ScanInv, [Next]_vars PROVE ScanInv'
<1> USE NoMetaAssumption DEF OwnerInv, TypeOK, ScanInv, StoredJobs, Stored, Transition
<1>1. CASE Quiet
  BY <1>1 DEF Quiet
<1>2. ASSUME NEW h \in Handlers, NEW u \in Users, NEW k \in Kinds, SubmitStart(h, u, k)
      PROVE  ScanInv'
  BY <1>2 DEF SubmitStart
<1>3. ASSUME NEW h \in Handlers, NEW j \in Jobs, ScanKey(h, j) PROVE ScanInv'
  BY <1>3 DEF ScanKey
<1>4. ASSUME NEW h \in Handlers, NEW j \in Jobs, StoreMetadata(h, j) PROVE ScanInv'
  <2>1. \A i \in Jobs : meta[i] # NoMeta => meta'[i] = meta[i]
    BY <1>4 DEF StoreMetadata
  <2>2. /\ pc' = [pc EXCEPT ![h] = "dispatch"]
        /\ toScan' = [toScan EXCEPT ![h] = {}] /\ counted' = [counted EXCEPT ![h] = {}]
    BY <1>4 DEF StoreMetadata
  <2>3. QED
    BY <2>1, <2>2
<1>5. ASSUME NEW j \in Jobs, WorkerReruns(j) PROVE ScanInv'
  BY <1>5 DEF WorkerReruns, handlerVars
<1>6. QED
  BY <1>1, <1>2, <1>3, <1>4, <1>5, QuietSteps DEF QuotaStep

-----------------------------------------------------------------------------
(* The argument for a set U of users who share a limit M.                  *)

\* The outstanding jobs of these users.
Out(U) == {j \in Jobs : Stored(j) /\ ~ Ready(j) /\ meta[j].user_id \in U}

\* Those among S that the scan of handler h has counted or will meet.
Seen(h, U, S) == {j \in counted[h] : meta[j].user_id \in U} \union (toScan[h] \intersect S)

\* Handlers of U whose scan may still find less than M.
Passing(U, M, S) ==
    {h \in Handlers : /\ pc[h] = "scan" /\ user[h] \in U
                      /\ Cardinality(Seen(h, U, S)) < M}

\* For every set S of outstanding jobs: handlers that may miss S and store one
\* more job are part of the excess.
QuotaInv(U, M) ==
    \A S \in SUBSET Out(U) :
        Cardinality(S) + Cardinality(Passing(U, M, S)) <= M + Excess

\* A handler of U that passes the check has counted fewer than M jobs of U.
Limit(U, M) ==
    \A h \in Handlers : user[h] \in U /\ WithinQuota(h) =>
        Cardinality({j \in counted[h] : meta[j].user_id \in U}) < M

Scanned == OwnerInv /\ ScanInv

\* Arithmetic of the finite sets involved.
LEMMA Sizes ==
    ASSUME Scanned, NEW U, NEW M
    PROVE  /\ \A S \in SUBSET Jobs : IsFiniteSet(S) /\ Cardinality(S) \in Nat
           /\ \A S : IsFiniteSet(Passing(U, M, S)) /\ Cardinality(Passing(U, M, S)) \in Nat
           /\ \A S : Cardinality(Passing(U, M, S)) <= Cardinality(Handlers)
           /\ \A h \in Handlers : \A S : IsFiniteSet(Seen(h, U, S))
           /\ Cardinality(Handlers) \in Nat /\ Cardinality(Handlers) >= 1
           /\ reruns \in Nat
<1>1. \A S \in SUBSET Jobs : IsFiniteSet(S) /\ Cardinality(S) \in Nat
  BY ServiceAssumption, FS_Subset, FS_CardinalityType
<1>2. \A S \in SUBSET Handlers : /\ IsFiniteSet(S) /\ Cardinality(S) \in Nat
                                 /\ Cardinality(S) <= Cardinality(Handlers)
  BY ServiceAssumption, FS_Subset, FS_CardinalityType
<1>3. \A S : Passing(U, M, S) \in SUBSET Handlers
  BY DEF Passing
<1>4. \A h \in Handlers : \A S : Seen(h, U, S) \in SUBSET Jobs
  BY DEF Seen, Scanned, OwnerInv, TypeOK
<1>5. Cardinality(Handlers) \in Nat /\ Cardinality(Handlers) # 0
  BY ServiceAssumption, FS_CardinalityType, FS_EmptySet
<1>6. reruns \in Nat
  BY ServiceAssumption DEF Scanned, OwnerInv, TypeOK
<1>7. QED
  BY <1>1, <1>2, <1>3, <1>4, <1>5, <1>6

\* A scan that has seen no less passes no more.
LEMMA PassingShrinks ==
    ASSUME Scanned, Scanned', NEW U, NEW M \in Nat, NEW S, NEW T,
           \A h \in Handlers : pc'[h] = "scan" /\ user'[h] \in U =>
               /\ pc[h] = "scan" /\ user'[h] = user[h]
               /\ Seen(h, U, T) \subseteq Seen(h, U, S)'
    PROVE  Passing(U, M, S)' \subseteq Passing(U, M, T)
<1> SUFFICES ASSUME NEW h \in Passing(U, M, S)' PROVE h \in Passing(U, M, T)
  OBVIOUS
<1>1. /\ h \in Handlers /\ pc[h] = "scan" /\ user[h] \in U
      /\ Seen(h, U, T) \subseteq Seen(h, U, S)'
      /\ Cardinality(Seen(h, U, S)') < M
  BY DEF Passing
<1>2. IsFiniteSet(Seen(h, U, S)')
  <2>1. Seen(h, U, S)' \in SUBSET Jobs
    BY <1>1 DEF Seen, Scanned, OwnerInv, TypeOK
  <2>2. QED
    BY <2>1, ServiceAssumption, FS_Subset
<1>3. /\ Cardinality(Seen(h, U, T)) \in Nat /\ Cardinality(Seen(h, U, S)') \in Nat
      /\ Cardinality(Seen(h, U, T)) <= Cardinality(Seen(h, U, S)')
  BY <1>1, <1>2, FS_Subset, FS_CardinalityType
<1>4. QED
  BY <1>1, <1>3 DEF Passing

\* Quiet steps.
LEMMA QuietQuota ==
    ASSUME Scanned, Scanned', NEW U, NEW M \in Nat, QuotaInv(U, M), Quiet
    PROVE  QuotaInv(U, M)'
<1> SUFFICES ASSUME NEW S \in SUBSET Out(U)'
             PROVE  Cardinality(S) + Cardinality(Passing(U, M, S)') <= M + Excess'
  BY DEF QuotaInv
<1>1. S \in SUBSET Out(U)
  BY DEF Out, Quiet
<1>2. \A h \in Handlers : pc'[h] = "scan" => Seen(h, U, S)' = Seen(h, U, S)
  BY DEF Seen, Quiet, Scanned, ScanInv, StoredJobs
<1>3. Passing(U, M, S)' \subseteq Passing(U, M, S)
  BY <1>2, PassingShrinks DEF Quiet
<1>4. Cardinality(Passing(U, M, S)') <= Cardinality(Passing(U, M, S))
  BY <1>3, Sizes, FS_Subset
<1>5. /\ Cardinality(S) \in Nat /\ Cardinality(Passing(U, M, S)) \in Nat
      /\ Cardinality(Passing(U, M, S)') \in Nat
  BY <1>1, <1>3, Sizes, FS_Subset, FS_CardinalityType DEF Out
<1>6. Excess' = Excess /\ Excess \in Nat
  BY Sizes DEF Excess, Quiet
<1>7. QED
  BY <1>1, <1>4, <1>5, <1>6 DEF QuotaInv

\* The scan of a new handler will meet all of S; it may pass if S is below M.
LEMMA StartQuota ==
    ASSUME Scanned, Scanned', NEW U, NEW M \in Nat, QuotaInv(U, M),
           NEW h \in Handlers, NEW u \in Users, NEW k \in Kinds, SubmitStart(h, u, k)
    PROVE  QuotaInv(U, M)'
<1> SUFFICES ASSUME NEW S \in SUBSET Out(U)'
             PROVE  Cardinality(S) + Cardinality(Passing(U, M, S)') <= M + Excess'
  BY DEF QuotaInv
<1>1. /\ pc[h] = "idle" /\ pc' = [pc EXCEPT ![h] = "scan"]
      /\ user' = [user EXCEPT ![h] = u] /\ toScan' = [toScan EXCEPT ![h] = StoredJobs]
      /\ UNCHANGED <<result, meta, counted, reruns>>
  BY DEF SubmitStart, Transition, StoredJobs, lifecycleVars
<1>2. S \in SUBSET Out(U) /\ S \subseteq StoredJobs
  BY <1>1 DEF Out, StoredJobs, Stored, Ready
<1>3. Excess' = Excess /\ Excess \in Nat /\ Cardinality(S) \in Nat
  BY <1>1, <1>2, Sizes DEF Excess, Out
<1>4. Seen(h, U, S)' = S
  BY <1>1, <1>2 DEF Seen, Scanned, ScanInv, OwnerInv, TypeOK
<1>5. \A g \in Handlers \ {h} : Seen(g, U, S)' = Seen(g, U, S)
  BY <1>1 DEF Seen, Scanned, OwnerInv, TypeOK
<1>6. CASE Cardinality(S) < M
  <2>1. Passing(U, M, S)' \in SUBSET Handlers
    BY DEF Passing
  <2>2. /\ Cardinality(Passing(U, M, S)') <= Cardinality(Handlers)
        /\ Cardinality(Passing(U, M, S)') \in Nat
    BY <2>1, ServiceAssumption, FS_Subset, FS_CardinalityType
  <2>3. Cardinality(Handlers) \in Nat /\ reruns \in Nat
    BY Sizes
  <2>4. QED
    BY <1>3, <1>6, <2>2, <2>3 DEF Excess
<1>7. CASE ~ Cardinality(S) < M
  <2>1. Passing(U, M, S)' \subseteq Passing(U, M, S)
    BY <1>1, <1>4, <1>5, <1>7 DEF Passing, Scanned, OwnerInv, TypeOK
  <2>2. /\ Cardinality(Passing(U, M, S)') <= Cardinality(Passing(U, M, S))
        /\ Cardinality(Passing(U, M, S)') \in Nat /\ Cardinality(Passing(U, M, S)) \in Nat
    BY <2>1, Sizes, FS_Subset, FS_CardinalityType
  <2>3. QED
    BY <1>2, <1>3, <2>2 DEF QuotaInv
<1>8. QED
  BY <1>6, <1>7

\* A scanned key of S is outstanding, so it is counted.
LEMMA ScanQuota ==
    ASSUME Scanned, Scanned', NEW U, NEW M \in Nat, QuotaInv(U, M),
           NEW h \in Handlers, NEW j \in Jobs, ScanKey(h, j)
    PROVE  QuotaInv(U, M)'
<1> SUFFICES ASSUME NEW S \in SUBSET Out(U)'
             PROVE  Cardinality(S) + Cardinality(Passing(U, M, S)') <= M + Excess'
  BY DEF QuotaInv
<1>1. /\ toScan' = [toScan EXCEPT ![h] = @ \ {j}]
      /\ counted' = [counted EXCEPT ![h] = @ \union (IF Ready(j) THEN {} ELSE {j})]
      /\ UNCHANGED <<result, meta, pc, user, reruns>>
  BY DEF ScanKey, lifecycleVars
<1>2. S \in SUBSET Out(U)
  BY <1>1 DEF Out, Stored, Ready
<1>3. \A g \in Handlers : Seen(g, U, S) \subseteq Seen(g, U, S)'
  BY <1>1, <1>2 DEF Seen, Out, Scanned, OwnerInv, TypeOK
<1>4. Passing(U, M, S)' \subseteq Passing(U, M, S)
  BY <1>1, <1>3, PassingShrinks
<1>5. /\ Cardinality(Passing(U, M, S)') <= Cardinality(Passing(U, M, S))
      /\ Cardinality(Passing(U, M, S)') \in Nat /\ Cardinality(Passing(U, M, S)) \in Nat
      /\ Cardinality(S) \in Nat
  BY <1>2, <1>4, Sizes, FS_Subset, FS_CardinalityType DEF Out
<1>6. Excess' = Excess /\ Excess \in Nat
  BY <1>1, Sizes DEF Excess
<1>7. QED
  BY <1>2, <1>5, <1>6 DEF QuotaInv

\* The new job of U was not seen by the scans that still run; its own handler
\* passed, and does not any more.
LEMMA StoreQuota ==
    ASSUME Scanned, Scanned', NEW U, NEW M \in Nat, QuotaInv(U, M), Limit(U, M),
           NEW h \in Handlers, NEW j \in Jobs, StoreMetadata(h, j)
    PROVE  QuotaInv(U, M)'
<1> SUFFICES ASSUME NEW S \in SUBSET Out(U)'
             PROVE  Cardinality(S) + Cardinality(Passing(U, M, S)') <= M + Excess'
  BY DEF QuotaInv
<1> DEFINE T == S \ {j}
<1>1. /\ pc[h] = "scan" /\ pc' = [pc EXCEPT ![h] = "dispatch"] /\ toScan[h] = {}
      /\ WithinQuota(h) /\ meta[j] = NoMeta
      /\ toScan' = [toScan EXCEPT ![h] = {}] /\ counted' = [counted EXCEPT ![h] = {}]
      /\ UNCHANGED <<result, user, reruns>>
  BY DEF StoreMetadata, Transition, lifecycleVars
<1>2. \A i \in Jobs \ {j} : meta'[i] = meta[i]
  BY DEF StoreMetadata
<1>3. /\ meta'[j] # NoMeta
      /\ meta'[j].user_id = user[h]
  <2>1. user[h] \in Users /\ kind[h] \in Kinds
    BY <1>1 DEF Scanned, OwnerInv, HandlerOK
  <2>2. PICK m \in Metadata : m.user_id = user[h] /\ meta' = [meta EXCEPT ![j] = m]
    BY <2>1 DEF StoreMetadata, Metadata
  <2>3. QED
    BY <2>2, NoMetaAssumption DEF Scanned, OwnerInv, TypeOK
<1>4. T \in SUBSET Out(U)
  BY <1>1, <1>2 DEF Out, Stored, Ready
<1>5. \A g \in Handlers : pc'[g] = "scan" => Seen(g, U, T) \subseteq Seen(g, U, S)'
  BY <1>1, <1>2 DEF Seen, Scanned, ScanInv, StoredJobs, Stored, OwnerInv, TypeOK
<1>6. Passing(U, M, S)' \subseteq Passing(U, M, T)
  BY <1>1, <1>5, PassingShrinks DEF Scanned, OwnerInv, TypeOK
<1>7. h \notin Passing(U, M, S)'
  BY <1>1 DEF Passing, Scanned, OwnerInv, TypeOK
<1>8. Excess' = Excess /\ Excess \in Nat
  BY <1>1, Sizes DEF Excess
<1>9. /\ Cardinality(T) \in Nat /\ IsFiniteSet(T)
      /\ IsFiniteSet(Passing(U, M, T)) /\ Cardinality(Passing(U, M, T)) \in Nat
  BY <1>4, Sizes DEF Out
<1>10. Cardinality(T) + Cardinality(Passing(U, M, T)) <= M + Excess
  BY <1>4 DEF QuotaInv
<1>11. CASE j \in S
  <2>1. user[h] \in U
    BY <1>3, <1>11 DEF Out
  <2>2. Seen(h, U, T) = {i \in counted[h] : meta[i].user_id \in U}
    BY <1>1 DEF Seen
  <2>3. h \in Passing(U, M, T)
    BY <1>1, <2>1, <2>2 DEF Passing, Limit
  <2>4. Passing(U, M, S)' \subseteq Passing(U, M, T) \ {h}
    BY <1>6, <1>7
  <2>5. /\ IsFiniteSet(Passing(U, M, T) \ {h})
        /\ Cardinality(Passing(U, M, T) \ {h}) = Cardinality(Passing(U, M, T)) - 1
    BY <2>3, <1>9, FS_RemoveElement
  <2>6. /\ Cardinality(Passing(U, M, S)') \in Nat
        /\ Cardinality(Passing(U, M, S)') <= Cardinality(Passing(U, M, T)) - 1
    <3>1. Passing(U, M, S)' \in SUBSET (Passing(U, M, T) \ {h})
      BY <2>4
    <3>2. /\ IsFiniteSet(Passing(U, M, S)')
          /\ Cardinality(Passing(U, M, S)') <= Cardinality(Passing(U, M, T) \ {h})
      BY <2>5, <3>1, FS_Subset
    <3>3. Cardinality(Passing(U, M, S)') \in Nat
      BY <3>2, FS_CardinalityType
    <3>4. QED
      BY <2>5, <3>2, <3>3
  <2>7. S = T \union {j} /\ j \notin T
    BY <1>11
  <2>8. Cardinality(S) = Cardinality(T) + 1
    BY <1>9, <2>7, FS_AddElement
  <2>9. QED
    BY <1>8, <1>9, <1>10, <2>6, <2>8
<1>12. CASE j \notin S
  <2>1. S = T
    BY <1>12
  <2>2. /\ Cardinality(Passing(U, M, S)') \in Nat
        /\ Cardinality(Passing(U, M, S)') <= Cardinality(Passing(U, M, T))
    BY <1>6, <1>9, FS_Subset, FS_CardinalityType
  <2>3. QED
    BY <1>8, <1>9, <1>10, <2>1, <2>2
<1>13. QED
  BY <1>11, <1>12

\* A finished job that runs again is paid for by the counter of redeliveries.
LEMMA RerunQuota ==
    ASSUME Scanned, Scanned', NEW U, NEW M \in Nat, QuotaInv(U, M),
           NEW j \in Jobs, WorkerReruns(j)
    PROVE  QuotaInv(U, M)'
<1> SUFFICES ASSUME NEW S \in SUBSET Out(U)'
             PROVE  Cardinality(S) + Cardinality(Passing(U, M, S)') <= M + Excess'
  BY DEF QuotaInv
<1> DEFINE T == S \ {j}
<1>1. reruns' = reruns + 1 /\ UNCHANGED <<meta, pc, user, toScan, counted>>
  BY DEF WorkerReruns, handlerVars
<1>2. \A i \in Jobs \ {j} : result'[i] = result[i]
  BY DEF WorkerReruns, Redelivered, Rerun, LateOutcome, WithdrawAgain, Store,
         Scanned, OwnerInv, TypeOK, LifecycleTypeOK
<1>3. T \in SUBSET Out(U) /\ S \in SUBSET Jobs
  BY <1>1, <1>2 DEF Out, Stored, Ready
<1>4. \A g \in Handlers : Seen(g, U, T) \subseteq Seen(g, U, S)'
  BY <1>1 DEF Seen
<1>5. Passing(U, M, S)' \subseteq Passing(U, M, T)
  BY <1>1, <1>4, PassingShrinks
<1>6. /\ Cardinality(Passing(U, M, S)') <= Cardinality(Passing(U, M, T))
      /\ Cardinality(Passing(U, M, S)') \in Nat /\ Cardinality(Passing(U, M, T)) \in Nat
  BY <1>5, Sizes, FS_Subset, FS_CardinalityType
<1>7. Cardinality(T) \in Nat /\ Cardinality(S) \in Nat /\ Cardinality(S) <= Cardinality(T) + 1
  <2>1. IsFiniteSet(T) /\ Cardinality(T) \in Nat /\ IsFiniteSet(S) /\ Cardinality(S) \in Nat
    BY <1>3, Sizes DEF Out
  <2>2. CASE j \in S
    <3>1. Cardinality(T) = Cardinality(S) - 1
      BY <2>1, <2>2, FS_RemoveElement
    <3>2. QED
      BY <2>1, <3>1
  <2>3. CASE j \notin S
    <3>1. T = S
      BY <2>3
    <3>2. QED
      BY <2>1, <3>1
  <2>4. QED
    BY <2>2, <2>3
<1>8. Excess' = Excess + 1 /\ Excess \in Nat
  BY <1>1, Sizes DEF Excess
<1>9. QED
  BY <1>3, <1>6, <1>7, <1>8 DEF QuotaInv

-----------------------------------------------------------------------------
(* The two limits of _check_quota.                                         *)

\* WithinQuota keeps a handler to the limit of its user ...
LEMMA UserLimit == ASSUME NEW u \in Users PROVE Limit({u}, MaxUserJobs)
<1> SUFFICES ASSUME NEW h \in Handlers, user[h] = u, WithinQuota(h)
             PROVE  Cardinality({j \in counted[h] : meta[j].user_id \in {u}}) < MaxUserJobs
  BY DEF Limit
<1>1. {j \in counted[h] : meta[j].user_id \in {u}} = OwnedBy(user[h], counted[h])
  BY DEF OwnedBy
<1>2. QED
  BY <1>1 DEF WithinQuota

\* ... and to the global one.
LEMMA GlobalLimit == ASSUME Scanned PROVE Limit(Users, MaxQueuedJobs)
<1> SUFFICES ASSUME NEW h \in Handlers, WithinQuota(h)
             PROVE  Cardinality({j \in counted[h] : meta[j].user_id \in Users}) < MaxQueuedJobs
  BY DEF Limit
<1>1. {j \in counted[h] : meta[j].user_id \in Users} \subseteq counted[h]
  OBVIOUS
<1>2. IsFiniteSet(counted[h])
  BY ServiceAssumption, FS_Subset DEF Scanned, OwnerInv, TypeOK
<1>3. /\ Cardinality({j \in counted[h] : meta[j].user_id \in Users}) <= Cardinality(counted[h])
      /\ Cardinality({j \in counted[h] : meta[j].user_id \in Users}) \in Nat
      /\ Cardinality(counted[h]) \in Nat
  BY <1>1, <1>2, FS_Subset, FS_CardinalityType
<1>4. QED
  BY <1>3, ServiceAssumption DEF WithinQuota

Quotas ==
    /\ Scanned
    /\ \A u \in Users : QuotaInv({u}, MaxUserJobs)
    /\ QuotaInv(Users, MaxQueuedJobs)

\* One step, for one set of users and its limit.
LEMMA QuotaKept ==
    ASSUME Scanned, Scanned', [Next]_vars, NEW U, NEW M \in Nat, QuotaInv(U, M), Limit(U, M)
    PROVE  QuotaInv(U, M)'
BY QuietSteps, QuietQuota, StartQuota, ScanQuota, StoreQuota, RerunQuota
   DEF Scanned, QuotaStep

\* Nothing is stored initially.
LEMMA QuotaInit == ASSUME Init, Scanned, NEW U, NEW M \in Nat PROVE QuotaInv(U, M)
<1>1. Out(U) = {} /\ \A S : Passing(U, M, S) = {}
  BY DEF Init, Out, Passing, Stored
<1>2. Cardinality({}) = 0
  BY FS_EmptySet
<1>3. Excess \in Nat
  BY Sizes DEF Excess
<1>4. \A S \in SUBSET Out(U) : S = {}
  BY <1>1
<1>5. QED
  BY <1>1, <1>2, <1>3, <1>4 DEF QuotaInv

\* The invariant behind both bounds.
LEMMA QuotasInvariant == Spec => []Quotas
<1>1. Init /\ OwnerInv => Quotas
  <2>1. Init => ScanInv
    BY DEF Init, ScanInv
  <2>2. QED
    BY <2>1, QuotaInit, ServiceAssumption DEF Quotas, Scanned
<1>2. Quotas /\ OwnerInv' /\ [Next]_vars => Quotas'
  <2> SUFFICES ASSUME Quotas, OwnerInv', [Next]_vars PROVE Quotas'
    OBVIOUS
  <2>1. Scanned'
    BY ScanStep DEF Quotas, Scanned
  <2>2. QED
    BY <2>1, QuotaKept, UserLimit, GlobalLimit, ServiceAssumption DEF Quotas
<1>3. QED
  BY <1>1, <1>2, OwnerInvariant, PTL DEF Spec

\* A bound on the outstanding jobs of U, given the invariant.
LEMMA OutBound ==
    ASSUME Scanned, NEW U, NEW M \in Nat, QuotaInv(U, M)
    PROVE  Cardinality(Out(U)) <= M + Excess
<1>1. Out(U) \in SUBSET Out(U) /\ Out(U) \in SUBSET Jobs
  BY DEF Out
<1>2. Cardinality(Out(U)) + Cardinality(Passing(U, M, Out(U))) <= M + Excess
  BY <1>1 DEF QuotaInv
<1>3. /\ Cardinality(Out(U)) \in Nat /\ Cardinality(Passing(U, M, Out(U))) \in Nat
      /\ Excess \in Nat
  BY <1>1, Sizes DEF Excess
<1>4. QED
  BY <1>2, <1>3

\* However submissions interleave, a user has at most MaxUserJobs outstanding
\* jobs, and all users have MaxQueuedJobs, one more for each other handler, and
\* the redelivered ones.
THEOREM QuotasAreBounded == Spec => []QuotaBound
<1>1. ASSUME Quotas, NEW u \in Users
      PROVE  Cardinality(OwnedBy(u, Outstanding)) <= MaxUserJobs + Excess
  <2>1. OwnedBy(u, Outstanding) = Out({u})
    BY DEF OwnedBy, Outstanding, Out
  <2>2. QED
    BY <1>1, <2>1, OutBound, ServiceAssumption DEF Quotas
<1>2. ASSUME Quotas PROVE Cardinality(Outstanding) <= MaxQueuedJobs + Excess
  <2>1. \A j \in Jobs : Stored(j) => meta[j].user_id \in Users
    BY <1>2 DEF Quotas, Scanned, OwnerInv, TypeOK, Stored, Metadata
  <2>2. Outstanding = Out(Users)
    BY <2>1 DEF Outstanding, Out
  <2>3. QED
    BY <1>2, <2>2, OutBound, ServiceAssumption DEF Quotas
<1>3. Quotas => QuotaBound
  BY <1>1, <1>2 DEF QuotaBound
<1>4. QED
  BY <1>3, QuotasInvariant, PTL

-----------------------------------------------------------------------------
(* The record of a job says who owns it and of what kind it is, and goes on *)
(* saying so although two routes overwrite it as a whole.                  *)

\* Loaded records are of the kind of the stored ones; only notebook jobs have
\* the cancelled flag.
KindInv ==
    /\ \A h \in Handlers :
          pc[h] \in Writing =>
              /\ snap[h].kind = meta[job[h]].kind
              /\ snap[h].cancelled => snap[h].kind = "notebook"
    /\ \A h \in Handlers : pc[h] = "cancel_write" => snap[h].kind = "notebook"
    /\ \A j \in Jobs : Cancelled(j) => meta[j].kind = "notebook"

\* What a record keeps through a step.
SameRecord(j) ==
    Stored(j) => /\ Stored(j)'
                 /\ meta'[j].user_id = meta[j].user_id
                 /\ meta'[j].kind = meta[j].kind

RecordsKept == \A j \in Jobs : SameRecord(j)

Rewritten(j) ==
    \E m \in Metadata : /\ m.user_id = meta[j].user_id
                        /\ m.kind = meta[j].kind
                        /\ m.cancelled => m.kind = "notebook"
                        /\ meta' = [meta EXCEPT ![j] = m]

\* What the two read-modify-write handlers put into Redis, with its kind.
LEMMA RecordWrite ==
    ASSUME OwnerInv, KindInv, NEW h \in Handlers, CancelWrite(h) \/ PublishWrite(h)
    PROVE  /\ pc[h] \in Writing /\ pc'[h] \notin Writing
           /\ pc' = [pc EXCEPT ![h] = pc'[h]]
           /\ UNCHANGED <<job, snap>>
           /\ job[h] \in Jobs /\ meta[job[h]] # NoMeta
           /\ Rewritten(job[h])
<1>1. /\ pc[h] \in Writing /\ pc'[h] \notin Writing
      /\ pc' = [pc EXCEPT ![h] = pc'[h]] /\ UNCHANGED <<job, snap>>
  BY DEF CancelWrite, PublishWrite, Transition, Writing, OwnerInv, TypeOK
<1>2. /\ job[h] \in Jobs /\ meta[job[h]] # NoMeta /\ meta[job[h]].user_id = user[h]
      /\ snap[h] \in Metadata /\ snap[h].user_id = user[h]
  BY <1>1, ServiceAssumption DEF OwnerInv, HandlerOK, OwnerIsolation, Writing, Stored
<1>3. /\ snap[h].kind = meta[job[h]].kind
      /\ snap[h].cancelled => snap[h].kind = "notebook"
  BY <1>1 DEF KindInv
<1>4. CASE CancelWrite(h)
  <2>1. snap[h].kind = "notebook"
    BY <1>4 DEF CancelWrite, Transition, KindInv
  <2>2. PICK m \in Metadata : /\ m.user_id = snap[h].user_id /\ m.kind = snap[h].kind
                              /\ meta' = [meta EXCEPT ![job[h]] = m]
    BY <1>2, <1>4 DEF CancelWrite, Metadata
  <2>3. QED
    BY <1>1, <1>2, <1>3, <2>1, <2>2 DEF Rewritten
<1>5. CASE PublishWrite(h)
  <2>1. PICK m \in Metadata : /\ m.user_id = snap[h].user_id /\ m.kind = snap[h].kind
                              /\ m.cancelled = snap[h].cancelled
                              /\ meta' = [meta EXCEPT ![job[h]] = m]
    BY <1>2, <1>5 DEF PublishWrite, Metadata
  <2>2. QED
    BY <1>1, <1>2, <1>3, <2>1 DEF Rewritten
<1>6. QED
  BY <1>4, <1>5

\* Every step keeps the invariant, and the record of every job its owner and kind.
LEMMA KindStep == ASSUME OwnerInv, KindInv, [Next]_vars PROVE KindInv' /\ RecordsKept
<1> DEFINE Kept == KindInv' /\ RecordsKept
<1> USE NoMetaAssumption DEF RecordsKept, SameRecord, Stored, Cancelled
<1>1. ASSUME NEW h \in Handlers, CancelWrite(h) \/ PublishWrite(h) PROVE Kept
  <2>0. Rewritten(job[h])
    BY <1>1, RecordWrite
  <2>1. PICK m \in Metadata : /\ m.user_id = meta[job[h]].user_id
                              /\ m.kind = meta[job[h]].kind
                              /\ m.cancelled => m.kind = "notebook"
                              /\ meta' = [meta EXCEPT ![job[h]] = m]
    BY <2>0 DEF Rewritten
  <2>2. job[h] \in Jobs /\ meta[job[h]] # NoMeta /\ m # NoMeta
    BY <1>1, RecordWrite
  <2>3. \A j \in Jobs : meta'[j] = IF j = job[h] THEN m ELSE meta[j]
    BY <2>1, <2>2 DEF OwnerInv, TypeOK
  <2>4. RecordsKept
    BY <2>1, <2>2, <2>3
  <2>5. \A j \in Jobs : Cancelled(j)' => meta'[j].kind = "notebook"
    BY <2>1, <2>2, <2>3 DEF KindInv
  <2>6. ASSUME NEW g \in Handlers, pc'[g] \in Writing
        PROVE  /\ snap'[g].kind = meta'[job'[g]].kind
               /\ snap'[g].cancelled => snap'[g].kind = "notebook"
               /\ pc'[g] = "cancel_write" => snap'[g].kind = "notebook"
    <3>1. pc[g] = pc'[g] /\ job'[g] = job[g] /\ snap'[g] = snap[g]
      BY <1>1, <2>6, RecordWrite DEF OwnerInv, TypeOK
    <3>2. job[g] \in Jobs
      BY <2>6, <3>1 DEF OwnerInv, HandlerOK, Writing
    <3>3. meta'[job[g]].kind = meta[job[g]].kind
      BY <2>1, <2>3, <3>2
    <3>4. QED
      BY <2>6, <3>1, <3>3 DEF KindInv
  <2>7. QED
    BY <2>4, <2>5, <2>6 DEF KindInv, Writing
<1>2. ASSUME NEW h \in Handlers, NEW j \in Jobs, StoreMetadata(h, j) PROVE Kept
  <2>1. /\ meta[j] = NoMeta /\ ~ meta'[j].cancelled
        /\ \A i \in Jobs \ {j} : meta'[i] = meta[i]
        /\ pc' = [pc EXCEPT ![h] = "dispatch"] /\ job' = [job EXCEPT ![h] = j]
        /\ snap' = snap
    BY <1>2 DEF StoreMetadata, Transition, OwnerInv, TypeOK
  <2>2. RecordsKept /\ \A i \in Jobs : Cancelled(i)' => meta'[i].kind = "notebook"
    BY <2>1 DEF KindInv
  <2>3. \A g \in Handlers : pc[g] \in Writing => job[g] \in Jobs \ {j}
    <3>1. ASSUME NEW g \in Handlers, pc[g] \in Writing PROVE job[g] \in Jobs
      BY <3>1 DEF OwnerInv, HandlerOK, Writing
    <3>2. \A g \in Handlers : job[g] \in Jobs => meta[job[g]] # NoMeta
      BY ServiceAssumption DEF OwnerInv, OwnerIsolation
    <3>3. QED
      BY <2>1, <3>1, <3>2
  <2>4. ASSUME NEW g \in Handlers, pc'[g] \in Writing
        PROVE  pc[g] = pc'[g] /\ job'[g] = job[g] /\ meta'[job[g]] = meta[job[g]]
    BY <2>1, <2>3, <2>4 DEF OwnerInv, TypeOK, Writing
  <2>5. QED
    BY <2>1, <2>2, <2>4 DEF KindInv, Writing
<1>3. ASSUME NEW h \in Handlers, NEW u \in Users, NEW j \in Jobs,
             CancelRead(h, u, j) \/ PublishRead(h, u, j)
      PROVE  Kept
  <2>1. /\ UNCHANGED meta /\ meta[j] # NoMeta
        /\ \E to \in Stages :
              /\ to = "cancel_write" => meta[j].kind = "notebook"
              /\ pc' = [pc EXCEPT ![h] = to]
        /\ job' = [job EXCEPT ![h] = j] /\ snap' = [snap EXCEPT ![h] = meta[j]]
    BY <1>3 DEF CancelRead, PublishRead, ReadOwned, Load, Transition, Stages
  <2>2. QED
    BY <2>1 DEF KindInv, Writing, OwnerInv, TypeOK
<1>4. ASSUME UNCHANGED meta,
             \A g \in Handlers : pc'[g] \in Writing =>
                 pc'[g] = pc[g] /\ job'[g] = job[g] /\ snap'[g] = snap[g]
      PROVE  Kept
  BY <1>4 DEF KindInv, Writing
<1>5. CASE UNCHANGED vars
  BY <1>4, <1>5 DEF vars, handlerVars
<1>6. ASSUME NEW h \in Handlers, Submission(h), \A j \in Jobs : ~ StoreMetadata(h, j) PROVE Kept
  BY <1>4, <1>6 DEF Submission, SubmitStart, ScanKey, QuotaReject, ApplyAsync, Accept, Finish,
     Transition, Writing, OwnerInv, TypeOK
<1>7. ASSUME NEW h \in Handlers, Status(h) PROVE Kept
  BY <1>4, <1>7 DEF Status, StatusCancelled, StatusRead, StatusReply, Load, Finish, handlerVars,
     Transition, Writing, OwnerInv, TypeOK
<1>8. ASSUME NEW h \in Handlers,
             CancelRevoke(h) \/ CancelReply(h) \/ PublishReply(h) \/ HandlerFails(h)
      PROVE  Kept
  BY <1>4, <1>8 DEF CancelRevoke, CancelReply, PublishReply, HandlerFails, Finish,
     Transition, Writing, OwnerInv, TypeOK
<1>9. ASSUME NEW j \in Jobs, WorkerExecutes(j) \/ WorkerReruns(j) PROVE Kept
  BY <1>4, <1>9 DEF WorkerExecutes, WorkerReruns, handlerVars
<1>10. QED
  BY <1>1, <1>2, <1>3, <1>5, <1>6, <1>7, <1>8, <1>9 DEF Next, Cancel, Publication, Submission

LEMMA KindInvariant == Spec => []KindInv
<1>1. Init => KindInv
  BY DEF Init, KindInv, Writing, Cancelled, Stored
<1>2. QED
  BY <1>1, KindStep, OwnerInvariant, PTL DEF Spec

\* A record, once stored, stays, with the owner and the kind it was stored with,
\* whatever older copies the routes write back.
THEOREM RecordsKeepOwnerAndKind == Spec => [][RecordsKept]_vars
<1>1. OwnerInv /\ KindInv /\ [Next]_vars => [RecordsKept]_vars
  BY KindStep
<1>2. QED
  BY <1>1, KindInvariant, OwnerInvariant, PTL DEF Spec

-----------------------------------------------------------------------------
(* What an answer of the service rests on.                                 *)

Answering == {"result", "cancel_write", "revoke", "cancel_audit", "publish_write", "publish_audit"}

AnswersAreBacked ==
    \A j \in Jobs :
        /\ told[j] # {} => j \in dispatched /\ "job.submitted" \in events[j]
        /\ "cancelled" \in told[j] /\ meta[j].kind = "science" => j \in revoked
        /\ "files.published" \in events[j] => result[j] = "SUCCESS"

\* What a handler knows of its job.
HandlersKnow ==
    \A h \in Handlers :
        /\ pc[h] = "audit" => job[h] \in dispatched
        /\ pc[h] \in Answering => told[job[h]] # {}
        /\ pc[h] = "cancel_audit" => job[h] \in revoked

AnswersInv ==
    /\ AnswersAreBacked
    /\ HandlersKnow
    /\ \A j \in Jobs : told[j] # {} => Stored(j)
    /\ \A j \in Jobs : result[j] = "REVOKED" => j \in revoked

\* What a worker stores: a revoked outcome is of a revoked job.
LEMMA OutcomeRevoked ==
    ASSUME OwnerInv, AnswersInv, NEW i \in Jobs, Execute(i) \/ Redelivered(i)
    PROVE  /\ \A j \in Jobs : result'[j] = "REVOKED" => j \in revoked'
           /\ \A j \in Jobs : result[j] = "SUCCESS" => result'[j] = "SUCCESS"
           /\ UNCHANGED <<dispatched, revoked>>
BY DEF OwnerInv, TypeOK, LifecycleTypeOK, AnswersInv, Execute, Start, Succeed, Fail, Withdraw,
       Redelivered, Rerun, LateOutcome, WithdrawAgain, Store

\* Every step keeps what answers rest on.
LEMMA AnswersStep ==
    ASSUME OwnerInv, OwnerInv', KindInv, KindInv', ToldInv, AnswersInv, [Next]_vars
    PROVE  AnswersInv'
<1> DEFINE Known == AnswersInv'
<1>0. RecordsKept
  BY KindStep
<1>1. ASSUME \A j \in Jobs : told[j] # {} => Stored(j)
      PROVE  \A j \in Jobs : told[j] # {} => Stored(j)' /\ meta'[j].kind = meta[j].kind
  BY <1>0, <1>1 DEF RecordsKept, SameRecord
<1> USE NoMetaAssumption, ServiceAssumption
    DEF AnswersInv, AnswersAreBacked, HandlersKnow, Answering, Stored, OwnerInv, HandlerOK,
        TypeOK, LifecycleTypeOK, Transition, lifecycleVars, handlerVars
<1>2. ASSUME NEW h \in Handlers, Submission(h) PROVE Known
  <2>1. ASSUME NEW u \in Users, NEW k \in Kinds, SubmitStart(h, u, k) PROVE Known
    BY <2>1 DEF SubmitStart
  <2>2. ASSUME NEW j \in Jobs, ScanKey(h, j) PROVE Known
    BY <2>2 DEF ScanKey
  <2>3. ASSUME NEW j \in Jobs, StoreMetadata(h, j) PROVE Known
    BY <1>0, <1>1, <2>3 DEF StoreMetadata, RecordsKept, SameRecord
  <2>4. CASE QuotaReject(h)
    BY <2>4 DEF QuotaReject, Finish
  <2>5. CASE ApplyAsync(h)
    BY <2>5 DEF ApplyAsync, Dispatch
  <2>6. CASE Accept(h)
    BY <2>6 DEF Accept, Finish, Tell, AppendEvent, OwnerIsolation
  <2>7. QED
    BY <1>2, <2>1, <2>2, <2>3, <2>4, <2>5, <2>6 DEF Submission
<1>3. ASSUME NEW h \in Handlers, Status(h) PROVE Known
  <2>1. ASSUME NEW u \in Users, NEW j \in Jobs, StatusCancelled(h, u, j) PROVE Known
    BY <2>1 DEF StatusCancelled, ReadOwned, Tell, KindInv, Cancelled
  <2>2. ASSUME NEW u \in Users, NEW j \in Jobs, StatusRead(h, u, j) PROVE Known
    BY <2>2 DEF StatusRead, ReadOwned, Load
  <2>3. CASE StatusReply(h)
    <3>1. job[h] \in Jobs /\ result[job[h]] \in States
      BY <2>3 DEF StatusReply
    <3>2. StateMap[result[job[h]]] = "cancelled" => result[job[h]] = "REVOKED"
      BY <3>1 DEF StateMap, States, ReadyStates
    <3>3. QED
      BY <2>3, <3>1, <3>2 DEF StatusReply, Tell, Finish
  <2>4. QED
    BY <1>3, <2>1, <2>2, <2>3 DEF Status
<1>4. ASSUME NEW h \in Handlers, Cancel(h) PROVE Known
  <2>1. ASSUME NEW u \in Users, NEW j \in Jobs, CancelRead(h, u, j) PROVE Known
    BY <2>1 DEF CancelRead, ReadOwned, Load
  <2>2. CASE CancelWrite(h)
    BY <1>0, <1>1, <2>2 DEF CancelWrite, RecordsKept, SameRecord
  <2>3. CASE CancelRevoke(h)
    BY <2>3 DEF CancelRevoke, Revoke
  <2>4. CASE CancelReply(h)
    BY <2>4 DEF CancelReply, Finish, Tell, AppendEvent
  <2>5. QED
    BY <1>4, <2>1, <2>2, <2>3, <2>4 DEF Cancel
<1>5. ASSUME NEW h \in Handlers, Publication(h) PROVE Known
  <2>1. ASSUME NEW u \in Users, NEW j \in Jobs, PublishRead(h, u, j) PROVE Known
    BY <2>1 DEF PublishRead, ReadOwned, Load
  <2>2. CASE PublishWrite(h)
    BY <1>0, <1>1, <2>2 DEF PublishWrite, RecordsKept, SameRecord
  <2>3. CASE PublishReply(h)
    BY <2>3 DEF PublishReply, Finish, Tell, AppendEvent, ToldInv
  <2>4. QED
    BY <1>5, <2>1, <2>2, <2>3 DEF Publication
<1>6. ASSUME NEW h \in Handlers, HandlerFails(h) PROVE Known
  BY <1>6 DEF HandlerFails, Finish
<1>7. ASSUME NEW j \in Jobs, WorkerExecutes(j) \/ WorkerReruns(j) PROVE Known
  BY <1>7, OutcomeRevoked DEF WorkerExecutes, WorkerReruns
<1>8. CASE UNCHANGED vars
  BY <1>8 DEF vars
<1>9. QED
  BY <1>2, <1>3, <1>4, <1>5, <1>6, <1>7, <1>8 DEF Next

\* Whatever the service has said of a job is backed by the queue or the audit
\* trail: the job was published and its submission recorded, a science job that
\* was called cancelled has been revoked, and recorded files are of a success.
\* Of a notebook only the flag is certain: its handler may end before the revoke.
THEOREM ServiceAnswersAreBacked == Spec => []AnswersAreBacked
<1>1. Init => ToldInv /\ AnswersInv
  BY DEF Init, LifecycleInit, ToldInv, ToldSuccessIsReal, AnswersInv, AnswersAreBacked,
     HandlersKnow, Answering
<1>2. Spec => []ToldInv
  BY <1>1, ToldStep, OwnerInvariant, PTL DEF Spec
<1>3. Spec => []AnswersInv
  BY <1>1, <1>2, AnswersStep, OwnerInvariant, KindInvariant, PTL DEF Spec
<1>4. AnswersInv => AnswersAreBacked
  BY DEF AnswersInv
<1>5. QED
  BY <1>3, <1>4, PTL

-----------------------------------------------------------------------------
(* The service drives the queue only as JobLifecycle allows.               *)

\* Whatever handlers do, jobs are submitted, revoked and executed as in the
\* lifecycle that the queue implements, so what holds of it holds here.
THEOREM ServiceKeepsLifecycle == Spec => LifecycleSpec
<1>1. Init => LifecycleInit
  BY DEF Init
<1>2. ASSUME OwnerInv, [Next]_vars PROVE [LifecycleNext]_lifecycleVars
  <2>1. ASSUME NEW h \in Handlers, ApplyAsync(h) \/ CancelRevoke(h) PROVE LifecycleNext
    <3>1. job[h] \in Jobs
      BY <1>2, <2>1 DEF ApplyAsync, CancelRevoke, Transition, OwnerInv, HandlerOK
    <3>2. Dispatch(job[h]) \/ Revoke(job[h])
      BY <2>1 DEF ApplyAsync, CancelRevoke
    <3>3. QED
      BY <3>1, <3>2 DEF LifecycleNext
  <2>2. ASSUME NEW j \in Jobs, WorkerExecutes(j) \/ WorkerReruns(j) PROVE LifecycleNext
    BY <2>2 DEF WorkerExecutes, WorkerReruns, LifecycleNext
  <2>3. CASE UNCHANGED lifecycleVars
    BY <2>3
  <2>4. \/ UNCHANGED lifecycleVars
        \/ \E h \in Handlers : ApplyAsync(h) \/ CancelRevoke(h)
        \/ \E j \in Jobs : WorkerExecutes(j) \/ WorkerReruns(j)
    BY <1>2 DEF Next, vars, Submission, SubmitStart, ScanKey, QuotaReject, StoreMetadata, Accept,
       Status, StatusCancelled, StatusRead, StatusReply, Cancel, CancelRead, CancelWrite,
       CancelReply, Publication, PublishRead, PublishWrite, PublishReply, HandlerFails
  <2>5. QED
    BY <2>1, <2>2, <2>3, <2>4
<1>3. QED
  BY <1>1, <1>2, OwnerInvariant, PTL DEF Spec, LifecycleSpec
=============================================================================
