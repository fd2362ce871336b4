------------------------------ MODULE JobTimes ------------------------------
(***************************************************************************)
(* The deadlines in the life of one job: the hard limit of its kind and    *)
(* the timeout of its ISIS3 subprocess (celery_app.py, isis.py), the       *)
(* broker's visibility timeout, the retention of metadata and result       *)
(* (api.py, celery_app.py) and the minimum age of the cleanup.  The        *)
(* timeout of the subprocess ends the wrapper only: an ISIS3 program it    *)
(* started, or the wrapper of a pool process that was killed, works on.    *)
(*                                                                         *)
(* Time passes in steps between which anything may happen; a deadline      *)
(* holds the next step back until what it ends has ended.  Timers count    *)
(* ages or remaining lifetimes, so that no clock has to be bounded.        *)
(***************************************************************************)
EXTENDS Integers, FiniteSets

CONSTANTS Kinds,         \* kinds of job; workflow has the limits of isis3
          Slots,         \* pool processes of the queue's workers
          JobLimit, IsisLimit, NotebookLimit,   \* hard limits (config.py)
          Visibility,    \* unacknowledged messages are restored after this
          Retention,     \* seven days: metadata and result
          MinAge         \* settings.cleanup_min_age_hours

ASSUME TimesAssumption ==
    /\ Kinds \subseteq {"planetir", "isis3", "notebook"}
    /\ Slots \intersect {"queue", "acknowledged"} = {}
    /\ \A n \in {JobLimit, IsisLimit, NotebookLimit, Visibility, Retention, MinAge} :
          n \in Nat \ {0}
    /\ \A n \in {JobLimit, NotebookLimit} : n <= IsisLimit

VARIABLES kind,
          message,       \* where it is: the queue, the slot that owes the ack, or acknowledged
          run,           \* what each slot executes
          deliveries,    \* history: 0, 1, or 2 for more
          metadata,      \* remaining lifetime of the job's record in Redis, 0 if gone
          cancelled,     \* its flag
          renewed,       \* history: the record was written after the submission
          result,        \* Celery state and its remaining lifetime
          orphaned,      \* a wrapper or ISIS3 program has outlived its run and works on
          output,        \* age of the output directory
          listings,      \* previews not executed yet: written to since the listing, or not
          swept          \* history: the cleanup removed what was written since the listing

cleanupVars == <<listings, swept>>
vars == <<kind, message, run, deliveries, metadata, cancelled, renewed, result, orphaned,
          output, cleanupVars>>

Off == [on |-> FALSE, age |-> 0, isis |-> FALSE]
Absent == -1
NoResult == [state |-> "PENDING", ttl |-> 0]
Active == {s \in Slots : run[s].on}
WithIsis == {s \in Slots : run[s].isis}

TypeOK ==
    /\ kind \in Kinds
    /\ message \in Slots \union {"queue", "acknowledged"}
    /\ run \in [Slots -> [on : BOOLEAN, age : 0 .. IsisLimit, isis : BOOLEAN]]
    /\ deliveries \in 0 .. 2
    /\ metadata \in 0 .. Retention
    /\ cancelled \in BOOLEAN /\ renewed \in BOOLEAN
    /\ result \in [state : {"PENDING", "STARTED", "SUCCESS", "FAILURE"}, ttl : 0 .. Retention]
    /\ orphaned \in BOOLEAN
    /\ output \in Absent .. MinAge + 1
    /\ listings \in SUBSET {"unchanged", "written"} /\ swept \in BOOLEAN

\* The record is SET, then the message published.
Init ==
    /\ kind \in Kinds
    /\ message = "queue"
    /\ run = [s \in Slots |-> Off]
    /\ deliveries = 0
    /\ metadata = Retention
    /\ cancelled = FALSE /\ renewed = FALSE
    /\ result = NoResult
    /\ orphaned = FALSE
    /\ output = Absent
    /\ listings = {} /\ swept = FALSE

-----------------------------------------------------------------------------

Limit == CASE kind = "planetir" -> JobLimit
           [] kind = "isis3" -> IsisLimit
           [] kind = "notebook" -> NotebookLimit

\* Fault variant of IsisTimeout: the limit of the task the subprocess is in.
IsisTimeoutOfTask == IsisLimit

\* subprocess.run has the general limit.
IsisTimeout == JobLimit

\* Fault variant of ResultExpires: the default of Celery, one day.
ResultExpiresDefault == 1

ResultExpires == Retention

Older(age, cap) == IF age < cap THEN age + 1 ELSE age
Shorter(ttl) == IF ttl > 0 THEN ttl - 1 ELSE 0

\* Nobody outlives its deadline.
Tick ==
    /\ \A s \in Active : run[s].age < (IF run[s].isis THEN IsisTimeout ELSE Limit)
    /\ run' = [s \in Slots |-> IF run[s].on THEN [run[s] EXCEPT !.age = @ + 1] ELSE Off]
    /\ metadata' = Shorter(metadata)
    /\ cancelled' = (cancelled /\ metadata > 1)
    /\ result' = IF result.ttl > 1 THEN [result EXCEPT !.ttl = @ - 1] ELSE NoResult
    /\ output' = IF output = Absent THEN Absent ELSE Older(output, MinAge + 1)
    /\ UNCHANGED <<kind, message, deliveries, renewed, orphaned, cleanupVars>>

\* Each store renews the lifetime, but nothing is stored over a success.
Store(state) ==
    result' = IF result.state = "SUCCESS" THEN result ELSE [state |-> state, ttl |-> ResultExpires]

\* The run starts at once; an isis3 job with its subprocess.
Deliver(s) ==
    /\ message = "queue"
    /\ ~ run[s].on
    /\ message' = s
    /\ run' = [run EXCEPT ![s] = [on |-> TRUE, age |-> 0, isis |-> kind = "isis3"]]
    /\ deliveries' = Older(deliveries, 2)
    /\ Store("STARTED")
    /\ UNCHANGED <<kind, metadata, cancelled, renewed, orphaned, output, cleanupVars>>

\* The directory, or a new entry in it.
MakeEntry ==
    /\ output' = 0
    /\ listings' = IF listings = {} THEN {} ELSE {"written"}

Write(s) ==
    /\ run[s].on
    /\ MakeEntry
    /\ UNCHANGED <<kind, message, run, deliveries, metadata, cancelled, renewed, result,
                   orphaned, swept>>

\* The wrapper has waited for its programs and returned; the task goes on.
EndIsis(s) ==
    /\ run[s].isis
    /\ run' = [run EXCEPT ![s].isis = FALSE]
    /\ UNCHANGED <<kind, message, deliveries, metadata, cancelled, renewed, result, orphaned,
                   output, cleanupVars>>

\* Returned, raised (also at a timeout or the soft limit), or killed at the
\* hard limit; the ack does nothing once the message was given out again.  A
\* timeout kills the wrapper and not its program, a killed run neither.
EndRun(s) ==
    /\ run[s].on
    /\ run' = [run EXCEPT ![s] = Off]
    /\ orphaned' \in {orphaned, orphaned \/ run[s].isis}
    /\ Store("FAILURE") \/ (~ run[s].isis /\ output # Absent /\ Store("SUCCESS"))
    /\ message' = IF message = s THEN "acknowledged" ELSE message
    /\ UNCHANGED <<kind, deliveries, metadata, cancelled, renewed, output, cleanupVars>>

\* What has outlived its run goes on with the stages, as long as it likes.
OrphanWrites ==
    /\ orphaned /\ output # Absent
    /\ MakeEntry
    /\ UNCHANGED <<kind, message, run, deliveries, metadata, cancelled, renewed, result,
                   orphaned, swept>>

OrphanEnds ==
    /\ orphaned
    /\ orphaned' = FALSE
    /\ UNCHANGED <<kind, message, run, deliveries, metadata, cancelled, renewed, result, output,
                   cleanupVars>>

\* Fault variant of Restore: a visibility timeout of half the length.
RestoreEarly(s) ==
    /\ message = s
    /\ 2 * run[s].age >= Visibility
    /\ message' = "queue"
    /\ UNCHANGED <<kind, run, deliveries, metadata, cancelled, renewed, result, orphaned,
                   output, cleanupVars>>

\* The Redis transport restores a message that is not acknowledged in time.
Restore(s) ==
    /\ message = s
    /\ run[s].age >= Visibility
    /\ message' = "queue"
    /\ UNCHANGED <<kind, run, deliveries, metadata, cancelled, renewed, result, orphaned,
                   output, cleanupVars>>

\* Cancelling a notebook job writes its record, with the full lifetime again.
Cancel ==
    /\ kind = "notebook" /\ metadata > 0
    /\ metadata' = Retention
    /\ cancelled' = TRUE /\ renewed' = TRUE
    /\ UNCHANGED <<kind, message, run, deliveries, result, orphaned, output, cleanupVars>>

\* So does the publication of a success.
Publish ==
    /\ metadata > 0 /\ ~ cancelled /\ result.state = "SUCCESS"
    /\ metadata' = Retention
    /\ renewed' = TRUE
    /\ UNCHANGED <<kind, message, run, deliveries, cancelled, result, orphaned, output,
                   cleanupVars>>

\* Fault variant of Stale: the oldest age that is not stale.
StaleAt == output = Absent \/ output >= MinAge

\* Listed is what is older than the cutoff, whatever the job does at that time,
\* or the user's directory as long as no output is in it.  (The empty directory
\* has to be old itself, which depends on the user's other jobs.)
Stale == output = Absent \/ output > MinAge

PreviewLists ==
    /\ Stale
    /\ listings' = listings \union {"unchanged"}
    /\ UNCHANGED <<kind, message, run, deliveries, metadata, cancelled, renewed, result,
                   orphaned, output, swept>>

\* The preview expires before it is executed.
PreviewLapses(l) ==
    /\ l \in listings
    /\ listings' = listings \ {l}
    /\ UNCHANGED <<kind, message, run, deliveries, metadata, cancelled, renewed, result,
                   orphaned, output, swept>>

\* An execution removes what is in the listed directory by now, without another
\* look at its age; another preview may still list it.
CleanupRemoves(l) ==
    /\ l \in listings /\ output # Absent
    /\ output' = Absent
    /\ listings' \in {listings, listings \ {l}}
    /\ swept' = (swept \/ l = "written")
    /\ UNCHANGED <<kind, message, run, deliveries, metadata, cancelled, renewed, result, orphaned>>

Next ==
    \/ Tick
    \/ \E s \in Slots : Deliver(s) \/ Write(s) \/ EndIsis(s) \/ EndRun(s) \/ Restore(s)
    \/ OrphanWrites \/ OrphanEnds
    \/ Cancel \/ Publish
    \/ PreviewLists
    \/ \E l \in {"unchanged", "written"} : PreviewLapses(l) \/ CleanupRemoves(l)

Spec == Init /\ [][Next]_vars

\* Time goes on, runs end at their deadlines and a free process takes a message.
FairSpec ==
    /\ Spec
    /\ WF_vars(Tick)
    /\ \A s \in Slots : WF_vars(Deliver(s)) /\ WF_vars(EndRun(s))

-----------------------------------------------------------------------------
(* Properties.                                                             *)

\* How many runs of a job are possible at once: each of them has kept its
\* message for the visibility timeout before the next one began, and ends at
\* the hard limit (7200 s against 3600 s for isis3 and workflow).
OverlapBound == Cardinality(Active) <= Limit \div Visibility + 1

\* The timeout of the subprocess (isis.py:67) is the general limit, not that of
\* the isis3 task: redelivered runs overlap for an hour, but of the ISIS3
\* wrappers they wait for, one at most works for any time.  Wherever two ISIS3
\* runs do write to the same destination side by side, which happens, one of
\* them has outlived the run that started it.
OneAttended ==
    \A s, t \in WithIsis : s # t => run[s].age = 0 \/ run[t].age = 0

\* Status calls a finished job "queued" (api.py:175-183: the result is gone, the
\* record is not) only when the record was written again after the submission:
\* the result was stored later than the record and lives as long.
QueuedMeansQueued ==
    deliveries > 0 /\ metadata > 0 /\ ~ cancelled /\ result.state = "PENDING" => renewed

\* A success whose artifacts the cleanup has removed is about to expire itself:
\* with the limits of config.py within the time a run may take, unless a second
\* run of the job stored it without touching the directory, or an execution
\* removed what was not there when its preview listed the directory.
ArtifactsOutliveSuccess ==
    result.state = "SUCCESS" /\ output = Absent /\ deliveries = 1 /\ ~ swept
        => result.ttl <= Limit + Retention - MinAge - 1

\* Deliveries end, unless runs reach the visibility timeout again and again.
DeliveriesEnd ==
    \/ []<>(\E s \in Slots : run[s].age >= Visibility)
    \/ <>[](Active = {} /\ message = "acknowledged")
=============================================================================
