------------------------------- MODULE Cleanup -------------------------------
(***************************************************************************)
(* Two-phase cleanup of stale worker outputs (service/app/cleanup.py).     *)
(*                                                                         *)
(* A preview stores the directories that are stale now under a token; an   *)
(* execution of that token removes them one by one, appending an audit     *)
(* event after each, and marks the token executed at the end.  Jobs go on  *)
(* writing to the same tree, POST /v1/cleanup runs in several threads of   *)
(* two processes, and a thread may die or meet an error between steps.     *)
(*                                                                         *)
(* Outputs live in <output_root>/<user>/<job>.  The tool-version root has  *)
(* the same treatment and nothing writes to it; OpenWebUI file ids, which  *)
(* pass through a preview, belong to the Tool.                             *)
(***************************************************************************)
EXTENDS Integers, FiniteSets

CONSTANTS Users,         \* owners of outputs: the first-level directories
          Outputs,       \* job output directories
          OwnerOf,       \* the user directory that holds each output
          Admins,        \* callers with the OpenWebUI admin role
          Tokens,        \* preview tokens
          Sessions,      \* threads that serve an execute request
          Ages,          \* values of older_than_hours in preview requests
          MinAge,        \* settings.cleanup_min_age_hours
          PreviewTtl,    \* settings.cleanup_preview_ttl_seconds
          JobSpan,       \* how long after its creation a job may write to its output
          MaxTime,       \* bound on the clock
          MaxFaults,     \* bound on dying and failing executions
          NoPreview, NoToken, NoPath

Paths == Users \union Outputs

\* mtime of a directory that does not exist.
Absent == -1

ASSUME CleanupAssumption ==
    /\ Users \intersect Outputs = {}
    /\ OwnerOf \in [Outputs -> Users]
    /\ Ages \subseteq Nat
    /\ MinAge \in Nat /\ PreviewTtl \in Nat /\ JobSpan \in Nat
    /\ MaxTime \in Nat /\ MaxFaults \in Nat
    /\ NoToken \notin Tokens /\ NoPath \notin Paths
    /\ IsFiniteSet(Sessions)

Times == 0 .. MaxTime

\* A row of cleanup_preview; "made" is when its targets were listed.
Preview == [admin : Admins, targets : SUBSET Paths, made : Times, executed : BOOLEAN]

ASSUME NoPreviewAssumption == NoPreview \notin Preview

VARIABLES clock,
          mtime,         \* modification time of each directory, or Absent
          born,          \* history: when each output was first written
          preview,       \* table cleanup_preview
          pc,            \* where each execution is
          token,         \* the token a session executes
          left,          \* targets it has still to look at
          target,        \* the target it is at
          removed,       \* history: tokens and targets that were removed, also in part
          events,        \* "cleanup.deleted" audit events, by token and path
          runs,          \* history: completed executions of each token
          faults

sessionVars == <<pc, token, left, target>>
vars == <<clock, mtime, born, preview, sessionVars, removed, events, runs, faults>>

Stages == {"idle", "removing", "inspected", "audit"}

TypeOK ==
    /\ clock \in Times
    /\ mtime \in [Paths -> Times \union {Absent}]
    /\ born \in [Outputs -> Times \union {Absent}]
    /\ preview \in [Tokens -> Preview \union {NoPreview}]
    /\ pc \in [Sessions -> Stages]
    /\ token \in [Sessions -> Tokens \union {NoToken}]
    /\ left \in [Sessions -> SUBSET Paths]
    /\ target \in [Sessions -> Paths \union {NoPath}]
    /\ removed \in SUBSET (Tokens \X Paths)
    /\ events \in SUBSET (Tokens \X Paths)
    /\ runs \in [Tokens -> Nat]
    /\ faults \in 0 .. MaxFaults

Init ==
    /\ clock = 0
    /\ mtime = [p \in Paths |-> Absent]
    /\ born = [o \in Outputs |-> Absent]
    /\ preview = [t \in Tokens |-> NoPreview]
    /\ pc = [s \in Sessions |-> "idle"]
    /\ token = [s \in Sessions |-> NoToken]
    /\ left = [s \in Sessions |-> {}]
    /\ target = [s \in Sessions |-> NoPath]
    /\ removed = {}
    /\ events = {}
    /\ runs = [t \in Tokens |-> 0]
    /\ faults = 0

-----------------------------------------------------------------------------

Exists(p) == mtime[p] # Absent
Below(p) == {o \in Outputs : o = p \/ OwnerOf[o] = p}
Children(u) == {o \in Outputs : OwnerOf[o] = u /\ Exists(o)}

Tick ==
    /\ clock < MaxTime
    /\ clock' = clock + 1
    /\ UNCHANGED <<mtime, born, preview, sessionVars, removed, events, runs, faults>>

\* A worker creates its output directory or a new entry of it, during a first
\* run or a redelivered one; a new directory touches the user's.  Writing to
\* a file that exists leaves the directory's time alone and is no step here.
WriteOutput(o) ==
    /\ born[o] = Absent \/ clock <= born[o] + JobSpan
    /\ born' = [born EXCEPT ![o] = IF @ = Absent THEN clock ELSE @]
    /\ mtime' = [p \in Paths |->
                    IF p = o \/ (p = OwnerOf[o] /\ ~ Exists(o)) THEN clock ELSE mtime[p]]
    /\ UNCHANGED <<clock, preview, sessionVars, removed, events, runs, faults>>

-----------------------------------------------------------------------------
(* run_cleanup, action "preview".                                          *)

\* Fault variant of Candidates: a user's directory along with its outputs.
CandidatesAll == {p \in Paths : Exists(p)}

\* Every output; a user's directory only when it holds none.
Candidates ==
    {o \in Outputs : Exists(o)} \union {u \in Users : Exists(u) /\ Children(u) = {}}

\* Fault variant of Stale: the requested age is taken as it is.
StaleAsRequested(age) == {p \in Candidates : mtime[p] < clock - age}

\* The configured minimum age limits the requested one from below.
Stale(age) ==
    LET hours == IF age < MinAge THEN MinAge ELSE age
    IN  {p \in Candidates : mtime[p] < clock - hours}

CreatePreview(a, t, age) ==
    /\ preview[t] = NoPreview
    /\ preview' = [preview EXCEPT ![t] = [admin |-> a, targets |-> Stale(age),
                                          made |-> clock, executed |-> FALSE]]
    /\ UNCHANGED <<clock, mtime, born, sessionVars, removed, events, runs, faults>>

-----------------------------------------------------------------------------
(* run_cleanup, action "execute".                                          *)

\* A token of this admin, not expired, not marked executed.
Executable(t, a) ==
    /\ preview[t] # NoPreview
    /\ preview[t].admin = a
    /\ clock <= preview[t].made + PreviewTtl
    /\ ~ preview[t].executed

StartExecute(s, a, t) ==
    /\ pc[s] = "idle"
    /\ Executable(t, a)
    /\ pc' = [pc EXCEPT ![s] = "removing"]
    /\ token' = [token EXCEPT ![s] = t]
    /\ left' = [left EXCEPT ![s] = preview[t].targets]
    /\ UNCHANGED <<clock, mtime, born, preview, target, removed, events, runs, faults>>

\* target.is_dir(): a directory that is gone is passed over.
Inspect(s, p) ==
    /\ pc[s] = "removing"
    /\ p \in left[s]
    /\ left' = [left EXCEPT ![s] = @ \ {p}]
    /\ IF Exists(p)
          THEN /\ pc' = [pc EXCEPT ![s] = "inspected"]
               /\ target' = [target EXCEPT ![s] = p]
          ELSE UNCHANGED <<pc, target>>
    /\ UNCHANGED <<clock, mtime, born, preview, token, removed, events, runs, faults>>

\* shutil.rmtree takes whatever is below by now, and touches the parent.
Unlink(p) ==
    [q \in Paths |-> IF q = p \/ q \in Below(p) THEN Absent
                     ELSE IF p \in Outputs /\ q = OwnerOf[p] THEN clock
                     ELSE mtime[q]]

Remove(s) ==
    /\ pc[s] = "inspected"
    /\ Exists(target[s])
    /\ mtime' = Unlink(target[s])
    /\ removed' = removed \union {<<token[s], target[s]>>}
    /\ pc' = [pc EXCEPT ![s] = "audit"]
    /\ UNCHANGED <<clock, born, preview, token, left, target, events, runs, faults>>

\* Fault variant of AuditDeletion: deletions are not recorded.
AuditDeletionNot(s) ==
    /\ pc[s] = "audit"
    /\ pc' = [pc EXCEPT ![s] = "removing"]
    /\ target' = [target EXCEPT ![s] = NoPath]
    /\ UNCHANGED <<clock, mtime, born, preview, token, left, removed, events, runs, faults>>

AuditDeletion(s) ==
    /\ pc[s] = "audit"
    /\ events' = events \union {<<token[s], target[s]>>}
    /\ pc' = [pc EXCEPT ![s] = "removing"]
    /\ target' = [target EXCEPT ![s] = NoPath]
    /\ UNCHANGED <<clock, mtime, born, preview, token, left, removed, runs, faults>>

EndSession(s) ==
    /\ pc' = [pc EXCEPT ![s] = "idle"]
    /\ token' = [token EXCEPT ![s] = NoToken]
    /\ left' = [left EXCEPT ![s] = {}]
    /\ target' = [target EXCEPT ![s] = NoPath]

\* Another session has removed the target in between: rmtree raises, HTTP 500.
TargetGone(s) ==
    /\ pc[s] = "inspected"
    /\ ~ Exists(target[s])
    /\ EndSession(s)
    /\ UNCHANGED <<clock, mtime, born, preview, removed, events, runs, faults>>

\* Fault variant of MarkExecuted: the row is left as it is.
MarkExecutedNot(s) ==
    /\ pc[s] = "removing"
    /\ left[s] = {}
    /\ runs' = [runs EXCEPT ![token[s]] = @ + 1]
    /\ EndSession(s)
    /\ UNCHANGED <<clock, mtime, born, preview, removed, events, faults>>

MarkExecuted(s) ==
    /\ pc[s] = "removing"
    /\ left[s] = {}
    /\ preview' = [preview EXCEPT ![token[s]].executed = TRUE]
    /\ runs' = [runs EXCEPT ![token[s]] = @ + 1]
    /\ EndSession(s)
    /\ UNCHANGED <<clock, mtime, born, removed, events, faults>>

\* The process dies or the audit database fails: the transaction rolls back.
SessionFails(s) ==
    /\ pc[s] # "idle"
    /\ faults < MaxFaults
    /\ faults' = faults + 1
    /\ EndSession(s)
    /\ UNCHANGED <<clock, mtime, born, preview, removed, events, runs>>

\* rmtree meets an error after it has taken some of the entries: the target is
\* removed in part.
RemoveFails(s) ==
    /\ pc[s] = "inspected"
    /\ Exists(target[s])
    /\ faults < MaxFaults
    /\ faults' = faults + 1
    /\ \E gone \in SUBSET (Below(target[s]) \ {target[s]}) :
          mtime' = [p \in Paths |-> IF p \in gone THEN Absent
                                    ELSE IF p = target[s] THEN clock ELSE mtime[p]]
    /\ removed' = removed \union {<<token[s], target[s]>>}
    /\ EndSession(s)
    /\ UNCHANGED <<clock, born, preview, events, runs>>

Execution(s) ==
    \/ \E a \in Admins, t \in Tokens : StartExecute(s, a, t)
    \/ \E p \in Paths : Inspect(s, p)
    \/ Remove(s)
    \/ AuditDeletion(s)
    \/ TargetGone(s)
    \/ MarkExecuted(s)
    \/ SessionFails(s)
    \/ RemoveFails(s)

Next ==
    \/ Tick
    \/ \E o \in Outputs : WriteOutput(o)
    \/ \E a \in Admins, t \in Tokens, age \in Ages : CreatePreview(a, t, age)
    \/ \E s \in Sessions : Execution(s)

Spec == Init /\ [][Next]_vars

-----------------------------------------------------------------------------
(* Properties.                                                             *)

\* An output disappears only through an execution whose preview listed it, or
\* listed its user's then empty directory before the output was written: an
\* output that was there and not listed survives every execution.
ListedOrNew ==
    [][\A o \in Outputs : Exists(o) /\ ~ Exists(o)' =>
          \E s \in Sessions :
             /\ pc[s] = "inspected"
             /\ LET row == preview[token[s]]
                IN  \/ o \in row.targets
                    \/ OwnerOf[o] \in row.targets /\ mtime[o] >= row.made]_vars

\* What the preview listed is old: an output that is removed had got no entry
\* for MinAge when it was listed, unless it has got one since.
OldWhenListed ==
    [][\A o \in Outputs : Exists(o) /\ ~ Exists(o)' =>
          \E s \in Sessions :
             LET row == preview[token[s]]
             IN  /\ pc[s] = "inspected"
                 /\ mtime[o] >= row.made \/ mtime[o] < row.made - MinAge]_vars

\* Removals without an audit event that no session is about to append.
Unrecorded ==
    LET pending == {s \in Sessions : pc[s] = "audit"}
    IN  (removed \ events) \ {<<token[s], target[s]>> : s \in pending}

\* cleanup.py:84-85, "every real deletion is appended to audit": each failed
\* execution leaves at most one removal, whole or in part, unrecorded, and
\* nothing else does.
DeletionsAudited == Cardinality(Unrecorded) <= faults

\* The check of "executed" precedes the removals and the mark follows them, so
\* a token can be executed by all the threads at once, but never again once the
\* sessions that had passed the check are through.
ExecutionsBounded == \A t \in Tokens : runs[t] <= Cardinality(Sessions)
=============================================================================
