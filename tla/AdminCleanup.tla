---------------------------- MODULE AdminCleanup ----------------------------
(***************************************************************************)
(* The administrator's cleanup Tool (openwebui_tools/admin_cleanup.py) as  *)
(* the client of the cleanup service: it adds to a preview the OpenWebUI   *)
(* files of old jobs, and deletes them, one by one, when the service has   *)
(* answered that the preview is executed; then it records what it did.     *)
(*                                                                         *)
(* The request may time out while the service goes on, two calls may       *)
(* execute one preview, and a call may be stopped or fail anywhere.  The   *)
(* file router of OpenWebUI commits the deletion of a row before it        *)
(* deletes the stored content (open_webui/routers/files.py).  The cleanup  *)
(* graph of orchestrator.py is the service's other client.                 *)
(***************************************************************************)
EXTENDS Cleanup

CONSTANTS Files,         \* OpenWebUI files with a sacai_job_id
          CreatedAt,     \* when each was registered
          ValveAge       \* valves.minimum_age_hours

\* The Tool asks for at least the age of its valve.
ASSUME ToolAssumption ==
    /\ CreatedAt \in [Files -> Nat] /\ IsFiniteSet(Files)
    /\ ValveAge \in Ages

VARIABLES fileIds,       \* file_ids in each row of cleanup_preview
          call,          \* the Tool call each session answers to
          rows, stored,  \* rows of OpenWebUI's file table, and contents
          fileEvents,    \* "cleanup.openwebui_files_deleted" events: token, file, deleted or failed
          lost           \* history: files whose call stopped before it recorded them

toolVars == <<fileIds, call, rows, stored, fileEvents, lost>>
allVars == <<vars, toolVars>>

Outcomes == {"deleted", "failed"}
\* "at" is the set of at most one file that the router has found; when it is
\* "rowless" its row is deleted and its content is not yet.
NoCall == [stage |-> "none", token |-> NoToken, todo |-> {}, at |-> {}, rowless |-> FALSE,
           done |-> {}]

ToolTypeOK ==
    /\ fileIds \in [Tokens -> SUBSET Files]
    /\ call \in [Sessions -> [stage : {"none", "waiting", "deleting"}, token : Tokens \union {NoToken},
                              todo : SUBSET Files, at : SUBSET Files, rowless : BOOLEAN,
                              done : SUBSET (Files \X Outcomes)]]
    /\ \A s \in Sessions : \A f, g \in call[s].at : f = g
    /\ rows \in SUBSET Files /\ stored \in SUBSET Files
    /\ fileEvents \in SUBSET (Tokens \X Files \X Outcomes)
    /\ lost \in SUBSET Files

ToolInit ==
    /\ Init
    /\ fileIds = [t \in Tokens |-> {}]
    /\ call = [s \in Sessions |-> NoCall]
    /\ rows = Files /\ stored = Files
    /\ fileEvents = {}
    /\ lost = {}

-----------------------------------------------------------------------------

\* Fault variant of StaleFiles: the requested age is taken as it is.
StaleFilesAsRequested(age) == {f \in rows : CreatedAt[f] < clock - age}

StaleFiles(age) ==
    LET hours == IF age < ValveAge THEN ValveAge ELSE age
    IN  {f \in rows : CreatedAt[f] < clock - hours}

ToolPreview(a, t, age) ==
    /\ CreatePreview(a, t, IF age < ValveAge THEN ValveAge ELSE age)
    /\ fileIds' = [fileIds EXCEPT ![t] = StaleFiles(age)]
    /\ UNCHANGED <<call, rows, stored, fileEvents, lost>>

ToolExecute(s, a, t) ==
    /\ call[s].stage = "none"
    /\ StartExecute(s, a, t)
    /\ call' = [call EXCEPT ![s] = [NoCall EXCEPT !.stage = "waiting", !.token = t]]
    /\ UNCHANGED <<fileIds, rows, stored, fileEvents, lost>>

\* The graph's preview node lists no files; then its thread is interrupted.
GraphPreview(a, t, age) == CreatePreview(a, t, age) /\ UNCHANGED toolVars

\* Resumed with the token of its preview (any other raises): no Tool waits.
GraphExecute(s, t) ==
    /\ call[s].stage = "none" /\ fileIds[t] = {}
    /\ \E a \in Admins : StartExecute(s, a, t)
    /\ UNCHANGED toolVars

\* request_timeout_seconds, or the chat is stopped; the session goes on.
RequestTimesOut(s) ==
    /\ call[s].stage = "waiting"
    /\ call' = [call EXCEPT ![s] = NoCall]
    /\ UNCHANGED <<vars, fileIds, rows, stored, fileEvents, lost>>

FilesOf(t) == fileIds[t]

\* The service answers the call that still waits with the preview's file ids.
ServiceAnswers(s) ==
    /\ MarkExecuted(s)
    /\ call' = IF call[s].stage = "waiting"
                  THEN [call EXCEPT ![s].stage = "deleting", ![s].todo = FilesOf(token[s])]
                  ELSE call
    /\ UNCHANGED <<fileIds, rows, stored, fileEvents, lost>>

ServiceFails(s) ==
    /\ TargetGone(s) \/ SessionFails(s) \/ RemoveFails(s)
    /\ call' = [call EXCEPT ![s] = NoCall]
    /\ UNCHANGED <<fileIds, rows, stored, fileEvents, lost>>

ServiceGoesOn(s) ==
    /\ (\E p \in Paths : Inspect(s, p)) \/ Remove(s) \/ AuditDeletion(s)
    /\ UNCHANGED toolVars

\* The router looks the row up; without one it raises.
FindFile(s, f) ==
    /\ call[s].stage = "deleting" /\ call[s].at = {}
    /\ f \in call[s].todo
    /\ call' = [call EXCEPT ![s].todo = @ \ {f},
                            ![s].at = IF f \in rows THEN {f} ELSE {},
                            ![s].done = IF f \in rows THEN @ ELSE @ \union {<<f, "failed">>}]
    /\ UNCHANGED <<vars, fileIds, rows, stored, fileEvents, lost>>

\* The row's deletion is committed, and succeeds if another call was faster.
DeleteRow(s, f) ==
    /\ f \in call[s].at /\ ~ call[s].rowless
    /\ rows' = rows \ {f}
    /\ call' = [call EXCEPT ![s].rowless = TRUE]
    /\ UNCHANGED <<vars, fileIds, stored, fileEvents, lost>>

\* The file that a call has in hand is treated.
Treat(s, f, outcome) ==
    call' = [call EXCEPT ![s].at = {}, ![s].rowless = FALSE, ![s].done = @ \union {<<f, outcome>>}]

\* Fault variant of DeleteContent: the content is left to somebody else.
DeleteContentNot(s, f) ==
    /\ f \in call[s].at /\ call[s].rowless
    /\ Treat(s, f, "deleted")
    /\ UNCHANGED <<vars, fileIds, rows, stored, fileEvents, lost>>

\* A content that is gone already is no error.
DeleteContent(s, f) ==
    /\ f \in call[s].at /\ call[s].rowless
    /\ stored' = stored \ {f}
    /\ Treat(s, f, "deleted")
    /\ UNCHANGED <<vars, fileIds, rows, fileEvents, lost>>

\* The database refuses, or the storage before or the vector store after the
\* content is deleted: the router raises, and the Tool goes on.
DeletionFails(s, f) ==
    /\ f \in call[s].at
    /\ faults < MaxFaults
    /\ faults' = faults + 1
    /\ stored' = stored \/ (call[s].rowless /\ stored' = stored \ {f})
    /\ Treat(s, f, "failed")
    /\ UNCHANGED <<clock, mtime, born, preview, sessionVars, removed, events, runs,
                   fileIds, rows, fileEvents, lost>>

\* Fault variant of AuditFiles: files that failed are not recorded.
AuditFilesDeleted(s) ==
    /\ call[s].stage = "deleting" /\ call[s].at = {} /\ call[s].todo = {}
    /\ fileEvents' = fileEvents \union
          {<<call[s].token, d[1], d[2]>> : d \in {e \in call[s].done : e[2] = "deleted"}}
    /\ call' = [call EXCEPT ![s] = NoCall]
    /\ UNCHANGED <<vars, fileIds, rows, stored, lost>>

AuditFiles(s) ==
    /\ call[s].stage = "deleting" /\ call[s].at = {} /\ call[s].todo = {}
    /\ fileEvents' = fileEvents \union {<<call[s].token, d[1], d[2]>> : d \in call[s].done}
    /\ call' = [call EXCEPT ![s] = NoCall]
    /\ UNCHANGED <<vars, fileIds, rows, stored, lost>>

Treated(s) == {d[1] : d \in call[s].done}
InHand(s) == IF call[s].rowless THEN call[s].at ELSE {}

\* The chat is stopped, the process ends, or the request that records the
\* deletions fails.  (A storage thread that is at work finishes: DeleteContent.)
CallStops(s) ==
    /\ call[s].stage = "deleting"
    /\ faults < MaxFaults
    /\ faults' = faults + 1
    /\ lost' = lost \union Treated(s) \union InHand(s)
    /\ call' = [call EXCEPT ![s] = NoCall]
    /\ UNCHANGED <<clock, mtime, born, preview, sessionVars, removed, events, runs,
                   fileIds, rows, stored, fileEvents>>

ToolNext ==
    \/ (Tick \/ \E o \in Outputs : WriteOutput(o)) /\ UNCHANGED toolVars
    \/ \E a \in Admins, t \in Tokens :
          \/ \E age \in Ages : ToolPreview(a, t, age) \/ GraphPreview(a, t, age)
          \/ \E s \in Sessions : ToolExecute(s, a, t)
    \/ \E s \in Sessions :
          \/ \E t \in Tokens : GraphExecute(s, t)
          \/ RequestTimesOut(s) \/ ServiceAnswers(s) \/ ServiceFails(s) \/ ServiceGoesOn(s)
          \/ \E f \in Files :
                FindFile(s, f) \/ DeleteRow(s, f) \/ DeleteContent(s, f) \/ DeletionFails(s, f)
          \/ AuditFiles(s) \/ CallStops(s)

ToolSpec == ToolInit /\ [][ToolNext]_allVars

-----------------------------------------------------------------------------
(* Properties.                                                             *)

\* admin_cleanup.py:91, "can delete only those same targets": a file's row goes
\* only in a call whose preview listed it when it was old, and whose outputs
\* have been removed by a completed execution before.
OnlyApprovedFiles ==
    [][\A f \in rows \ rows' :
          \E s \in Sessions :
             LET t == call[s].token
             IN  /\ call[s].stage = "deleting"
                 /\ runs[t] > 0 /\ preview[t].executed
                 /\ f \in fileIds[t] /\ CreatedAt[f] < preview[t].made - ValveAge]_allVars

\* A file whose row is gone is in the audit trail, as deleted or as failed, or in
\* the hands of a call, unless that call was stopped; one recorded as deleted
\* has lost row and content, whichever of two calls met it first.
FilesAudited ==
    /\ \A f \in Files \ rows :
          \/ f \in lost
          \/ \E s \in Sessions : f \in Treated(s) \union InHand(s)
          \/ \E t \in Tokens, outcome \in Outcomes : <<t, f, outcome>> \in fileEvents
    /\ \A event \in fileEvents : event[3] = "deleted" => event[2] \notin rows \union stored

\* A content without row is out of reach of every later preview.  Those that no
\* call is about to delete come from calls that failed or were stopped between
\* the row's commit and the content's deletion, one from each at most.
Leaks == (stored \ rows) \ UNION {InHand(s) : s \in Sessions}
ContentLeaksBounded == Cardinality(Leaks) <= faults
=============================================================================
