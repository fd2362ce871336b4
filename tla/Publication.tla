---------------------------- MODULE Publication ----------------------------
(***************************************************************************)
(* Publication of a succeeded job's artifacts in OpenWebUI Files: _publish *)
(* of the Tools planetir, isis3_preprocess, scientific_workflow and        *)
(* jupyter_runtime.                                                        *)
(*                                                                         *)
(* Every "status" call of a Tool is a coroutine of OpenWebUI.  It asks the *)
(* service for the job and, when the record holds no descriptors yet,      *)
(* checks and uploads the artifacts in order, then posts the descriptors.  *)
(* Calls of several chats or retries overlap; a call can fail or be        *)
(* stopped anywhere; meanwhile a redelivered run may write the artifacts   *)
(* again, while the result keeps the hashes of the first run, and a        *)
(* cleanup may remove them.                                                *)
(*                                                                         *)
(* The two routes of the service are single steps here; JobService takes   *)
(* them apart.                                                             *)
(***************************************************************************)
EXTENDS Naturals

CONSTANTS Calls,         \* "status" calls for one succeeded job
          NumArtifacts,  \* artifacts of its result
          Dated,         \* artifacts that every run writes differently
          Disturbances,  \* what may go wrong, see below
          MaxFaults,     \* bound on it
          NoCall

Artifacts == 1 .. NumArtifacts

ASSUME PublicationAssumption ==
    /\ NumArtifacts \in Nat \ {0}
    /\ Dated \subseteq Artifacts
    /\ Disturbances \subseteq {"call_fails", "rerun", "cleanup"}
    /\ MaxFaults \in Nat
    /\ NoCall \notin Calls

VARIABLES published,     \* the call whose descriptors the job's metadata holds
          pc,            \* where each call is
          next,          \* the artifact a call is at
          answer,        \* the call whose descriptors a call returned
          late,          \* history: calls that found descriptors in the record
          rows,          \* file table of OpenWebUI: who uploaded which artifact
          disk,          \* content of each artifact in the output directory
          faults

callVars == <<pc, next, answer, late>>
vars == <<published, callVars, rows, disk, faults>>

Stages == {"new", "check", "upload", "post", "emit", "done", "failed"}
InFlight == {"check", "upload", "post", "emit"}
Contents == {"hashed", "other", "missing"}

TypeOK ==
    /\ published \in Calls \union {NoCall}
    /\ pc \in [Calls -> Stages]
    /\ next \in [Calls -> 1 .. NumArtifacts + 1]
    /\ answer \in [Calls -> Calls \union {NoCall}]
    /\ late \in SUBSET Calls
    /\ rows \in SUBSET (Calls \X Artifacts)
    /\ disk \in [Artifacts -> Contents]
    /\ faults \in 0 .. MaxFaults

Init ==
    /\ published = NoCall
    /\ pc = [c \in Calls |-> "new"]
    /\ next = [c \in Calls |-> 1]
    /\ answer = [c \in Calls |-> NoCall]
    /\ late = {}
    /\ rows = {}
    /\ disk = [a \in Artifacts |-> "hashed"]
    /\ faults = 0

-----------------------------------------------------------------------------

Transition(c, from, to) ==
    /\ pc[c] = from
    /\ pc' = [pc EXCEPT ![c] = to]

Answer(c, source) == answer' = [answer EXCEPT ![c] = source]

\* GET the job; descriptors in its record are returned as they are.
Poll(c) ==
    /\ IF published = NoCall
          THEN /\ Transition(c, "new", "check")
               /\ UNCHANGED <<answer, late>>
          ELSE /\ Transition(c, "new", "done")
               /\ Answer(c, published)
               /\ late' = late \union {c}
    /\ UNCHANGED <<published, next, rows, disk, faults>>

\* Presence, hash and size of the next artifact.
Check(c) ==
    /\ Transition(c, "check", "upload")
    /\ disk[next[c]] = "hashed"
    /\ UNCHANGED <<published, next, answer, late, rows, disk, faults>>

\* The call raises; what it uploaded so far stays in Files.
CheckFails(c) ==
    /\ Transition(c, "check", "failed")
    /\ disk[next[c]] # "hashed"
    /\ UNCHANGED <<published, next, answer, late, rows, disk, faults>>

AddRow(c) == rows' = rows \union {<<c, next[c]>>}

\* Fault variant of Upload: the loop ends before the last artifact.
UploadAllButLast(c) ==
    /\ Transition(c, "upload", IF next[c] + 1 >= NumArtifacts THEN "post" ELSE "check")
    /\ disk[next[c]] # "missing"
    /\ AddRow(c)
    /\ next' = [next EXCEPT ![c] = @ + 1]
    /\ UNCHANGED <<published, answer, late, disk, faults>>

\* The file is opened anew and copied, whatever it contains by now.
Upload(c) ==
    /\ Transition(c, "upload", IF next[c] = NumArtifacts THEN "post" ELSE "check")
    /\ disk[next[c]] # "missing"
    /\ AddRow(c)
    /\ next' = [next EXCEPT ![c] = @ + 1]
    /\ UNCHANGED <<published, answer, late, disk, faults>>

OpenFails(c) ==
    /\ Transition(c, "upload", "failed")
    /\ disk[next[c]] = "missing"
    /\ UNCHANGED <<published, next, answer, late, rows, disk, faults>>

\* Fault variant of Post: the service forgets to store the descriptors.
PostUnrecorded(c) ==
    /\ Transition(c, "post", "emit")
    /\ UNCHANGED <<published, next, answer, late, rows, disk, faults>>

\* POST .../publication replaces the descriptors, whoever stored them before.
Post(c) ==
    /\ Transition(c, "post", "emit")
    /\ published' = c
    /\ UNCHANGED <<next, answer, late, rows, disk, faults>>

\* The "files" event, and the return value of the Tool.
Emit(c) ==
    /\ Transition(c, "emit", "done")
    /\ Answer(c, c)
    /\ UNCHANGED <<published, next, late, rows, disk, faults>>

CallStep(c) ==
    \/ Poll(c)
    \/ Check(c) \/ CheckFails(c)
    \/ Upload(c) \/ OpenFails(c)
    \/ Post(c)
    \/ Emit(c)

-----------------------------------------------------------------------------

Fault(kind) == kind \in Disturbances /\ faults < MaxFaults /\ faults' = faults + 1

\* An HTTP or database error, a stopped chat, a restart of OpenWebUI: the call
\* ends where it is, its upload or its POST done or not.
CallFails(c) ==
    /\ Fault("call_fails")
    /\ pc[c] \in InFlight
    /\ pc' = [pc EXCEPT ![c] = "failed"]
    /\ \/ UNCHANGED <<rows, published>>
       \/ pc[c] = "upload" /\ disk[next[c]] # "missing" /\ AddRow(c) /\ UNCHANGED published
       \/ pc[c] = "post" /\ published' = c /\ UNCHANGED rows
    /\ UNCHANGED <<next, answer, late, disk>>

\* A redelivered run opens an artifact for writing ...
RerunWrites(a) ==
    /\ Fault("rerun")
    /\ disk' = [disk EXCEPT ![a] = "other"]
    /\ UNCHANGED <<published, callVars, rows>>

\* ... and finishes it: as before, unless its content carries a date.
RerunFinishes(a) ==
    /\ disk[a] = "other"
    /\ a \notin Dated
    /\ disk' = [disk EXCEPT ![a] = "hashed"]
    /\ UNCHANGED <<published, callVars, rows, faults>>

CleanupRemoves ==
    /\ Fault("cleanup")
    /\ disk' = [a \in Artifacts |-> "missing"]
    /\ UNCHANGED <<published, callVars, rows>>

Next ==
    \/ \E c \in Calls : CallStep(c) \/ CallFails(c)
    \/ \E a \in Artifacts : RerunWrites(a) \/ RerunFinishes(a)
    \/ CleanupRemoves

Spec == Init /\ [][Next]_vars

\* The event loop runs every call, and the user asks again until it worked.
FairSpec == Spec /\ \A c \in Calls : WF_vars(CallStep(c))

-----------------------------------------------------------------------------
(* Properties.                                                             *)

Uploaded(c) == {a \in Artifacts : <<c, a>> \in rows}

\* The stored descriptors, and the ones any call returned, stand for all the
\* artifacts and have their rows in Files, wherever other calls failed.
DescriptorsAreComplete ==
    \A c \in {published} \union {answer[k] : k \in Calls} :
        c # NoCall => Uploaded(c) = Artifacts

\* A call that finds descriptors uploads nothing and returns descriptors, be
\* it while other calls are still replacing the record.
LateCallsUploadNothing ==
    \A c \in late : Uploaded(c) = {} /\ answer[c] # NoCall

\* planetir.py:238-240, "Use status with that ID until it succeeds, at which
\* point reports/images are registered": repeated calls get it published, however many
\* but the last of them fail, as long as no run and no cleanup touches the artifacts.
PublishedUnlessDisturbed ==
    <>(published # NoCall \/ \E a \in Artifacts : disk[a] # "hashed")
=============================================================================
