--------------------------- MODULE NotebookRuntime ---------------------------
(***************************************************************************)
(* Remote notebook execution (service/app/notebook_runtime.py): a worker   *)
(* fetches a notebook from a Jupyter Server, opens a session for it, runs  *)
(* the cells in the session's kernel, deletes the session and saves the    *)
(* executed notebook.                                                      *)
(*                                                                         *)
(* Several workers run at once (NOTEBOOK_CONCURRENCY), jobs may name the   *)
(* same allowlisted notebook, messages may be delivered again, and any     *)
(* request may fail.  The server is external: POST /api/sessions returns   *)
(* the existing session if the notebook has one, a kernel runs one cell at *)
(* a time, and deleting an unknown session is an error.                    *)
(***************************************************************************)
EXTENDS Naturals

CONSTANTS Jobs,          \* notebook jobs, each for a product of its own
          Notebooks,     \* paths of allowlisted notebooks
          NotebookOf,    \* the notebook each job runs
          Workers,       \* pool processes of the notebook worker
          Cells,         \* code cells of a notebook
          MaxFaults,     \* bound on failing requests, deaths and redeliveries
          NoJob, NoKernel

ASSUME NotebookAssumption ==
    /\ NotebookOf \in [Jobs -> Notebooks]
    /\ Cells \in Nat /\ MaxFaults \in Nat
    /\ NoJob \notin Jobs

Stages == {"idle", "fetch", "post", "mkdir", "cells", "close", "save"}

\* One call of execute; "cell" counts from the injected one, "read" is the
\* set of products its cells have seen, "failed" an exception on its way.
Run == [stage : Stages, job : Jobs \union {NoJob}, session : Nat, cell : 0 .. Cells + 1,
        read : SUBSET (Jobs \union {NoJob}), failed : BOOLEAN]
Idle == [stage |-> "idle", job |-> NoJob, session |-> 0, cell |-> 0, read |-> {}, failed |-> FALSE]

\* A session's kernel; "product" is the job that assigned product_id last.
Kernel == [id : Nat, product : Jobs \union {NoJob}]

ASSUME NoKernelAssumption == NoKernel \notin Kernel

VARIABLES messages,      \* jobs in the broker
          cancelled,     \* jobs whose metadata has the cancelled flag
          run,           \* what each worker executes
          kernel,        \* the session each notebook has on the server
          opened,        \* sessions created so far
          directory,     \* jobs whose output directory exists
          saved,         \* products in the stored outputs of each job
          shared,        \* history: jobs whose session served another run meanwhile
          faults

vars == <<messages, cancelled, run, kernel, opened, directory, saved, shared, faults>>

TypeOK ==
    /\ messages \in SUBSET Jobs
    /\ cancelled \in SUBSET Jobs
    /\ run \in [Workers -> Run]
    /\ kernel \in [Notebooks -> Kernel \union {NoKernel}]
    /\ opened \in Nat
    /\ directory \in SUBSET Jobs
    /\ saved \in [Jobs -> SUBSET (Jobs \union {NoJob})]
    /\ shared \in SUBSET Jobs
    /\ faults \in 0 .. MaxFaults

Init ==
    /\ messages = Jobs
    /\ cancelled = {}
    /\ run = [w \in Workers |-> Idle]
    /\ kernel = [n \in Notebooks |-> NoKernel]
    /\ opened = 0
    /\ directory = {}
    /\ saved = [j \in Jobs |-> {}]
    /\ shared = {}
    /\ faults = 0

-----------------------------------------------------------------------------

Notebook(w) == NotebookOf[run[w].job]
Holds(w, id) == run[w].stage \in {"mkdir", "cells", "close"} /\ run[w].session = id
\* The session this run was given is still there.
Live(w) == kernel[Notebook(w)] # NoKernel /\ kernel[Notebook(w)].id = run[w].session

Transition(w, from, to) == run[w].stage = from /\ run' = [run EXCEPT ![w].stage = to]
Leave(w) == run' = [run EXCEPT ![w] = Idle]
Fault == faults < MaxFaults /\ faults' = faults + 1

\* The API sets the flag in the job's metadata.
Cancel(j) ==
    /\ cancelled' = cancelled \union {j}
    /\ UNCHANGED <<messages, run, kernel, opened, directory, saved, shared, faults>>

\* A job cancelled by now is given up before the server hears of it.
Deliver(w, j) ==
    /\ run[w].stage = "idle"
    /\ j \in messages
    /\ messages' = messages \ {j}
    /\ IF j \in cancelled THEN UNCHANGED run
                          ELSE run' = [run EXCEPT ![w].stage = "fetch", ![w].job = j]
    /\ UNCHANGED <<cancelled, kernel, opened, directory, saved, shared, faults>>

Fetch(w) ==
    /\ Transition(w, "fetch", "post")
    /\ UNCHANGED <<messages, cancelled, kernel, opened, directory, saved, shared, faults>>

\* Unreachable, not a notebook, too large, or too many cells.
FetchRefused(w) ==
    /\ run[w].stage = "fetch"
    /\ Leave(w)
    /\ UNCHANGED <<messages, cancelled, kernel, opened, directory, saved, shared, faults>>

\* The server creates a session unless the notebook has one.
ServeSession(n) ==
    IF kernel[n] = NoKernel
       THEN /\ opened' = opened + 1
            /\ kernel' = [kernel EXCEPT ![n] = [id |-> opened + 1, product |-> NoJob]]
       ELSE UNCHANGED <<opened, kernel>>

PostSession(w) ==
    /\ run[w].stage = "post"
    /\ ServeSession(Notebook(w))
    /\ LET id == kernel'[Notebook(w)].id
           others == {v \in Workers \ {w} : Holds(v, id)}
       IN  /\ run' = [run EXCEPT ![w].stage = "mkdir", ![w].session = id]
           /\ shared' = IF others = {} THEN shared
                        ELSE shared \union {run[v].job : v \in others \union {w}}
    /\ UNCHANGED <<messages, cancelled, directory, saved, faults>>

\* The request or its answer is lost; nothing deletes what it may have created.
PostFails(w) ==
    /\ Fault
    /\ run[w].stage = "post"
    /\ ServeSession(Notebook(w)) \/ UNCHANGED <<opened, kernel>>
    /\ Leave(w)
    /\ UNCHANGED <<messages, cancelled, directory, saved, shared>>

\* Fault variant of MakeDirectory: an existing directory is taken over.
MakeDirectoryExisting(w) ==
    /\ Transition(w, "mkdir", "cells")
    /\ directory' = directory \union {run[w].job}
    /\ UNCHANGED <<messages, cancelled, kernel, opened, saved, shared, faults>>

\* mkdir(exist_ok=False): a second run of the job goes no further.
MakeDirectory(w) ==
    /\ run[w].stage = "mkdir"
    /\ IF run[w].job \in directory
          THEN run' = [run EXCEPT ![w].stage = "close", ![w].failed = TRUE]
          ELSE run' = [run EXCEPT ![w].stage = "cells"]
    /\ directory' = directory \union {run[w].job}
    /\ UNCHANGED <<messages, cancelled, kernel, opened, saved, shared, faults>>

\* Cell 0 is the injected one.
LastCell(w) == run[w].cell = Cells

\* Fault variant of RunCell: the product is not injected.
RunCellPlain(w) ==
    /\ run[w].stage = "cells"
    /\ Live(w)
    /\ run' = [run EXCEPT ![w].cell = @ + 1, ![w].stage = IF LastCell(w) THEN "close" ELSE @,
                          ![w].read = @ \union {kernel[Notebook(w)].product}]
    /\ UNCHANGED <<messages, cancelled, kernel, opened, directory, saved, shared, faults>>

\* The first cell assigns product_id, the others read it; after the last one
\* the finally clause follows.
RunCell(w) ==
    /\ run[w].stage = "cells"
    /\ Live(w)
    /\ kernel' = IF run[w].cell = 0 THEN [kernel EXCEPT ![Notebook(w)].product = run[w].job]
                                    ELSE kernel
    /\ run' = [run EXCEPT ![w].cell = @ + 1, ![w].stage = IF LastCell(w) THEN "close" ELSE @,
                          ![w].read = IF run[w].cell = 0 THEN @
                                      ELSE @ \union {kernel[Notebook(w)].product}]
    /\ UNCHANGED <<messages, cancelled, opened, directory, saved, shared, faults>>

\* Fault variant of CellRaises: without deadline, only a live kernel can end a cell.
CellRaisesLive(w) ==
    /\ run[w].stage = "cells"
    /\ Live(w)
    /\ run' = [run EXCEPT ![w].stage = "close", ![w].failed = TRUE]
    /\ UNCHANGED <<messages, cancelled, kernel, opened, directory, saved, shared, faults>>

\* The connection, an error output, a cancel found by a poll, an oversized
\* output, the deadline or the soft time limit.
CellRaises(w) ==
    /\ run[w].stage = "cells"
    /\ run' = [run EXCEPT ![w].stage = "close", ![w].failed = TRUE]
    /\ UNCHANGED <<messages, cancelled, kernel, opened, directory, saved, shared, faults>>

\* Fault variant of Close: the session is deleted after success only.
CloseAfterSuccess(w) ==
    /\ run[w].stage = "close"
    /\ IF Live(w) /\ ~ run[w].failed
          THEN /\ kernel' = [kernel EXCEPT ![Notebook(w)] = NoKernel]
               /\ run' = [run EXCEPT ![w].stage = "save"]
          ELSE Leave(w) /\ UNCHANGED kernel
    /\ UNCHANGED <<messages, cancelled, opened, directory, saved, shared, faults>>

\* DELETE; a session that is gone is an error that replaces the outcome.
Close(w) ==
    /\ run[w].stage = "close"
    /\ IF Live(w) THEN kernel' = [kernel EXCEPT ![Notebook(w)] = NoKernel] ELSE UNCHANGED kernel
    /\ IF Live(w) /\ ~ run[w].failed THEN run' = [run EXCEPT ![w].stage = "save"] ELSE Leave(w)
    /\ UNCHANGED <<messages, cancelled, opened, directory, saved, shared, faults>>

CloseFails(w) ==
    /\ Fault
    /\ run[w].stage = "close"
    /\ Leave(w)
    /\ UNCHANGED <<messages, cancelled, kernel, opened, directory, saved, shared>>

Save(w) ==
    /\ run[w].stage = "save"
    /\ saved' = [saved EXCEPT ![run[w].job] = run[w].read]
    /\ Leave(w)
    /\ UNCHANGED <<messages, cancelled, kernel, opened, directory, shared, faults>>

\* The executed notebook is too large, or the soft time limit.
SaveFails(w) ==
    /\ run[w].stage = "save"
    /\ Leave(w)
    /\ UNCHANGED <<messages, cancelled, kernel, opened, directory, saved, shared, faults>>

\* Hard time limit (acknowledged) or lost pool process (requeued): no finally clause.
Killed(w) ==
    /\ Fault
    /\ run[w].stage # "idle"
    /\ \E again \in {{}, {run[w].job}} : messages' = messages \union again
    /\ Leave(w)
    /\ UNCHANGED <<cancelled, kernel, opened, directory, saved, shared>>

\* The broker delivers a job again while it runs (visibility timeout).
Redeliver(w) ==
    /\ Fault
    /\ run[w].stage # "idle"
    /\ messages' = messages \union {run[w].job}
    /\ UNCHANGED <<cancelled, run, kernel, opened, directory, saved, shared>>

RunStep(w) ==
    \/ \E j \in Jobs : Deliver(w, j)
    \/ Fetch(w) \/ FetchRefused(w)
    \/ PostSession(w)
    \/ MakeDirectory(w)
    \/ RunCell(w) \/ CellRaises(w)
    \/ Close(w)
    \/ Save(w) \/ SaveFails(w)

Next ==
    \/ \E j \in Jobs : Cancel(j)
    \/ \E w \in Workers : RunStep(w)
    \/ \E w \in Workers : PostFails(w) \/ CloseFails(w)
    \/ \E w \in Workers : Killed(w) \/ Redeliver(w)

Spec == Init /\ [][Next]_vars

\* Requests have timeouts and cells a deadline, so a run always goes on.
FairSpec == Spec /\ \A w \in Workers : WF_vars(RunStep(w))

-----------------------------------------------------------------------------
(* Properties.                                                             *)

\* mkdir(exist_ok=False) is the only lock between two runs of a job: of the
\* runs a redelivery may add, one at most writes to the output directory.
OneWriter ==
    \A v, w \in Workers :
        /\ run[v].job = run[w].job
        /\ \A u \in {v, w} : run[u].stage \in {"cells", "save"}
        => v = w

\* A session nobody will delete.
Abandoned(n) == kernel[n] # NoKernel /\ \A w \in Workers : ~ Holds(w, kernel[n].id)

\* BUILD_LOG.md:295, "closes the remote session": whatever a cell, a
\* cancellation or another run does, only a failing request or a killed
\* process leaves a session behind.
AbandonedOnlyByFaults ==
    [][\A n \in Notebooks : Abandoned(n)' => Abandoned(n) \/ faults' > faults]_vars

\* The cells of a job read its own product, unless another run was given the
\* same session meanwhile.
OwnProductUnlessShared == \A j \in Jobs \ shared : saved[j] \subseteq {j}

\* docs/DEVELOPER_MANUAL.md:86, "Notebook code receives `product_id`": the
\* stored outputs of a job are about its product.
OwnProduct == \A j \in Jobs : saved[j] \subseteq {j}

\* stage-14/README.md:47, "call cancel; confirm [...] the remote Jupyter session
\* disappears": sooner or later no run of a cancelled job is left.
CancelledRunsEnd ==
    \A j \in Jobs : j \in cancelled ~> [](\A w \in Workers : run[w].job # j)
=============================================================================
