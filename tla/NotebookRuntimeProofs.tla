------------------------ MODULE NotebookRuntimeProofs ------------------------
(***************************************************************************)
(* Theorems about NotebookRuntime for any jobs, notebooks, workers, number *)
(* of cells and bound on the faults.                                       *)
(***************************************************************************)
EXTENDS NotebookRuntime, TLAPS

-----------------------------------------------------------------------------
(* Types.                                                                  *)

\* A run has a job unless it is idle, and counts cells only when it runs them.
RunOK(r) ==
    /\ r \in Run
    /\ r.stage # "idle" => r.job \in Jobs
    /\ r.stage \in {"idle", "fetch", "post", "mkdir"} => r.cell = 0 /\ r.read = {}
    /\ r.stage = "cells" => r.cell <= Cells

TypeInv == TypeOK /\ \A w \in Workers : RunOK(run[w])

\* The fields of a run.
LEMMA Fields ==
    ASSUME NEW r \in Run
    PROVE  /\ r.stage \in Stages /\ r.job \in Jobs \union {NoJob} /\ r.session \in Nat
           /\ r.cell \in 0 .. Cells + 1 /\ r.read \in SUBSET (Jobs \union {NoJob})
           /\ r.failed \in BOOLEAN
  BY DEF Run

\* A worker's run becomes another one.
LEMMA RunUpdate ==
    ASSUME TypeInv, NEW w \in Workers, NEW r, RunOK(r), run' = [run EXCEPT ![w] = r]
    PROVE  run' \in [Workers -> Run] /\ \A v \in Workers : RunOK(run'[v])
  BY DEF TypeInv, TypeOK, RunOK

\* ... the idle one.
LEMMA LeaveOK ==
    ASSUME TypeInv, NEW w \in Workers, Leave(w)
    PROVE  run' \in [Workers -> Run] /\ \A v \in Workers : RunOK(run'[v])
<1>1. RunOK(Idle)
  BY NotebookAssumption DEF RunOK, Idle, Run, Stages
<1>2. QED
  BY <1>1, RunUpdate DEF Leave

\* ... or goes to one of the late stages, failed perhaps.
LEMMA MoveOK ==
    ASSUME NEW r, RunOK(r), r.stage # "idle"
    PROVE  /\ RunOK([r EXCEPT !.stage = "close", !.failed = TRUE])
           /\ RunOK([r EXCEPT !.stage = "save"])
           /\ r.cell <= Cells => RunOK([r EXCEPT !.stage = "cells"])
           /\ r.stage = "fetch" => RunOK([r EXCEPT !.stage = "post"])
           /\ r.stage = "post" => \A id \in Nat : RunOK([r EXCEPT !.stage = "mkdir", !.session = id])
  BY DEF RunOK, Run, Stages

\* What the server answers a request for a session.
LEMMA ServeSessionOK ==
    ASSUME TypeOK, NEW n \in Notebooks, ServeSession(n)
    PROVE  /\ kernel' \in [Notebooks -> Kernel \union {NoKernel}] /\ opened' \in Nat
           /\ kernel'[n] \in Kernel /\ kernel'[n].id \in Nat
<1>1. \A id \in Nat : [id |-> id, product |-> NoJob] \in Kernel
  BY DEF Kernel
<1>2. \A k \in Kernel : k.id \in Nat
  BY DEF Kernel
<1>3. QED
  BY <1>1, <1>2 DEF ServeSession, TypeOK

\* One cell.
LEMMA RunCellOK ==
    ASSUME TypeInv, NEW w \in Workers, RunCell(w)
    PROVE  /\ kernel' \in [Notebooks -> Kernel \union {NoKernel}]
           /\ run' \in [Workers -> Run] /\ \A v \in Workers : RunOK(run'[v])
<1>1. /\ RunOK(run[w]) /\ run[w].stage = "cells" /\ run[w].job \in Jobs
      /\ run[w].cell \in 0 .. Cells /\ Notebook(w) \in Notebooks
  BY Fields, NotebookAssumption DEF TypeInv, RunCell, RunOK, Notebook
<1>2. kernel[Notebook(w)] \in Kernel
  BY <1>1 DEF RunCell, Live, TypeInv, TypeOK
<1>3. kernel[Notebook(w)].product \in Jobs \union {NoJob}
  BY <1>2 DEF Kernel
<1>4. kernel' \in [Notebooks -> Kernel \union {NoKernel}]
  <2>1. [kernel[Notebook(w)] EXCEPT !.product = run[w].job] \in Kernel
    BY <1>1, <1>2 DEF Kernel
  <2>2. QED
    BY <1>1, <2>1 DEF RunCell, TypeInv, TypeOK
<1>5. /\ run' \in [Workers -> Run]
      /\ \A v \in Workers : RunOK(run'[v])
  <2> DEFINE next == IF LastCell(w) THEN "close" ELSE run[w].stage
             got == IF run[w].cell = 0 THEN run[w].read
                    ELSE run[w].read \union {kernel[Notebook(w)].product}
             r == [run[w] EXCEPT !.cell = run[w].cell + 1, !.stage = next, !.read = got]
  <2>1. next \in {"cells", "close"} /\ (next = "cells" => run[w].cell + 1 <= Cells)
    BY <1>1, NotebookAssumption DEF LastCell
  <2>2. got \in SUBSET (Jobs \union {NoJob})
    BY <1>1, <1>3, Fields DEF RunOK
  <2>3. run' = [run EXCEPT ![w] = r]
    BY DEF RunCell
  <2> HIDE DEF next, got
  <2>4. r \in Run /\ r.stage = next /\ r.job = run[w].job /\ r.cell = run[w].cell + 1
    <3>1. next \in Stages
      BY <2>1 DEF Stages
    <3>2. run[w].cell + 1 \in 0 .. Cells + 1
      BY <1>1, NotebookAssumption
    <3>3. run[w] \in Run
      BY <1>1 DEF RunOK
    <3>4. QED
      BY <2>2, <3>1, <3>2, <3>3 DEF Run
  <2> HIDE DEF r
  <2>5. RunOK(r)
    BY <1>1, <2>1, <2>4 DEF RunOK
  <2>6. QED
    BY <2>3, <2>5, RunUpdate
<1>6. QED
  BY <1>4, <1>5

LEMMA TypeInvInit == Init => TypeInv
  BY NotebookAssumption DEF Init, TypeInv, TypeOK, RunOK, Run, Idle, Stages

\* Every step keeps every variable in its type: one step per action.
LEMMA TypeInvStep == ASSUME TypeInv, [Next]_vars PROVE TypeInv'
<1> USE NotebookAssumption
<1> DEFINE RunsOK == run' \in [Workers -> Run] /\ \A v \in Workers : RunOK(run'[v])
<1>1. ASSUME NEW j \in Jobs, Cancel(j) PROVE TypeInv'
  BY <1>1 DEF Cancel, TypeInv, TypeOK
<1>2. ASSUME NEW w \in Workers, NEW j \in Jobs, Deliver(w, j) PROVE TypeInv'
  <2>1. RunsOK
    <3> DEFINE r == [run[w] EXCEPT !.stage = "fetch", !.job = j]
    <3>1. RunOK(r)
      BY <1>2 DEF Deliver, TypeInv, RunOK, Run, Stages
    <3>2. CASE j \in cancelled
      BY <1>2, <3>2 DEF Deliver, TypeInv, TypeOK
    <3>3. CASE j \notin cancelled
      <4>1. run' = [run EXCEPT ![w] = r]
        BY <1>2, <3>3 DEF Deliver
      <4> HIDE DEF r
      <4>2. QED
        BY <3>1, <4>1, RunUpdate
    <3>4. QED
      BY <3>2, <3>3
  <2>2. QED
    BY <1>2, <2>1 DEF Deliver, TypeInv, TypeOK
<1>3. ASSUME NEW w \in Workers, Fetch(w) PROVE TypeInv'
  <2>1. RunsOK
    BY <1>3, MoveOK, RunUpdate DEF Fetch, Transition, TypeInv
  <2>2. QED
    BY <1>3, <2>1 DEF Fetch, TypeInv, TypeOK
<1>4. ASSUME NEW w \in Workers, FetchRefused(w) \/ SaveFails(w) PROVE TypeInv'
  <2>1. RunsOK
    BY <1>4, LeaveOK DEF FetchRefused, SaveFails
  <2>2. QED
    BY <1>4, <2>1 DEF FetchRefused, SaveFails, TypeInv, TypeOK
<1>5. ASSUME NEW w \in Workers, PostSession(w) PROVE TypeInv'
  <2>1. run[w].job \in Jobs /\ Notebook(w) \in Notebooks
    BY <1>5 DEF PostSession, TypeInv, RunOK, Notebook
  <2>2. kernel' \in [Notebooks -> Kernel \union {NoKernel}] /\ opened' \in Nat
        /\ kernel'[Notebook(w)].id \in Nat
    BY <1>5, <2>1, ServeSessionOK DEF PostSession, TypeInv
  <2>3. shared' \in SUBSET Jobs
    <3>1. \A v \in Workers : run[v].stage # "idle" => run[v].job \in Jobs
      BY DEF TypeInv, RunOK
    <3>2. QED
      BY <1>5, <2>1, <3>1 DEF PostSession, TypeInv, TypeOK, Holds
  <2>4. RunsOK
    <3> DEFINE r == [run[w] EXCEPT !.stage = "mkdir", !.session = kernel'[Notebook(w)].id]
    <3>1. RunOK(r)
      BY <1>5, <2>2, MoveOK DEF PostSession, TypeInv
    <3>2. run' = [run EXCEPT ![w] = r]
      BY <1>5 DEF PostSession
    <3> HIDE DEF r
    <3>3. QED
      BY <3>1, <3>2, RunUpdate
  <2>5. QED
    BY <1>5, <2>2, <2>3, <2>4 DEF PostSession, TypeInv, TypeOK
<1>6. ASSUME NEW w \in Workers, PostFails(w) PROVE TypeInv'
  <2>1. Notebook(w) \in Notebooks
    BY <1>6 DEF PostFails, TypeInv, RunOK, Notebook
  <2>2. kernel' \in [Notebooks -> Kernel \union {NoKernel}] /\ opened' \in Nat
    BY <1>6, <2>1, ServeSessionOK DEF PostFails, TypeInv, TypeOK
  <2>3. RunsOK
    BY <1>6, LeaveOK DEF PostFails
  <2>4. QED
    BY <1>6, <2>2, <2>3 DEF PostFails, Fault, TypeInv, TypeOK
<1>7. ASSUME NEW w \in Workers, MakeDirectory(w) PROVE TypeInv'
  <2>1. RunOK(run[w]) /\ run[w].job \in Jobs /\ run[w].stage = "mkdir" /\ run[w].cell <= Cells
    BY <1>7 DEF MakeDirectory, TypeInv, RunOK
  <2>2. RunsOK
    <3> DEFINE r == IF run[w].job \in directory THEN [run[w] EXCEPT !.stage = "close", !.failed = TRUE]
                    ELSE [run[w] EXCEPT !.stage = "cells"]
    <3>1. RunOK(r)
      BY <2>1, MoveOK
    <3>2. run' = [run EXCEPT ![w] = r]
      BY <1>7 DEF MakeDirectory
    <3> HIDE DEF r
    <3>3. QED
      BY <3>1, <3>2, RunUpdate
  <2>3. QED
    BY <1>7, <2>1, <2>2 DEF MakeDirectory, TypeInv, TypeOK
<1>8. ASSUME NEW w \in Workers, RunCell(w) PROVE TypeInv'
  BY <1>8, RunCellOK DEF RunCell, TypeInv, TypeOK
<1>9. ASSUME NEW w \in Workers, CellRaises(w) PROVE TypeInv'
  <2>1. RunsOK
    <3> DEFINE r == [run[w] EXCEPT !.stage = "close", !.failed = TRUE]
    <3>1. RunOK(r)
      BY <1>9, MoveOK DEF CellRaises, TypeInv
    <3>2. run' = [run EXCEPT ![w] = r]
      BY <1>9 DEF CellRaises
    <3> HIDE DEF r
    <3>3. QED
      BY <3>1, <3>2, RunUpdate
  <2>2. QED
    BY <1>9, <2>1 DEF CellRaises, TypeInv, TypeOK
<1>10. ASSUME NEW w \in Workers, Close(w) PROVE TypeInv'
  <2>1. RunsOK
    BY <1>10, MoveOK, RunUpdate, LeaveOK DEF Close, TypeInv
  <2>2. QED
    BY <1>10, <2>1 DEF Close, TypeInv, TypeOK
<1>11. ASSUME NEW w \in Workers, CloseFails(w) PROVE TypeInv'
  <2>1. RunsOK
    BY <1>11, LeaveOK DEF CloseFails
  <2>2. QED
    BY <1>11, <2>1 DEF CloseFails, Fault, TypeInv, TypeOK
<1>12. ASSUME NEW w \in Workers, Save(w) PROVE TypeInv'
  <2>1. RunsOK
    BY <1>12, LeaveOK DEF Save
  <2>2. run[w].read \in SUBSET (Jobs \union {NoJob})
    BY Fields DEF TypeInv, RunOK
  <2>3. QED
    BY <1>12, <2>1, <2>2 DEF Save, TypeInv, TypeOK
<1>13. ASSUME NEW w \in Workers, Killed(w) PROVE TypeInv'
  <2>1. RunsOK
    BY <1>13, LeaveOK DEF Killed
  <2>2. run[w].job \in Jobs
    BY <1>13 DEF Killed, TypeInv, RunOK
  <2>3. QED
    BY <1>13, <2>1, <2>2 DEF Killed, Fault, TypeInv, TypeOK
<1>14. ASSUME NEW w \in Workers, Redeliver(w) PROVE TypeInv'
  <2>1. run[w].job \in Jobs
    BY <1>14 DEF Redeliver, TypeInv, RunOK
  <2>2. QED
    BY <1>14, <2>1 DEF Redeliver, Fault, TypeInv, TypeOK
<1>15. CASE UNCHANGED vars
  BY <1>15 DEF vars, TypeInv, TypeOK
<1>16. QED
  BY <1>1, <1>2, <1>3, <1>4, <1>5, <1>6, <1>7, <1>8, <1>9, <1>10, <1>11, <1>12, <1>13, <1>14,
     <1>15 DEF Next, RunStep

\* Type correctness of runs, sessions and stored outputs.
THEOREM RuntimeTypeCorrect == Spec => []TypeOK
<1>1. TypeInv => TypeOK
  BY DEF TypeInv
<1>2. QED
  BY <1>1, TypeInvInit, TypeInvStep, PTL DEF Spec

-----------------------------------------------------------------------------
(* One writer.                                                             *)

\* Past mkdir, and not on the way out with an exception.
Writing(w) ==
    \/ run[w].stage \in {"cells", "save"}
    \/ run[w].stage = "close" /\ ~ run[w].failed

WriterInv ==
    /\ \A w \in Workers : Writing(w) => run[w].job \in directory
    /\ \A v, w \in Workers : Writing(v) /\ Writing(w) /\ run[v].job = run[w].job => v = w

\* A run goes on writing, or is the first one to make the directory.
LEMMA WriterStep ==
    ASSUME WriterInv, NEW w \in Workers,
           \A v \in Workers \ {w} : run'[v] = run[v],
           directory \subseteq directory',
           Writing(w)' => /\ run'[w].job = run[w].job /\ run'[w].job \in directory'
                          /\ Writing(w) \/ run[w].job \notin directory
    PROVE  WriterInv'
  BY DEF WriterInv, Writing

\* An idle run does not write.
LEMMA WriterLeaves ==
    ASSUME TypeInv, WriterInv, NEW w \in Workers, Leave(w), directory' = directory
    PROVE  WriterInv'
<1>1. run'[w] = Idle /\ \A v \in Workers \ {w} : run'[v] = run[v]
  BY DEF Leave, TypeInv, TypeOK
<1>2. ~ Writing(w)'
  BY <1>1 DEF Writing, Idle
<1>3. QED
  BY <1>1, <1>2, WriterStep

LEMMA WriterInvStep == ASSUME TypeInv, WriterInv, [Next]_vars PROVE WriterInv'
<1> USE DEF TypeInv, TypeOK, Run
<1>1. ASSUME NEW w \in Workers, NEW j \in Jobs, Deliver(w, j) PROVE WriterInv'
  BY <1>1, WriterStep DEF Deliver, Writing
<1>2. ASSUME NEW w \in Workers, Fetch(w) PROVE WriterInv'
  BY <1>2, WriterStep DEF Fetch, Transition, Writing
<1>3. ASSUME NEW w \in Workers, PostSession(w) PROVE WriterInv'
  BY <1>3, WriterStep DEF PostSession, Writing
<1>4. ASSUME NEW w \in Workers, MakeDirectory(w) PROVE WriterInv'
  <2>1. /\ \A v \in Workers \ {w} : run'[v] = run[v]
        /\ run'[w].job = run[w].job /\ directory' = directory \union {run[w].job}
        /\ run[w].job \in directory => run'[w].stage = "close" /\ run'[w].failed
    BY <1>4 DEF MakeDirectory
  <2>2. QED
    BY <2>1, WriterStep DEF Writing
<1>5. ASSUME NEW w \in Workers, RunCell(w) PROVE WriterInv'
  <2>1. /\ \A v \in Workers \ {w} : run'[v] = run[v]
        /\ run'[w].job = run[w].job /\ Writing(w) /\ directory' = directory
    BY <1>5 DEF RunCell, Writing
  <2>2. QED
    BY <2>1, WriterStep DEF WriterInv
<1>6. ASSUME NEW w \in Workers, CellRaises(w) PROVE WriterInv'
  BY <1>6, WriterStep DEF CellRaises, Writing
<1>7. ASSUME NEW w \in Workers, Close(w) PROVE WriterInv'
  <2>1. CASE Live(w) /\ ~ run[w].failed
    <3>1. /\ \A v \in Workers \ {w} : run'[v] = run[v]
          /\ run'[w].job = run[w].job /\ Writing(w) /\ directory' = directory
      BY <1>7, <2>1 DEF Close, Writing
    <3>2. QED
      BY <3>1, WriterStep DEF WriterInv
  <2>2. CASE ~ (Live(w) /\ ~ run[w].failed)
    BY <1>7, <2>2, WriterLeaves DEF Close
  <2>3. QED
    BY <2>1, <2>2
<1>8. ASSUME NEW w \in Workers,
             FetchRefused(w) \/ PostFails(w) \/ CloseFails(w) \/ Save(w) \/ SaveFails(w) \/ Killed(w)
      PROVE  WriterInv'
  BY <1>8, WriterLeaves DEF FetchRefused, PostFails, CloseFails, Save, SaveFails, Killed
<1>9. ASSUME UNCHANGED <<run, directory>> PROVE WriterInv'
  BY <1>9 DEF WriterInv, Writing
<1>10. ASSUME NEW j \in Jobs, Cancel(j) PROVE WriterInv'
  BY <1>9, <1>10 DEF Cancel
<1>11. ASSUME NEW w \in Workers, Redeliver(w) PROVE WriterInv'
  BY <1>9, <1>11 DEF Redeliver
<1>12. CASE UNCHANGED vars
  BY <1>9, <1>12 DEF vars
<1>13. QED
  BY <1>1, <1>2, <1>3, <1>4, <1>5, <1>6, <1>7, <1>8, <1>10, <1>11, <1>12 DEF Next, RunStep

\* However a message is delivered again, the output directory has one writer.
THEOREM DirectoryHasOneWriter == Spec => []OneWriter
<1>1. Init => WriterInv
  BY DEF Init, WriterInv, Writing, Idle
<1>2. WriterInv => OneWriter
  BY DEF WriterInv, Writing, OneWriter
<1>3. QED
  BY <1>1, <1>2, TypeInvInit, TypeInvStep, WriterInvStep, PTL DEF Spec

-----------------------------------------------------------------------------
(* Sessions.                                                               *)

HasSession(w) == run[w].stage \in {"mkdir", "cells", "close"}
Open(n) == kernel[n] # NoKernel

\* Identifiers are used once, and a run's is that of its own notebook.
SessionInv ==
    /\ \A n \in Notebooks : Open(n) => kernel[n].id \in 1 .. opened
    /\ \A m, n \in Notebooks : Open(m) /\ Open(n) /\ kernel[m].id = kernel[n].id => m = n
    /\ \A w \in Workers : HasSession(w) => run[w].session \in 1 .. opened
    /\ \A w \in Workers, n \in Notebooks :
          HasSession(w) /\ Open(n) /\ kernel[n].id = run[w].session => n = Notebook(w)

\* A run without new session, and sessions that stay or go.
LEMMA SessionStep ==
    ASSUME SessionInv, NEW w \in Workers, opened' = opened,
           \A v \in Workers \ {w} : run'[v] = run[v],
           HasSession(w)' => /\ HasSession(w)
                             /\ run'[w].session = run[w].session /\ run'[w].job = run[w].job,
           \A n \in Notebooks : Open(n)' => Open(n) /\ kernel'[n].id = kernel[n].id
    PROVE  SessionInv'
  BY DEF SessionInv, HasSession, Open, Notebook

\* What the server does to the sessions.
LEMMA ServedSession ==
    ASSUME TypeOK, SessionInv, NEW n \in Notebooks, ServeSession(n)
    PROVE  /\ opened' \in {opened, opened + 1}
           /\ \A m \in Notebooks \ {n} : kernel'[m] = kernel[m]
           /\ Open(n)' /\ kernel'[n].id \in 1 .. opened'
           /\ Open(n) => kernel'[n] = kernel[n] /\ opened' = opened
           /\ ~ Open(n) => kernel'[n].id = opened + 1 /\ opened' = opened + 1
<1>1. [id |-> opened + 1, product |-> NoJob] \in Kernel
  BY DEF TypeOK, Kernel
<1>2. CASE Open(n)
  BY <1>2 DEF ServeSession, Open, SessionInv, TypeOK
<1>3. CASE ~ Open(n)
  BY <1>1, <1>3, NoKernelAssumption DEF ServeSession, Open, TypeOK
<1>4. QED
  BY <1>2, <1>3

\* The server answers, and the run has what it was told or nothing.
LEMMA PostStep ==
    ASSUME TypeInv, SessionInv, NEW w \in Workers, NEW n \in Notebooks, ServeSession(n),
           \A v \in Workers \ {w} : run'[v] = run[v],
           HasSession(w)' => run'[w].session = kernel'[n].id /\ Notebook(w)' = n
    PROVE  SessionInv'
<1>1. opened \in Nat /\ \A v \in Workers : run[v].session \in Nat
  BY Fields DEF TypeInv, TypeOK, RunOK
<1>2. \A m \in Notebooks : Open(m)' => /\ kernel'[m].id \in 1 .. opened'
                                       /\ m # n => Open(m) /\ kernel'[m].id = kernel[m].id
  BY <1>1, ServedSession DEF TypeInv, SessionInv, Open
<1>3. \A v \in Workers : HasSession(v)' => run'[v].session \in 1 .. opened'
  BY <1>1, ServedSession DEF TypeInv, SessionInv, HasSession
<1>4. \A l, m \in Notebooks : Open(l)' /\ Open(m)' /\ kernel'[l].id = kernel'[m].id => l = m
  BY <1>1, ServedSession DEF TypeInv, SessionInv, Open
<1>5. ASSUME NEW v \in Workers, NEW m \in Notebooks,
             HasSession(v)', Open(m)', kernel'[m].id = run'[v].session
      PROVE  m = Notebook(v)'
  <2>1. CASE v = w
    BY <1>4, <1>5, <2>1, ServedSession DEF TypeInv
  <2>2. CASE v # w /\ m # n
    BY <1>2, <1>5, <2>2 DEF SessionInv, HasSession, Notebook
  <2>3. CASE v # w /\ m = n
    <3>1. HasSession(v) /\ run[v].session \in 1 .. opened /\ run[v].session = kernel'[n].id
      BY <1>5, <2>3 DEF SessionInv, HasSession
    <3>2. Open(n) /\ kernel[n].id = run[v].session
      BY <1>1, <3>1, ServedSession DEF TypeInv
    <3>3. QED
      BY <2>3, <3>1, <3>2 DEF SessionInv, Notebook
  <2>4. QED
    BY <2>1, <2>2, <2>3
<1>6. QED
  BY <1>2, <1>3, <1>4, <1>5 DEF SessionInv

\* A run that leaves has no session.
LEMMA NoSession ==
    ASSUME TypeInv, NEW w \in Workers, Leave(w)
    PROVE  ~ HasSession(w)' /\ \A v \in Workers \ {w} : run'[v] = run[v]
  BY DEF Leave, Idle, HasSession, TypeInv, TypeOK

LEMMA SessionInvStep == ASSUME TypeInv, SessionInv, [Next]_vars PROVE SessionInv'
<1> USE DEF TypeInv, TypeOK, Run
<1>1. ASSUME NEW w \in Workers, NEW j \in Jobs, Deliver(w, j) PROVE SessionInv'
  BY <1>1, SessionStep DEF Deliver, HasSession, Open
<1>2. ASSUME NEW w \in Workers, Fetch(w) PROVE SessionInv'
  BY <1>2, SessionStep DEF Fetch, Transition, HasSession, Open
<1>3. ASSUME NEW w \in Workers, PostSession(w) PROVE SessionInv'
  <2>1. Notebook(w) \in Notebooks
    BY <1>3, NotebookAssumption DEF PostSession, RunOK, Notebook
  <2>2. /\ \A v \in Workers \ {w} : run'[v] = run[v]
        /\ run'[w].session = kernel'[Notebook(w)].id /\ run'[w].job = run[w].job
    BY <1>3 DEF PostSession
  <2>3. QED
    BY <1>3, <2>1, <2>2, PostStep DEF PostSession, Notebook
<1>4. ASSUME NEW w \in Workers, PostFails(w) PROVE SessionInv'
  <2>1. Notebook(w) \in Notebooks
    BY <1>4, NotebookAssumption DEF PostFails, RunOK, Notebook
  <2>2. ~ HasSession(w)' /\ \A v \in Workers \ {w} : run'[v] = run[v]
    BY <1>4, NoSession DEF PostFails
  <2>3. CASE ServeSession(Notebook(w))
    BY <2>1, <2>2, <2>3, PostStep
  <2>4. CASE UNCHANGED <<opened, kernel>>
    BY <2>2, <2>4, SessionStep DEF Open
  <2>5. QED
    BY <1>4, <2>3, <2>4 DEF PostFails
<1>5. ASSUME NEW w \in Workers, MakeDirectory(w) PROVE SessionInv'
  BY <1>5, SessionStep DEF MakeDirectory, HasSession, Open
<1>6. ASSUME NEW w \in Workers, RunCell(w) PROVE SessionInv'
  <2>1. /\ \A v \in Workers \ {w} : run'[v] = run[v]
        /\ HasSession(w) /\ run'[w].session = run[w].session /\ run'[w].job = run[w].job
        /\ opened' = opened
    BY <1>6 DEF RunCell, HasSession
  <2>2. Notebook(w) \in Notebooks /\ kernel[Notebook(w)] \in Kernel
    BY <1>6, NotebookAssumption DEF RunCell, RunOK, Live, Notebook
  <2>3. \A n \in Notebooks : Open(n)' => Open(n) /\ kernel'[n].id = kernel[n].id
    BY <1>6, <2>2, NoKernelAssumption DEF RunCell, Open, Kernel
  <2>4. QED
    BY <2>1, <2>3, SessionStep
<1>7. ASSUME NEW w \in Workers, CellRaises(w) PROVE SessionInv'
  BY <1>7, SessionStep DEF CellRaises, HasSession, Open
<1>8. ASSUME NEW w \in Workers, Close(w) PROVE SessionInv'
  <2>1. ~ HasSession(w)' /\ \A v \in Workers \ {w} : run'[v] = run[v]
    BY <1>8, NoSession DEF Close, HasSession
  <2>2. \A n \in Notebooks : Open(n)' => Open(n) /\ kernel'[n].id = kernel[n].id
    BY <1>8 DEF Close, Open
  <2>3. QED
    BY <1>8, <2>1, <2>2, SessionStep DEF Close
<1>9. ASSUME NEW w \in Workers,
             FetchRefused(w) \/ CloseFails(w) \/ Save(w) \/ SaveFails(w) \/ Killed(w)
      PROVE  SessionInv'
  BY <1>9, NoSession, SessionStep DEF FetchRefused, CloseFails, Save, SaveFails, Killed, Open
<1>10. ASSUME UNCHANGED <<run, kernel, opened>> PROVE SessionInv'
  BY <1>10 DEF SessionInv, HasSession, Open, Notebook
<1>11. ASSUME NEW j \in Jobs, Cancel(j) PROVE SessionInv'
  BY <1>10, <1>11 DEF Cancel
<1>12. ASSUME NEW w \in Workers, Redeliver(w) PROVE SessionInv'
  BY <1>10, <1>12 DEF Redeliver
<1>13. CASE UNCHANGED vars
  BY <1>10, <1>13 DEF vars
<1>14. QED
  BY <1>1, <1>2, <1>3, <1>4, <1>5, <1>6, <1>7, <1>8, <1>9, <1>11, <1>12, <1>13 DEF Next, RunStep

\* A session keeps those who will delete it.
LEMMA KeptSession ==
    ASSUME NEW n \in Notebooks, ~ Abandoned(n),
           Open(n)' => Open(n) /\ kernel'[n].id = kernel[n].id,
           \A v \in Workers : Open(n) /\ Holds(v, kernel[n].id) => Holds(v, kernel[n].id)'
    PROVE  ~ Abandoned(n)'
  BY DEF Abandoned, Open, Holds

\* A session that is abandoned by a step is so by a fault.
LEMMA AbandonedStep ==
    ASSUME TypeInv, SessionInv, [Next]_vars, NEW n \in Notebooks, ~ Abandoned(n)
    PROVE  ~ Abandoned(n)' \/ faults' > faults
<1> USE DEF TypeInv, TypeOK, Run
<1> DEFINE Goal == ~ Abandoned(n)' \/ faults' > faults
<1>1. ASSUME NEW w \in Workers, NEW j \in Jobs, Deliver(w, j) PROVE Goal
  BY <1>1, KeptSession DEF Deliver, Holds, Open
<1>2. ASSUME NEW w \in Workers, Fetch(w) PROVE Goal
  BY <1>2, KeptSession DEF Fetch, Transition, Holds, Open
<1>3. ASSUME NEW w \in Workers, PostSession(w) PROVE Goal
  <2>1. Notebook(w) \in Notebooks
    BY <1>3, NotebookAssumption DEF PostSession, RunOK, Notebook
  <2>2. /\ \A v \in Workers \ {w} : run'[v] = run[v]
        /\ run'[w].session = kernel'[Notebook(w)].id /\ run'[w].stage = "mkdir"
        /\ ~ HasSession(w)
    BY <1>3 DEF PostSession, HasSession
  <2>3. CASE n = Notebook(w)
    BY <2>2, <2>3 DEF Abandoned, Holds
  <2>4. CASE n # Notebook(w)
    <3>1. kernel'[n] = kernel[n]
      BY <1>3, <2>1, <2>4, ServedSession DEF PostSession
    <3>2. QED
      BY <2>2, <3>1, KeptSession DEF Open, Holds, HasSession
  <2>5. QED
    BY <2>3, <2>4
<1>4. ASSUME NEW w \in Workers, MakeDirectory(w) PROVE Goal
  BY <1>4, KeptSession DEF MakeDirectory, Holds, Open
<1>5. ASSUME NEW w \in Workers, RunCell(w) PROVE Goal
  <2>1. \A v \in Workers, id \in Nat : Holds(v, id) => Holds(v, id)'
    BY <1>5 DEF RunCell, Holds
  <2>2. Notebook(w) \in Notebooks /\ kernel[Notebook(w)] \in Kernel
    BY <1>5, NotebookAssumption DEF RunCell, RunOK, Live, Notebook
  <2>3. Open(n)' => Open(n) /\ kernel'[n].id = kernel[n].id
    BY <1>5, <2>2, NoKernelAssumption DEF RunCell, Open, Kernel
  <2>4. Open(n) => kernel[n].id \in Nat
    BY DEF SessionInv
  <2>5. QED
    BY <2>1, <2>3, <2>4 DEF Abandoned, Open
<1>6. ASSUME NEW w \in Workers, CellRaises(w) PROVE Goal
  BY <1>6, KeptSession DEF CellRaises, Holds, Open
<1>7. ASSUME NEW w \in Workers, Close(w) PROVE Goal
  <2>1. \A v \in Workers \ {w} : run'[v] = run[v]
    BY <1>7, NoSession DEF Close
  <2>2. Open(n)' => Open(n) /\ kernel'[n] = kernel[n]
    BY <1>7 DEF Close, Open
  <2>3. Open(n)' => ~ Holds(w, kernel[n].id)
    <3>1. CASE n = Notebook(w)
      BY <1>7, <3>1 DEF Close, Live, Open, Holds
    <3>2. CASE n # Notebook(w)
      BY <1>7, <2>2, <3>2 DEF Close, SessionInv, HasSession, Holds
    <3>3. QED
      BY <3>1, <3>2
  <2>4. QED
    BY <2>1, <2>2, <2>3 DEF Abandoned, Open, Holds
<1>8. ASSUME NEW w \in Workers, FetchRefused(w) \/ Save(w) \/ SaveFails(w) PROVE Goal
  <2>1. ~ HasSession(w) /\ \A v \in Workers \ {w} : run'[v] = run[v]
    BY <1>8, NoSession DEF FetchRefused, Save, SaveFails, HasSession
  <2>2. QED
    <3>1. \A v \in Workers, id \in Nat : Holds(v, id) => Holds(v, id)'
      BY <2>1 DEF HasSession, Holds
    <3>2. kernel' = kernel /\ (Open(n) => kernel[n].id \in Nat)
      BY <1>8 DEF FetchRefused, Save, SaveFails, Open, SessionInv
    <3>3. QED
      BY <3>1, <3>2, KeptSession DEF Open
<1>9. ASSUME NEW w \in Workers, PostFails(w) \/ CloseFails(w) \/ Killed(w) \/ Redeliver(w)
      PROVE  Goal
  BY <1>9 DEF PostFails, CloseFails, Killed, Redeliver, Fault
<1>10. ASSUME UNCHANGED <<run, kernel>> PROVE Goal
  BY <1>10 DEF Abandoned, Holds
<1>11. ASSUME NEW j \in Jobs, Cancel(j) PROVE Goal
  BY <1>10, <1>11 DEF Cancel
<1>12. CASE UNCHANGED vars
  BY <1>10, <1>12 DEF vars
<1>13. QED
  BY <1>1, <1>2, <1>3, <1>4, <1>5, <1>6, <1>7, <1>8, <1>9, <1>11, <1>12 DEF Next, RunStep

LEMMA SessionInvInit == Init => SessionInv
  BY DEF Init, SessionInv, HasSession, Open, Idle

\* Only failing requests, killed processes and redeliveries leave sessions behind.
THEOREM OnlyFaultsAbandon == Spec => AbandonedOnlyByFaults
<1>1. TypeInv /\ SessionInv /\ [Next]_vars =>
          [\A n \in Notebooks : Abandoned(n)' => Abandoned(n) \/ faults' > faults]_vars
  BY AbandonedStep
<1>2. QED
  BY <1>1, TypeInvInit, TypeInvStep, SessionInvInit, SessionInvStep, PTL
     DEF Spec, AbandonedOnlyByFaults

-----------------------------------------------------------------------------
(* Products.                                                               *)

\* Runs that were alone with their session are alone with its product_id.
ProductInv ==
    /\ \A v, w \in Workers :
          HasSession(v) /\ HasSession(w) /\ v # w /\ run[v].session = run[w].session
          => run[v].job \in shared
    /\ \A w \in Workers :
          HasSession(w) /\ run[w].cell > 0 /\ Live(w) /\ run[w].job \notin shared
          => kernel[Notebook(w)].product = run[w].job
    /\ \A w \in Workers : run[w].job \notin shared => run[w].read \subseteq {run[w].job}
    /\ \A j \in Jobs \ shared : saved[j] \subseteq {j}

\* What matters to a session's product: the run keeps it or leaves, and the
\* notebook's kernel stays, goes, or is a new one.
LEMMA ProductKept ==
    ASSUME SessionInv, opened \in Nat, NEW v \in Workers, Notebook(v) \in Notebooks,
           HasSession(v), run'[v].session = run[v].session, run'[v].job = run[v].job, Live(v)',
           \A n \in Notebooks : Open(n)' => kernel'[n] = kernel[n] \/ kernel'[n].id = opened + 1
    PROVE  /\ Notebook(v)' = Notebook(v) /\ Live(v)
           /\ kernel'[Notebook(v)] = kernel[Notebook(v)]
<1>1. Notebook(v)' = Notebook(v) /\ run[v].session \in 1 .. opened
  BY DEF Notebook, SessionInv
<1>2. kernel'[Notebook(v)] # NoKernel /\ kernel'[Notebook(v)].id = run[v].session
  BY <1>1 DEF Live
<1>3. QED
  BY <1>1, <1>2 DEF Live, Open

\* A run that keeps its session and what it has read, or has neither.
LEMMA ProductStep ==
    ASSUME TypeInv, SessionInv, ProductInv, NEW w \in Workers, shared' = shared,
           \A v \in Workers \ {w} : run'[v] = run[v],
           HasSession(w)' => /\ HasSession(w) /\ run'[w].session = run[w].session
                             /\ run'[w].job = run[w].job /\ run'[w].cell = run[w].cell,
           run'[w].read = {} \/ (run'[w].read = run[w].read /\ run'[w].job = run[w].job),
           \A n \in Notebooks : Open(n)' => kernel'[n] = kernel[n] \/ kernel'[n].id = opened + 1,
           \A j \in Jobs \ shared : saved'[j] = saved[j] \/ saved'[j] \subseteq {j}
    PROVE  ProductInv'
<1>1. opened \in Nat /\ \A v \in Workers : HasSession(v) => Notebook(v) \in Notebooks
  BY NotebookAssumption DEF TypeInv, TypeOK, RunOK, HasSession, Notebook
<1>2. ASSUME NEW v \in Workers, HasSession(v)'
      PROVE  /\ HasSession(v) /\ run'[v].session = run[v].session
             /\ run'[v].job = run[v].job /\ run'[v].cell = run[v].cell
  BY <1>2 DEF HasSession
<1>3. ASSUME NEW v \in Workers, HasSession(v)', run'[v].cell > 0, Live(v)', run'[v].job \notin shared'
      PROVE  kernel'[Notebook(v)'].product = run'[v].job
  BY <1>1, <1>2, <1>3, ProductKept DEF ProductInv
<1>4. ASSUME NEW u \in Workers, NEW v \in Workers,
             HasSession(u)', HasSession(v)', u # v, run'[u].session = run'[v].session
      PROVE  run'[u].job \in shared'
  BY <1>2, <1>4 DEF ProductInv
<1>5. ASSUME NEW v \in Workers, run'[v].job \notin shared'
      PROVE  run'[v].read \subseteq {run'[v].job}
  BY <1>5 DEF ProductInv
<1>6. QED
  BY <1>3, <1>4, <1>5 DEF ProductInv

\* A run that leaves has read nothing.
LEMMA ProductLeaves ==
    ASSUME TypeInv, SessionInv, ProductInv, NEW w \in Workers, Leave(w), shared' = shared,
           \A n \in Notebooks : Open(n)' => kernel'[n] = kernel[n] \/ kernel'[n].id = opened + 1,
           \A j \in Jobs \ shared : saved'[j] = saved[j] \/ saved'[j] \subseteq {j}
    PROVE  ProductInv'
<1>1. run'[w].read = {}
  BY DEF Leave, Idle, TypeInv, TypeOK
<1>2. QED
  BY <1>1, NoSession, ProductStep

\* A run that is given the session of others marks itself and them.
LEMMA ProductPosted ==
    ASSUME TypeInv, SessionInv, ProductInv, NEW w \in Workers, PostSession(w)
    PROVE  ProductInv'
<1>1. /\ Notebook(w) \in Notebooks /\ opened \in Nat /\ run[w].cell = 0 /\ run[w].read = {}
      /\ \A v \in Workers : HasSession(v) => Notebook(v) \in Notebooks
  BY NotebookAssumption DEF PostSession, TypeInv, TypeOK, RunOK, HasSession, Notebook
<1>2. /\ \A v \in Workers \ {w} : run'[v] = run[v]
      /\ run'[w].session = kernel'[Notebook(w)].id /\ run'[w].job = run[w].job
      /\ run'[w].cell = 0 /\ run'[w].read = {}
  BY <1>1 DEF PostSession, TypeInv, TypeOK, Run
<1>3. /\ shared \subseteq shared'
      /\ \A v \in Workers \ {w} : Holds(v, kernel'[Notebook(w)].id) =>
            run[v].job \in shared' /\ run[w].job \in shared'
  BY DEF PostSession
<1>4. \A n \in Notebooks : Open(n)' => kernel'[n] = kernel[n] \/ kernel'[n].id = opened + 1
  BY <1>1, ServedSession DEF PostSession, TypeInv
<1>5. ASSUME NEW u \in Workers, NEW v \in Workers,
             HasSession(u)', HasSession(v)', u # v, run'[u].session = run'[v].session
      PROVE  run'[u].job \in shared'
  <2>1. CASE u = w \/ v = w
    BY <1>2, <1>3, <1>5, <2>1 DEF HasSession, Holds
  <2>2. CASE u # w /\ v # w
    BY <1>2, <1>3, <1>5, <2>2 DEF ProductInv, HasSession
  <2>3. QED
    BY <2>1, <2>2
<1>6. ASSUME NEW v \in Workers, HasSession(v)', run'[v].cell > 0, Live(v)', run'[v].job \notin shared'
      PROVE  kernel'[Notebook(v)'].product = run'[v].job
  <2>1. v # w /\ HasSession(v) /\ run'[v] = run[v]
    BY <1>2, <1>6 DEF HasSession
  <2>2. QED
    BY <1>1, <1>3, <1>4, <1>6, <2>1, ProductKept DEF ProductInv
<1>7. ASSUME NEW v \in Workers, run'[v].job \notin shared'
      PROVE  run'[v].read \subseteq {run'[v].job}
  BY <1>2, <1>3, <1>7 DEF ProductInv
<1>8. saved' = saved
  BY DEF PostSession
<1>9. QED
  BY <1>3, <1>5, <1>6, <1>7, <1>8 DEF ProductInv

\* A cell assigns or reads the product of the run's own job.
LEMMA ProductOfCell ==
    ASSUME TypeInv, SessionInv, ProductInv, NEW w \in Workers, RunCell(w)
    PROVE  ProductInv'
<1>1. /\ Notebook(w) \in Notebooks /\ run[w].cell \in Nat /\ HasSession(w) /\ Live(w)
      /\ kernel[Notebook(w)] \in Kernel
  BY NotebookAssumption DEF RunCell, TypeInv, TypeOK, RunOK, Run, HasSession, Notebook, Live
<1>2. /\ \A v \in Workers \ {w} : run'[v] = run[v]
      /\ run'[w].session = run[w].session /\ run'[w].job = run[w].job
      /\ run'[w].cell = run[w].cell + 1
      /\ run'[w].read = IF run[w].cell = 0 THEN run[w].read
                        ELSE run[w].read \union {kernel[Notebook(w)].product}
  BY DEF RunCell, TypeInv, TypeOK, Run
<1>3. /\ run[w].cell > 0 => kernel' = kernel
      /\ run[w].cell = 0 => kernel'[Notebook(w)].product = run[w].job
      /\ \A n \in Notebooks \ {Notebook(w)} : kernel'[n] = kernel[n]
      /\ Open(Notebook(w)) /\ kernel'[Notebook(w)].id = kernel[Notebook(w)].id
  BY <1>1 DEF RunCell, TypeInv, TypeOK, Kernel, Live, Open
<1>4. shared' = shared /\ saved' = saved
  BY DEF RunCell
<1>5. ASSUME NEW v \in Workers, HasSession(v)', run'[v].cell > 0, Live(v)', run'[v].job \notin shared
      PROVE  kernel'[Notebook(v)'].product = run'[v].job
  <2>1. CASE v = w
    <3>1. Notebook(v)' = Notebook(w)
      BY <1>2, <2>1 DEF Notebook
    <3>2. QED
      BY <1>1, <1>2, <1>3, <1>5, <2>1, <3>1 DEF ProductInv
  <2>2. CASE v # w
    <3>1. Notebook(v)' = Notebook(v) /\ HasSession(v) /\ run'[v] = run[v]
      BY <1>2, <1>5, <2>2 DEF Notebook, HasSession
    <3>2. CASE Notebook(v) = Notebook(w)
      <4>1. run[v].session = run[w].session
        BY <1>1, <1>3, <1>5, <3>1, <3>2 DEF Live
      <4>2. QED
        BY <1>1, <1>5, <2>2, <3>1, <4>1 DEF ProductInv
    <3>3. CASE Notebook(v) # Notebook(w)
      <4>1. Notebook(v) \in Notebooks
        BY <3>1, NotebookAssumption DEF TypeInv, RunOK, HasSession, Notebook
      <4>2. kernel'[Notebook(v)] = kernel[Notebook(v)] /\ Live(v)
        BY <1>3, <1>5, <3>1, <3>3, <4>1 DEF Live
      <4>3. QED
        BY <1>5, <3>1, <4>2 DEF ProductInv
    <3>4. QED
      BY <3>2, <3>3
  <2>3. QED
    BY <2>1, <2>2
<1>6. ASSUME NEW v \in Workers, run'[v].job \notin shared
      PROVE  run'[v].read \subseteq {run'[v].job}
  BY <1>1, <1>2, <1>6 DEF ProductInv
<1>7. ASSUME NEW u \in Workers, NEW v \in Workers,
             HasSession(u)', HasSession(v)', u # v, run'[u].session = run'[v].session
      PROVE  run'[u].job \in shared
  BY <1>1, <1>2, <1>7 DEF ProductInv, HasSession
<1>8. QED
  BY <1>4, <1>5, <1>6, <1>7 DEF ProductInv

LEMMA ProductInvStep == ASSUME TypeInv, SessionInv, ProductInv, [Next]_vars PROVE ProductInv'
<1> USE DEF TypeInv, TypeOK, Run
<1>1. ASSUME NEW w \in Workers, NEW j \in Jobs, Deliver(w, j) PROVE ProductInv'
  BY <1>1, ProductStep DEF Deliver, RunOK, HasSession
<1>2. ASSUME NEW w \in Workers, Fetch(w) PROVE ProductInv'
  BY <1>2, ProductStep DEF Fetch, Transition, HasSession
<1>3. ASSUME NEW w \in Workers, PostFails(w) PROVE ProductInv'
  <2>1. Notebook(w) \in Notebooks
    BY <1>3, NotebookAssumption DEF PostFails, RunOK, Notebook
  <2>2. \A n \in Notebooks : Open(n)' => kernel'[n] = kernel[n] \/ kernel'[n].id = opened + 1
    BY <1>3, <2>1, ServedSession DEF PostFails
  <2>3. QED
    BY <1>3, <2>2, ProductLeaves DEF PostFails
<1>4. ASSUME NEW w \in Workers, MakeDirectory(w) PROVE ProductInv'
  BY <1>4, ProductStep DEF MakeDirectory, HasSession
<1>5. ASSUME NEW w \in Workers, CellRaises(w) PROVE ProductInv'
  BY <1>5, ProductStep DEF CellRaises, HasSession
<1>6. ASSUME NEW w \in Workers, Close(w) PROVE ProductInv'
  <2>1. \A n \in Notebooks : Open(n)' => kernel'[n] = kernel[n]
    BY <1>6 DEF Close, Open
  <2>2. CASE Live(w) /\ ~ run[w].failed
    BY <1>6, <2>1, <2>2, ProductStep DEF Close, HasSession
  <2>3. CASE ~ (Live(w) /\ ~ run[w].failed)
    BY <1>6, <2>1, <2>3, ProductLeaves DEF Close
  <2>4. QED
    BY <2>2, <2>3
<1>7. ASSUME NEW w \in Workers, Save(w) PROVE ProductInv'
  <2>1. \A j \in Jobs \ shared : saved'[j] = saved[j] \/ saved'[j] \subseteq {j}
    BY <1>7 DEF Save, ProductInv
  <2>2. QED
    BY <1>7, <2>1, ProductLeaves DEF Save
<1>8. ASSUME NEW w \in Workers, FetchRefused(w) \/ CloseFails(w) \/ SaveFails(w) \/ Killed(w)
      PROVE  ProductInv'
  BY <1>8, ProductLeaves DEF FetchRefused, CloseFails, SaveFails, Killed
<1>9. ASSUME UNCHANGED <<run, kernel, shared, saved>> PROVE ProductInv'
  BY <1>9 DEF ProductInv, HasSession, Live, Notebook
<1>10. ASSUME NEW j \in Jobs, Cancel(j) PROVE ProductInv'
  BY <1>9, <1>10 DEF Cancel
<1>11. ASSUME NEW w \in Workers, Redeliver(w) PROVE ProductInv'
  BY <1>9, <1>11 DEF Redeliver
<1>12. CASE UNCHANGED vars
  BY <1>9, <1>12 DEF vars
<1>13. QED
  BY <1>1, <1>2, <1>3, <1>4, <1>5, <1>6, <1>7, <1>8, <1>10, <1>11, <1>12,
     ProductPosted, ProductOfCell DEF Next, RunStep

\* What a job has stored is about its own product, unless it shared a session.
THEOREM OwnProductsUnlessShared == Spec => []OwnProductUnlessShared
<1>1. Init => ProductInv
  BY DEF Init, ProductInv, HasSession, Idle
<1>2. ProductInv => OwnProductUnlessShared
  BY DEF ProductInv, OwnProductUnlessShared
<1>3. QED
  BY <1>1, <1>2, TypeInvInit, TypeInvStep, SessionInvInit, SessionInvStep, ProductInvStep, PTL
     DEF Spec

-----------------------------------------------------------------------------
(* The safety half of CancelledRunsEnd.                                    *)

\* How many steps a run has before it.
StepsLeft(r) ==
    IF r.stage = "cells" THEN Cells + 3 - r.cell
    ELSE [idle |-> 0, save |-> 1, close |-> 2, mkdir |-> Cells + 4, post |-> Cells + 5,
          fetch |-> Cells + 6][r.stage]

\* A run gets on, or ends; only a job that is not cancelled begins one.
RunGetsOn(w) ==
    /\ StepsLeft(run[w]) \in Nat
    /\ run'[w] # run[w] => \/ StepsLeft(run'[w]) < StepsLeft(run[w])
                           \/ run[w].stage = "idle" /\ run'[w].job \notin cancelled
    /\ RunStep(w) /\ run[w].stage # "idle" => run'[w] # run[w]

LEMMA StepsLeftOK ==
    ASSUME NEW r, RunOK(r)
    PROVE  StepsLeft(r) \in Nat /\ (r.stage # "idle" => StepsLeft(r) > 0)
<1>1. r.stage \in Stages /\ r.cell \in 0 .. Cells + 1 /\ (r.stage = "cells" => r.cell <= Cells)
  BY Fields DEF RunOK
<1>2. QED
  BY <1>1, NotebookAssumption DEF StepsLeft, Stages

\* A run that leaves has nothing left to do.
LEMMA LeavingEnds ==
    ASSUME TypeInv, NEW w \in Workers, run[w].stage # "idle", Leave(w)
    PROVE  /\ StepsLeft(run'[w]) < StepsLeft(run[w])
           /\ \A v \in Workers \ {w} : run'[v] = run[v]
<1>1. run'[w] = Idle /\ \A v \in Workers \ {w} : run'[v] = run[v]
  BY DEF Leave, TypeInv, TypeOK
<1>2. StepsLeft(Idle) = 0
  BY DEF StepsLeft, Idle
<1>3. StepsLeft(run[w]) \in Nat /\ StepsLeft(run[w]) > 0
  BY StepsLeftOK DEF TypeInv
<1>4. QED
  BY <1>1, <1>2, <1>3

\* Every step of a run that has begun leaves fewer.
LEMMA RunStepEnds ==
    ASSUME TypeInv, NEW w \in Workers, run[w].stage # "idle",
           \/ RunStep(w) \/ PostFails(w) \/ CloseFails(w) \/ Killed(w)
    PROVE  /\ StepsLeft(run'[w]) < StepsLeft(run[w])
           /\ \A v \in Workers \ {w} : run'[v] = run[v]
<1> DEFINE Goal == /\ StepsLeft(run'[w]) < StepsLeft(run[w])
                   /\ \A v \in Workers \ {w} : run'[v] = run[v]
<1>1. run \in [Workers -> Run] /\ run[w] \in Run /\ Cells \in Nat
  BY NotebookAssumption DEF TypeInv, TypeOK
<1>2. /\ run[w].stage \in Stages /\ run[w].cell \in 0 .. Cells + 1
      /\ run[w].stage = "cells" => run[w].cell <= Cells
      /\ run[w].stage \in {"fetch", "post", "mkdir"} => run[w].cell = 0
  BY <1>1, Fields DEF TypeInv, RunOK
<1>3. ASSUME NEW s \in Stages \ {"cells"}, run'[w].stage = s,
             \A v \in Workers \ {w} : run'[v] = run[v],
             \/ run[w].stage = "fetch" /\ s = "post"
             \/ run[w].stage = "post" /\ s = "mkdir"
             \/ run[w].stage \in {"mkdir", "cells"} /\ s = "close"
             \/ run[w].stage = "close" /\ s = "save"
      PROVE  Goal
  BY <1>1, <1>2, <1>3 DEF StepsLeft, Stages
<1>4. ASSUME run'[w].stage = "cells", \A v \in Workers \ {w} : run'[v] = run[v],
             \/ run[w].stage = "mkdir" /\ run'[w].cell = 0
             \/ run[w].stage = "cells" /\ run'[w].cell = run[w].cell + 1
      PROVE  Goal
  BY <1>1, <1>2, <1>4 DEF StepsLeft
<1>5. CASE Fetch(w)
  BY <1>1, <1>3, <1>5 DEF Fetch, Transition, Run, Stages
<1>6. CASE PostSession(w)
  BY <1>1, <1>3, <1>6 DEF PostSession, Run, Stages
<1>7. CASE MakeDirectory(w)
  BY <1>1, <1>2, <1>3, <1>4, <1>7 DEF MakeDirectory, Run, Stages
<1>8. CASE RunCell(w)
  <2>1. /\ run[w].stage = "cells" /\ run'[w].cell = run[w].cell + 1
        /\ run'[w].stage \in {"cells", "close"} /\ \A v \in Workers \ {w} : run'[v] = run[v]
    BY <1>1, <1>8 DEF RunCell, Run
  <2>2. QED
    BY <1>3, <1>4, <2>1 DEF Stages
<1>9. CASE CellRaises(w)
  BY <1>1, <1>3, <1>9 DEF CellRaises, Run, Stages
<1>10. CASE Close(w)
  <2>1. CASE Leave(w)
    BY <2>1, LeavingEnds
  <2>2. CASE ~ Leave(w)
    BY <1>1, <1>3, <1>10, <2>2 DEF Close, Run, Stages
  <2>3. QED
    BY <2>1, <2>2
<1>11. CASE FetchRefused(w) \/ PostFails(w) \/ CloseFails(w) \/ Save(w) \/ SaveFails(w) \/ Killed(w)
  BY <1>11, LeavingEnds DEF FetchRefused, PostFails, CloseFails, Save, SaveFails, Killed
<1>12. QED
  BY <1>5, <1>6, <1>7, <1>8, <1>9, <1>10, <1>11 DEF RunStep, Deliver

LEMMA RunsGetOn == ASSUME TypeInv, [Next]_vars PROVE [\A w \in Workers : RunGetsOn(w)]_vars
<1>1. SUFFICES ASSUME Next, NEW w \in Workers PROVE RunGetsOn(w)
  OBVIOUS
<1>2. StepsLeft(run[w]) \in Nat
  BY StepsLeftOK DEF TypeInv
<1>3. CASE run[w].stage # "idle" /\ (RunStep(w) \/ PostFails(w) \/ CloseFails(w) \/ Killed(w))
  <2>1. StepsLeft(run'[w]) < StepsLeft(run[w])
    BY <1>3, RunStepEnds
  <2>2. run'[w] # run[w]
    BY <1>2, <2>1
  <2>3. QED
    BY <1>2, <2>1, <2>2 DEF RunGetsOn
<1>4. CASE run[w].stage = "idle" /\ RunStep(w)
  <2>1. PICK j \in Jobs : Deliver(w, j)
    BY <1>4 DEF RunStep, Fetch, FetchRefused, PostSession, MakeDirectory, RunCell, CellRaises,
       Close, Save, SaveFails, Transition
  <2>2. run'[w] # run[w] => run'[w].job \notin cancelled
    BY <2>1 DEF Deliver, TypeInv, TypeOK, Run
  <2>3. QED
    BY <1>2, <1>4, <2>2 DEF RunGetsOn
<1>5. ASSUME NEW v \in Workers \ {w},
             RunStep(v) \/ PostFails(v) \/ CloseFails(v) \/ Killed(v), ~ RunStep(w)
      PROVE  RunGetsOn(w)
  <2>1. CASE run[v].stage # "idle"
    BY <1>2, <1>5, <2>1, RunStepEnds DEF RunGetsOn
  <2>2. CASE run[v].stage = "idle"
    <3>1. PICK j \in Jobs : Deliver(v, j)
      BY <1>5, <2>2 DEF RunStep, Fetch, FetchRefused, PostSession, MakeDirectory, RunCell,
         CellRaises, Close, Save, SaveFails, Transition, PostFails, CloseFails, Killed
    <3>2. run'[w] = run[w]
      BY <3>1 DEF Deliver, TypeInv, TypeOK
    <3>3. QED
      BY <1>2, <1>5, <3>2 DEF RunGetsOn
  <2>3. QED
    BY <2>1, <2>2
<1>6. CASE run' = run /\ ~ RunStep(w)
  BY <1>2, <1>6 DEF RunGetsOn
<1>7. CASE ~ RunStep(w) /\ ~ PostFails(w) /\ ~ CloseFails(w) /\ ~ Killed(w)
  <2>1. \/ run' = run
        \/ \E v \in Workers \ {w} : RunStep(v) \/ PostFails(v) \/ CloseFails(v) \/ Killed(v)
    BY <1>1, <1>7 DEF Next, Cancel, Redeliver
  <2>2. QED
    BY <1>5, <1>6, <1>7, <2>1
<1>8. PostFails(w) \/ CloseFails(w) \/ Killed(w) => run[w].stage # "idle"
  BY DEF PostFails, CloseFails, Killed
<1>9. QED
  BY <1>3, <1>4, <1>7, <1>8

\* A cancelled job begins no further run, and each that has begun ends after
\* finitely many of its steps, whatever the kernel, other runs and faults do.
THEOREM RunsRunOut == Spec => [][\A w \in Workers : RunGetsOn(w)]_vars
<1>1. TypeInv /\ [Next]_vars => [\A w \in Workers : RunGetsOn(w)]_vars
  BY RunsGetOn
<1>2. QED
  BY <1>1, TypeInvInit, TypeInvStep, PTL DEF Spec
=============================================================================
