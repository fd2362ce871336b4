------------------------------ MODULE MCNotebook ------------------------------
\* Model values of NotebookRuntime for TLC.
EXTENDS NotebookRuntime, TLC
CONSTANTS j1, j2, w1, w2, stats
MCJobs == {j1, j2}
MCNotebooks == {stats}
MCNotebookOf == [j \in MCJobs |-> stats]
MCWorkers == {w1, w2}
=============================================================================
