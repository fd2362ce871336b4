----------------------------- MODULE MCJobQueue -----------------------------
\* Model values of JobQueue for TLC: one PlanetIR job, one notebook job.
EXTENDS JobQueue, TLC
CONSTANTS planetir, notebook, w1, w2
MCJobs == {planetir, notebook}
MCNotebookJobs == {notebook}
MCWorkers == {w1, w2}
MCOneWorker == {w1}
MCAllFaults == {"child_lost", "restart", "audit_down", "overdue"}
MCSymmetry == Permutations(MCWorkers)
=============================================================================
