---------------------------- MODULE MCJobService ----------------------------
\* Model values of JobService for TLC.
EXTENDS JobService, TLC
CONSTANTS j1, j2, j3, h1, h2, h3, alice, bob
MCOneJob == {j1}
MCThreeJobs == {j1, j2, j3}
MCOneUser == {alice}
MCTwoUsers == {alice, bob}
MCTwoHandlers == {h1, h2}
MCThreeHandlers == {h1, h2, h3}
MCScience == {"science"}
MCBothKinds == {"science", "notebook"}
MCSubmit == {"submit"}
MCAllRequests == {"submit", "status", "cancel", "publish"}
MCSymmetry == Permutations(Jobs) \union Permutations(Handlers) \union Permutations(Users)
=============================================================================
