----------------------------- MODULE MCCleanup -----------------------------
\* Model values of Cleanup and AdminCleanup for TLC.
EXTENDS AdminCleanup, TLC
CONSTANTS u1, o1, o2, root1, t1, t2, s1, s2, f1
MCOneUser == {u1}
MCOutputs == {o1, o2}
MCOwnerOf == (o1 :> u1) @@ (o2 :> u1)
MCOneAdmin == {root1}
MCTokens == {t1, t2}
MCSessions == {s1, s2}
MCAges == {0, 1}
MCFiles == {f1}
MCCreatedAt == (f1 :> 0)
MCSymmetry == Permutations(Sessions) \union Permutations(Tokens) \union Permutations(Outputs)
=============================================================================
