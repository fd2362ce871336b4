------------------------------ MODULE MCWorkflow ------------------------------
\* Model values of WorkflowGraph for TLC: 1 and 234 are measured, 7 is not;
\* <<1, 234>> is the number that is written 1,234.
EXTENDS WorkflowGraph, TLC
CONSTANTS i1, i2, i3
MCInvocations == {i1, i2, i3}
MCMeasured == {1, 234}
MCTexts == {{}, {<<7>>}, {<<1>>, <<1, 234>>}}
MCSymmetry == Permutations(Invocations)
=============================================================================
