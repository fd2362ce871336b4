SPECIFICATION Spec
CONSTANTS
    i1 = i1
    i2 = i2
    i3 = i3
    None = None
    Invocations <- MCInvocations
    Texts <- MCTexts
    Measured <- MCMeasured
CHECK_DEADLOCK FALSE
SYMMETRY MCSymmetry
INVARIANTS RawIsNeverAnalysed ReportIsGrounded ReportIsOneRun
