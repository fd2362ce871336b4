------------------------------ MODULE MCJobTimes ------------------------------
\* Model values of JobTimes for TLC; half an hour is one step, so that the
\* limits are those of config.py, the notebook's 4200 s rounded up.  A
\* week is shortened to twice the longest limit or less.
EXTENDS JobTimes, TLC
CONSTANTS p1, p2, p3
MCKinds == {"planetir", "isis3", "notebook"}
MCSlots == {p1, p2, p3}
=============================================================================
