-------------------------------- MODULE MCNote --------------------------------
\* Model values of NoteDocument for TLC.
EXTENDS NoteDocument
CONSTANTS a, b, e1, e2
MCSids == {a, b}
MCEdits == {e1, e2}
=============================================================================
