---------------------------- MODULE MCPublication ----------------------------
\* Model values of Publication for TLC: a preview image and a dated report.
EXTENDS Publication
CONSTANTS c1, c2, c3
MCThreeCalls == {c1, c2, c3}
MCReport == {2}
MCAll == {"call_fails", "rerun", "cleanup"}
=============================================================================
