-------------------------------- MODULE MCStac --------------------------------
\* Model values of StacSearch for TLC.
EXTENDS StacSearch, TLC
CONSTANTS a, b, next1, next2
MCProducts == {a, b}
MCLinks == {next1, next2}
MCLimits == {0, 2, 3}
\* Below, at and above what three pages can hold.
MCCounts == 0 .. 7
=============================================================================
