---------------------------- MODULE MCHoleLedger ----------------------------
EXTENDS HoleLedger, TLC

CONSTANTS m1, m2

\* A release of one article is repaired; the other competes for its room.
OneOfTwo == {{m1}}
=============================================================================
