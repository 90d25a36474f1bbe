-------------------------- MODULE MCSegmentStream --------------------------
EXTENDS SegmentStream, TLC

CONSTANTS s1, s2

\* A short stream beside one longer than the window and the channel together
\* hold.
Sizes == s1 :> <<2>> @@ s2 :> <<1, 1, 1, 1, 1>>
=============================================================================
