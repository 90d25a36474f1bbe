--------------------------- MODULE MCRepairAttempt --------------------------
EXTENDS RepairAttempt

\* Articles that do not line up with slices; one ends before its file does.
MCPiece ==
    <<[size |-> 6, carried |-> TRUE,
       articles |-> <<[id |-> "a1", offset |-> 0, len |-> 3], [id |-> "a2", offset |-> 3, len |-> 3]>>],
      [size |-> 5, carried |-> TRUE, articles |-> <<[id |-> "b1", offset |-> 0, len |-> 2]>>],
      [size |-> 1, carried |-> FALSE, articles |-> <<>>]>>
MCVolume == <<2, 3>>
=============================================================================
