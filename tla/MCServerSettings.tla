--------------------------- MODULE MCServerSettings ---------------------------
EXTENDS ServerSettings

MCEntry == {[id |-> "a", priority |-> 1, enabled |-> TRUE, connections |-> 1],
            [id |-> "a", priority |-> 1, enabled |-> FALSE, connections |-> 1],
            [id |-> "b", priority |-> 0, enabled |-> TRUE, connections |-> 1]}
MCSetting == {<<1>>}
MCDefaults == <<0>>
=============================================================================
