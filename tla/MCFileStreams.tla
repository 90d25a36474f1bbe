--------------------------- MODULE MCFileStreams ---------------------------
EXTENDS FileStreams

\* Two volumes with headers of two and four bytes; in the second a segment
\* ends within a block.
Volumes == <<[segs |-> <<6, 6>>, start |-> 2, size |-> 8],
             [segs |-> <<7, 3>>, start |-> 4, size |-> 6]>>
Segs == <<4, 4, 4, 3>>
Headers == {{}, {2}}
Specs == {[kind |-> "suffix", n |-> n, start |-> 0, end |-> 0] : n \in {0, 3, 14, 16}}
    \union {[kind |-> "open", n |-> 0, start |-> s, end |-> 0] : s \in {0, 5, 9, 13, 15}}
    \union {[kind |-> "full", n |-> 0, start |-> s, end |-> e] : s \in {0, 3, 8, 11}, e \in {0, 9, 20}}
RangeHeaders == {<<>>} \union {<<a>> : a \in Specs} \union
    {<<a, b>> : a \in {s \in Specs : s.kind = "open"}, b \in {s \in Specs : s.kind = "suffix"}}
=============================================================================
