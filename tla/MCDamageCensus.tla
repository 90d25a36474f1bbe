--------------------------- MODULE MCDamageCensus ---------------------------
EXTENDS DamageCensus, TLC

CONSTANTS i1, i2, r1

\* A set of one article of two slices and a volume; an item outside of it
\* shares the article.
MCTarget ==
    (r1 :> [slice |-> 2, files |-> {[name |-> "f", size |-> 3, part |-> 0, ids |-> <<1>>]},
            volumes |-> {[ids |-> {2}, blocks |-> 2]}])
    @@ (i2 :> [slice |-> 0, files |-> {[name |-> "g", size |-> 2, part |-> 0, ids |-> <<1>>]},
               volumes |-> {}])

MCSetsOf == (i1 :> <<r1>>) @@ (i2 :> <<>>)
MCStarts == {<<i1, "HoleRead">>, <<i2, "Operator">>}
MCConnections == <<4, 4>>
========================================================================
