--------------------------- MODULE MCFinalityFloor ---------------------------
\* A main line g, a1 .. a5 and a rival g, a1, b2, b3; the short tree stops at
\* a4 and b2, where the larger constants would make the search slow.
EXTENDS FinalityFloor

Above == [a1 |-> "g", a2 |-> "a1", a3 |-> "a2", a4 |-> "a3", a5 |-> "a4",
          b2 |-> "a1", b3 |-> "b2"]
HeightOf == [g |-> 0, a1 |-> 1, a2 |-> 2, a3 |-> 3, a4 |-> 4, a5 |-> 5, b2 |-> 2,
             b3 |-> 3]

MCBlocks == DOMAIN HeightOf
MCParent == [b \in MCBlocks \ {"g"} |-> Above[b]]
MCHeight == HeightOf
MCWeight == [b \in MCBlocks |-> HeightOf[b] + 1]

=============================================================================
