----------------------------- MODULE MCChainNode -----------------------------
\* A line g, a1, a2, a3 and its rivals: c1 outweighs the run a1 .. a3 (a2 and a3
\* count for a sliver) and c2 builds on it; b2 and x2 part from the line one
\* block later.
EXTENDS ChainNode

Above == [a1 |-> "g", a2 |-> "a1", a3 |-> "a2", b2 |-> "a1", x2 |-> "a1",
          c1 |-> "g", c2 |-> "c1"]
HeightOf == [g |-> 0, a1 |-> 1, a2 |-> 2, a3 |-> 3, b2 |-> 2, x2 |-> 2, c1 |-> 1,
             c2 |-> 2]
WeightOf == [g |-> 0, a1 |-> 10, a2 |-> 11, a3 |-> 12, b2 |-> 20, x2 |-> 30,
             c1 |-> 15, c2 |-> 26]

Only(names, f) == [b \in names \ {"g"} |-> f[b]]
All(names, f) == [b \in names |-> f[b]]

\* Rivals that part at different heights.
WideBlocks == {"g", "a1", "a2", "b2", "c1", "c2"}
WideParent == Only(WideBlocks, Above)
WideHeight == All(WideBlocks, HeightOf)
WideWeight == All(WideBlocks, WeightOf)

\* A line and a rival, with orphans of three parents.
RivalBlocks == {"g", "a1", "a2", "a3", "b2", "c1", "c2"}
RivalParent == Only(RivalBlocks, Above)
RivalHeight == All(RivalBlocks, HeightOf)
RivalWeight == All(RivalBlocks, WeightOf)

\* The least tree with a block that outweighs a longer chain, and a bad one that
\* claims to.
HearBlocks == {"g", "a1", "a2", "x2", "c1"}
HearParent == Only(HearBlocks, Above)
HearHeight == All(HearBlocks, HeightOf)
HearWeight == All(HearBlocks, WeightOf)
=============================================================================
