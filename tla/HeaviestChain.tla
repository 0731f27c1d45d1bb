---------------------------- MODULE HeaviestChain ----------------------------
(***************************************************************************)
(* What following the chain promises, whatever arrives and in whatever     *)
(* order: the node's chain is a chain of sound blocks from genesis, it     *)
(* only ever gives way to a heavier one, and nothing below the finalized   *)
(* floor changes.                                                          *)
(***************************************************************************)
EXTENDS BlockTree

CONSTANT Sound      \* the blocks every rule of the chain accepts

VARIABLES chain, floor

vars == <<chain, floor>>

IsSoundChain(c) == IsChain(c) /\ \A i \in 2..Len(c) : c[i] \in Sound

\* Heights 0 .. h - 1 of the two chains agree.
AgreeBelow(c, d, h) == h <= Len(c) /\ h <= Len(d) /\ \A i \in 1..h : c[i] = d[i]

Init == chain = <<Genesis>> /\ floor = 0

Adopt ==
    /\ IsSoundChain(chain')
    /\ Weight[Tip(chain')] > Weight[Tip(chain)]
    /\ AgreeBelow(chain, chain', floor)
    /\ UNCHANGED floor

Finalize ==
    /\ floor' \in Nat /\ floor' > floor /\ floor' <= Len(chain)
    /\ UNCHANGED chain

Next == Adopt \/ Finalize

Spec == Init /\ [][Next]_vars
=============================================================================
