----------------------------- MODULE BlockTree -----------------------------
(***************************************************************************)
(* The blocks a node can hear of, as the tree their previous-header hashes *)
(* make.  A block's hash commits to everything below it, so a block IS its *)
(* whole history: two chains that hold the same block at a height agree on *)
(* every height below.  What a block adds to fork choice is its claimed    *)
(* chain weight (the header's chain_weight, checked when it is applied).   *)
(***************************************************************************)
EXTENDS Integers, Sequences, FiniteSets

CONSTANTS
    Blocks,     \* every block, valid or not
    Genesis,    \* the block at height 0
    Parent,     \* [Blocks \ {Genesis} -> Blocks]: prev_header_hash
    Height,     \* [Blocks -> Nat]
    Weight      \* [Blocks -> Nat]: chain_weight

\* A block stands one above its parent.  What it may add to the weight is a
\* matter of its validity, which is not known here.
ASSUME BlockTreeAssumption ==
    /\ Genesis \in Blocks
    /\ Parent \in [Blocks \ {Genesis} -> Blocks]
    /\ Height \in [Blocks -> Nat]
    /\ Weight \in [Blocks -> Nat]
    /\ Height[Genesis] = 0
    /\ \A b \in Blocks \ {Genesis} : Height[b] = Height[Parent[b]] + 1

\* chain[h + 1] is the block at height h: the HEADERS table, Genesis first.
IsChain(chain) ==
    /\ chain \in Seq(Blocks)
    /\ Len(chain) > 0
    /\ chain[1] = Genesis
    /\ \A i \in 2..Len(chain) :
          chain[i] # Genesis /\ Parent[chain[i]] = chain[i - 1]

Tip(chain) == chain[Len(chain)]

Among(b, blks) == \E i \in 1..Len(blks) : blks[i] = b

\* Blocks 0 .. first - 1 kept, blk put at height first.
Replaced(chain, first, blk) == Append(SubSeq(chain, 1, first), blk)
=============================================================================
