---------------------------- MODULE ReplayedChain ----------------------------
(***************************************************************************)
(* What the chain store promises: whatever is accepted, undone and loaded  *)
(* again, the node's state is the one that replaying the chain from        *)
(* genesis gives, every block of it applies, and a chain only gives way to *)
(* a heavier one that shares all but its last blocks.                      *)
(***************************************************************************)
EXTENDS Integers, Sequences

CONSTANTS
    GenesisState,      \* the state of the empty chain
    Replay(_),         \* [state |-> what a chain leaves, sound |-> it all applies]
    WeightOf(_),       \* what fork choice compares
    UndoKeep           \* UNDO_KEEP (1200): how many blocks can be undone

VARIABLES chain,       \* the blocks above genesis
          state        \* the node's; a restart loads it from disk

vars == <<chain, state>>

Shared(c, d, n) == n <= 0 \/ SubSeq(c, 1, n) = SubSeq(d, 1, n)

Init == chain = <<>> /\ state = GenesisState

Becomes(replay) ==
    /\ replay.sound
    /\ state' = replay.state
    /\ WeightOf(replay.state) > WeightOf(state)

Adopt ==
    /\ Shared(chain, chain', Len(chain) - UndoKeep)
    /\ Becomes(Replay(chain'))

Next == Adopt

Spec == Init /\ [][Next]_vars
=============================================================================
