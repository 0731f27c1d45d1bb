------------------------------- MODULE MCNode -------------------------------
\* The node's chain and what stands beside it, each in a part of its own.
EXTENDS MCChainNode, MCWallet, MCPeers

besideVars == <<walletVars, peerVars>>
NodeInit == part \in Checked /\ Init /\ WalletInit /\ PeersInit

BesideNext ==
    \/ Pick("chain") /\ Next /\ UNCHANGED besideVars
    \/ NextOfWallet /\ UNCHANGED <<vars, peerVars>>
    \/ NextOfPeers /\ UNCHANGED <<vars, walletVars>>
    \* Of these only the node never stops.
    \/ part # "chain" /\ UNCHANGED <<part, vars, besideVars>>

NodeSpec == NodeInit /\ [][BesideNext]_<<part, vars, besideVars>>
FairNode == NodeSpec /\ Fairness /\ DialFairness
=============================================================================
