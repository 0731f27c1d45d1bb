------------------------------- MODULE MCPeers -------------------------------
\* A pinned peer and one that is of another network, with addresses in two
\* subnets; under fairness, a pinned peer and one that takes its place.
EXTENDS MCPart, Peers

PAddrs == {"pa", "qa", "qb"}
PPeerOf == [pa |-> "p", qa |-> "q", qb |-> "q"]
PSubnetOf == [pa |-> "s", qa |-> "s", qb |-> "t"]
OneEach == {"pa", "qa"}
PeerOfEach == [pa |-> "p", qa |-> "q"]
SubnetOfEach == [pa |-> "s", qa |-> "s"]

ASSUME PeersAssumption

NextOfPeers == Pick("peers") /\ PeersNext

\* The tick comes, bans run out, what is closed closes and dials end, now and
\* then with the pinned peer reached.
DialFairness ==
    LET On(A) == part = "peers" /\ A
    IN  /\ WF_peerVars(On(Poll)) /\ WF_peerVars(On(Tick))
        /\ WF_peerVars(On(\E p \in Contacts : Close(p)))
        /\ \A a \in Pinned : SF_peerVars(On(Reached(a) \/ Denied(a)))

\* The operator's peers are connected again whatever cuts, fails or bans them for a
\* time, unless another peer holds the last slot of their subnet (poll_peers).
PinnedConnected == part = "peers" => PinnedReached
=============================================================================
