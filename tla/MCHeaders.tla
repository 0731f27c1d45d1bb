----------------------------- MODULE MCHeaders ------------------------------
(***************************************************************************)
(* Our line g, a1 .. a3, a peer's line that leaves it after a1 or a2, and  *)
(* two heavier blocks a liar may show: f4's header does not verify, u2's   *)
(* body does not apply.  s2 is a block that alone outweighs our line, and  *)
(* v2 one that claims to and whose body does not apply.                    *)
(***************************************************************************)
EXTENDS MCPart, HeaderSync

HBlocks == {"g", "a1", "a2", "a3", "b1", "b2", "b3", "b4", "f4", "u2", "s2", "v2"}
HParent == [a1 |-> "g", a2 |-> "a1", a3 |-> "a2", b1 |-> "a1", b2 |-> "b1", b3 |-> "b2",
            b4 |-> "b3", f4 |-> "b2", u2 |-> "b1", s2 |-> "a1", v2 |-> "a1"]
HHeight == [g |-> 0, a1 |-> 1, a2 |-> 2, a3 |-> 3, b1 |-> 2, b2 |-> 3, b3 |-> 4,
            b4 |-> 5, f4 |-> 4, u2 |-> 3, s2 |-> 2, v2 |-> 2]
HWeight == [g |-> 0, a1 |-> 1, a2 |-> 2, a3 |-> 3, b1 |-> 2, b2 |-> 3, b3 |-> 4,
            b4 |-> 5, f4 |-> 8, u2 |-> 7, s2 |-> 6, v2 |-> 7]
ChainTo ==
    LET chain[b \in HBlocks] == IF b = "g" THEN <<b>> ELSE Append(chain[HParent[b]], b)
    IN  [b \in HBlocks |-> chain[b]]

\* Two disturbances of a session with a liar about.
HSmall == HBlocks \ {"s2", "v2"}
HParents == [b \in HSmall \ {"g"} |-> HParent[b]]
HHeights == [b \in HSmall |-> HHeight[b]]
HWeights == [b \in HSmall |-> HWeight[b]]
HChains == [b \in HSmall |-> ChainTo[b]]
HTips == [h |-> "b3", l |-> "g"]
\* A heavier chain shorter than ours is followed in spite of the liar.
Follow == INSTANCE HeaderSync WITH
    Blocks <- {"g", "a1", "a2", "a3", "s2", "v2"}, Genesis <- "g", Parent <- HParent,
    Height <- HHeight, ChainOf <- ChainTo, Weight <- HWeight, Servers <- {"h", "l"}, Liars <- {"l"},
    Prompt <- {"h"}, Outbound <- {"h"}, FirstTip <- "a3",
    PeerTips <- [h |-> "s2", l |-> "g"], Forged <- {}, Unsound <- {"v2"},
    PerRequest <- 2, QueueLimit <- 1, InitialStep <- 1, StepLimit <- 8,
    ReorgLimit <- 2, StrikesToBan <- 2, MaxDisturbed <- 1, NoSession <- None,
    NoBlock <- None

HeaderInit == IF part = "follow" THEN Follow!SyncInit ELSE SyncInit
HeaderNext == (Pick("headers") /\ SyncNext) \/ (Pick("follow") /\ Follow!SyncNext)

HeaderFairness ==
    LET InFollow(A) == part = "follow" /\ A
        prompt == session # None /\ session.peer = "h"
    IN  /\ WF_headerVars(InFollow(Follow!Unbar("h"))) /\ WF_headerVars(InFollow(Follow!Unbar("l")))
        /\ WF_headerVars(InFollow(Follow!HearState("h")))
        /\ WF_headerVars(InFollow(prompt /\ Follow!Headers))
        /\ WF_headerVars(InFollow(prompt /\ Follow!BlocksApplied))
        /\ WF_headerVars(InFollow(Follow!HeadersVerified))
        /\ WF_headerVars(InFollow(Follow!Timeout))

\* A heavier chain is followed in the end, whatever liars claim (start_sync).
CatchesUp == part = "follow" => Follow!OvertakenInTheEnd
=============================================================================
