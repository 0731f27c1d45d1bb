---------------------------- MODULE MCChainStore ----------------------------
\* Midstate's chain r, l1, l2, l3 with a heavier rival m1, m2, and producers
\* that relay it, register two bonds, sign with them, spend and mint.
EXTENDS Producer

MCLinks == {"l1", "l2", "l3", "m1", "m2"}
MCPrev == [l1 |-> "r", l2 |-> "l1", l3 |-> "l2", m1 |-> "r", m2 |-> "m1"]
MCLinkWork == [l1 |-> 8, l2 |-> 8, l3 |-> 8, m1 |-> 20, m2 |-> 8]
MCLinkTime == [l1 |-> 0, l2 |-> 1, l3 |-> 2, m1 |-> 1, m2 |-> 2]

\* Harder while blocks come early and easier when they are late; up and down,
\* so that the least work of a window is now its first block's, now its last's.
MCTargetWork(h, t) == IF t > h THEN 4 ELSE IF t % 2 = 0 THEN 8 ELSE 6
MCReward(h) == IF h <= 5 THEN 6 ELSE 0
MCIssued(h) == 6 * Least(h - 1, 5)

Run(prev, links) == [prev |-> prev, links |-> links]
Reg(id, value, until, height, hash) ==
    [bond |-> [id |-> id, key |-> "k", value |-> value, until |-> until],
     proven |-> height, hash |-> hash]
Out(coin) == [coin |-> coin, owner |-> "o"]

Plain == [gap |-> 1, signer |-> NoSigner, relay |-> NoRun, regs |-> <<>>,
          spends |-> {}, groups |-> {}, paid |-> TRUE, owner |-> "o", kernels |-> {},
          overclaim |-> 0]

Unsigned == Plain
Kernel(id, height) == [id |-> id, minHeight |-> height]
Splits == [Plain EXCEPT !.groups = {{Out(11), Out(12)}}, !.kernels = {Kernel("k0", 0)}]
Relays == [Plain EXCEPT !.relay = Run("r", <<"l1", "l2">>)]
RegisterA == [Plain EXCEPT !.signer = "A", !.regs = <<Reg("A", 2, 9, 1, "l1")>>]
RegisterB == [Plain EXCEPT !.signer = "B", !.regs = <<Reg("B", 4, 6, 1, "l1")>>,
                           !.spends = {Out(12)},
                           !.kernels = {Kernel("k1", 2)}]
SignA == [Plain EXCEPT !.gap = 0, !.signer = "A", !.spends = {Out(11), Out(1)},
                       !.groups = {{Out(13)}}, !.kernels = {Kernel("k2", 0)}]
SignPlain == [Plain EXCEPT !.gap = 0, !.signer = "A"]
SignB == [Plain EXCEPT !.signer = "B", !.relay = Run("l2", <<"l3">>)]
SignBAgain == [Plain EXCEPT !.signer = "B"]
\* Revokes what the rival replaces and registers the same bond anew.
RelayFork == [Plain EXCEPT !.signer = "A", !.relay = Run("r", <<"m1", "m2">>),
                           !.regs = <<Reg("A", 2, 9, 1, "m1")>>,
                           !.spends = {Out(2)}, !.groups = {{Out(12)}},
                           !.kernels = {Kernel("k3", 0)}]
RelayForkSigned == [Plain EXCEPT !.signer = "A", !.relay = Run("r", <<"m1", "m2">>)]
RelayForkBare == [Plain EXCEPT !.relay = Run("r", <<"m1">>)]
LastOne == [Plain EXCEPT !.paid = FALSE, !.gap = 5]
Overclaims == [Plain EXCEPT !.overclaim = 1]

\* Producers: one without a bond, one whose co-bond waits behind its own, one
\* bound to the rival's headers, one whose own bond is too small by now.
BondA == [id |-> "A", regs |-> <<Reg("A", 2, 9, 1, "l1")>>,
          carries |-> [start |-> 1, prev |-> "r", links |-> <<"l1", "l2">>]]
BondB == [id |-> "B", regs |-> <<Reg("B", 4, 6, 1, "l1")>>, carries |-> NoRun]
BondM == [id |-> "A", regs |-> <<Reg("A", 2, 9, 1, "m1")>>,
          carries |-> [start |-> 1, prev |-> "r", links |-> <<"m1", "m2">>]]
Bare == [id |-> "B", regs |-> <<>>, carries |-> NoRun]
TooSmall == [id |-> "C", regs |-> <<Reg("C", 1, 9, 1, "l1")>>, carries |-> NoRun]
Mines(bonds) == [key |-> "k", bonds |-> bonds]
MCProducers == {Mines(<<>>), Mines(<<BondA, BondB>>), Mines(<<Bare, BondM>>),
                Mines(<<TooSmall, BondB>>)}

\* A producer's midstate node may be on either branch.
MCFeeds == {EmptyFeed, FeedWith(EmptyFeed, [start |-> 1, prev |-> "r", links |-> <<"l1", "l2", "l3">>], TRUE),
            FeedWith(EmptyFeed, [start |-> 1, prev |-> "r", links |-> <<"m1", "m2">>], TRUE)}

Tx(spends, groups, kernel, fee) ==
    [spends |-> spends, groups |-> groups, kernels |-> {kernel}, fee |-> fee]
MCPoolTxs == {Tx({Out(11)}, {{Out(14)}}, Kernel("k5", 0), 1),
              Tx({Out(12)}, {{Out(16)}}, Kernel("k1", 2), 3),
              Tx({Out(11), Out(12)}, {{Out(15)}}, Kernel("k6", 0), 3)}
MCPayouts == {<<1>>, <<1, 2, 1>>}

MCContents == {Unsigned, Splits, Relays, RegisterA, RegisterB, SignA, SignPlain, SignB, SignBAgain,
               RelayFork, RelayForkSigned, RelayForkBare, LastOne, Overclaims}
=============================================================================
