------------------------------- MODULE Wallet -------------------------------
(***************************************************************************)
(* The command-line wallet (src/src/wallet/mod.rs, and the wallet commands *)
(* of bin/main.rs): a file, a command at a time that opens it, and a node  *)
(* whose chain moves between any two of the command's requests.            *)
(*                                                                         *)
(* A transaction is what it spends and what it pays this wallet.  Those of *)
(* strangers and of another copy of the wallet are given; a payment of the *)
(* wallet itself has the number it was built under, and its change is the  *)
(* coin of that number.  A block is its id, the one before it and its      *)
(* transactions; heights count from 0.  A coinbase's coin is a             *)
(* transaction's, and its maturity and the amounts paid are left out: a    *)
(* payment spends any coins that are free.                                 *)
(***************************************************************************)
EXTENDS Integers, FiniteSets, Sequences, SequencesExt, FiniteSetsExt

CONSTANTS
    Given,          \* strangers' transactions and another copy's
    Spends, Pays,   \* what each of them spends, and pays this wallet
    Birth,
    Window,         \* REORG_WINDOW
    Back,           \* how far one step back goes (11)
    Page,           \* blocks a request asks for (64)
    Rounds, MaxRollbacks,
    MaxBlocks, MaxCommands, MaxMoves,  \* both together
    MaxPayments, MaxPerBlock,
    Prunes,         \* whether the node prunes
    Meets,          \* which of "replaced" and "rescanned" a wallet meets: blocks
                    \* replaced that it read the unspent outputs of, and a rescan
                    \* from below where it did so
    Unset

WalletAssumption ==
    /\ Birth \in Nat /\ Window \in Nat \ {0} /\ Back \in 1..Window /\ Page \in Nat \ {0}
    /\ Rounds \in Nat \ {0} /\ MaxRollbacks \in Nat
    /\ Prunes \in BOOLEAN /\ Meets \subseteq {"replaced", "rescanned"}
\* What Unset stands for is no height and no payment.
UnsetIsNothing == Unset \notin Int

VARIABLES
    nodeChain,      \* the node's blocks
    broadcast,      \* the wallet's payments any node has heard of
    pruned,         \* pruned_below
    made,           \* blocks made so far
    built,          \* what each payment ever built spends
    file,           \* the wallet on disk
    mem,            \* the wallet of the command that runs
    command, phase, tip, round, rollbacks,
    commands,
    guessed,        \* payments settled without their block
    restoredTo      \* up to where the wallet read unspent outputs for blocks

nodeVars == <<nodeChain, broadcast, pruned, made>>
commandVars == <<command, phase, tip, round, rollbacks>>
walletGhosts == <<guessed, restoredTo>>
walletVars == <<nodeVars, built, file, mem, commandVars, commands, walletGhosts>>

FreshWallet == [scanned |-> Birth, recent |-> <<>>, coins |-> {}, sent |-> <<>>,
                birth |-> Birth]

WalletInit ==
    /\ nodeChain = <<[id |-> 0, prev |-> Unset, txs |-> {}]>>
    /\ broadcast = {} /\ pruned = 0 /\ made = 0 /\ built = <<>>
    /\ file = FreshWallet /\ mem = FreshWallet
    /\ command = Unset /\ phase = "idle" /\ tip = 0 /\ round = 0 /\ rollbacks = 0 /\ commands = 0
    /\ guessed = {} /\ restoredTo = 0

(***************************************************************************)
(* Transactions and the node                                               *)
(***************************************************************************)
Ins(t) == IF t \in Given THEN Spends[t] ELSE built[t]
Outs(t) == IF t \in Given THEN Pays[t] ELSE {t}

TxsOf(blocks) == UNION {blocks[i].txs : i \in DOMAIN blocks}
Unspent(blocks) == UNION {Outs(t) : t \in TxsOf(blocks)} \ UNION {Ins(t) : t \in TxsOf(blocks)}
Applies(t, blocks) == t \notin TxsOf(blocks) /\ Ins(t) \subseteq Unspent(blocks)
Compatible(txs) == \A s, t \in txs : s # t => Ins(s) \cap Ins(t) = {}

\* The node's chain grows by a block, or one replaces its last blocks: any
\* transactions that apply, but for payments nobody heard of.
MayReorganise(replaced) ==
    /\ replaced < Len(nodeChain) /\ Len(nodeChain) - replaced >= pruned
    /\ IF "replaced" \in Meets THEN TRUE
       ELSE replaced = 0 \/ Len(nodeChain) - replaced >= restoredTo

ChainMoves(replaced, txs) ==
    LET kept == SubSeq(nodeChain, 1, Len(nodeChain) - replaced)
    IN  /\ made < MaxBlocks /\ made + commands < MaxMoves /\ made' = made + 1
        /\ MayReorganise(replaced) /\ Cardinality(txs) <= MaxPerBlock /\ Compatible(txs)
        /\ \A t \in txs : Applies(t, kept)
        /\ nodeChain' = Append(kept, [id |-> made + 1, prev |-> kept[Len(kept)].id, txs |-> txs])
        /\ UNCHANGED <<broadcast, pruned, built, file, mem, commandVars, commands, walletGhosts>>

Prune ==
    /\ Prunes /\ pruned = 0 /\ Len(nodeChain) > 2
    /\ pruned' = Len(nodeChain) - 1
    /\ UNCHANGED <<nodeChain, broadcast, made, built, file, mem, commandVars, commands,
                   walletGhosts>>

(***************************************************************************)
(* The wallet's records                                                    *)
(***************************************************************************)
IsPending(s) == s.height = Unset /\ s.failed = Unset /\ ~s.cancelled
From(h, at) == at # Unset /\ at >= h
RecordedHash(w, h) ==
    LET at == {i \in DOMAIN w.recent : w.recent[i].height = h}
    IN  IF at = {} THEN Unset ELSE w.recent[Min(at)].id
HeldCoins(w) == {c.coin : c \in w.coins}

\* reserved_for: the first payment that waits for a block and spends the coin.
ReservedForNone(coin, sent) == Unset
ReservedFor(coin, sent) ==
    LET at == {i \in DOMAIN sent : IsPending(sent[i]) /\ coin \in sent[i].inputs}
    IN  IF at = {} THEN Unset ELSE sent[Min(at)].id

SpentEver(c, height) == c.spent
SpentBelow(c, height) == IF From(height, c.spent) THEN Unset ELSE c.spent

\* rollback_to: forgets what blocks from `height` on said.  Payments they settled
\* wait again and reserve their coins.
RollbackTo(w, height) ==
    LET unsettled(s) == From(height, s.height) \/ From(height, s.failed)
        undone(s) == [s EXCEPT !.height = IF From(height, @) THEN Unset ELSE @,
                               !.failed = IF From(height, @) THEN Unset ELSE @]
        claims(coin) == {i \in DOMAIN w.sent : /\ unsettled(w.sent[i]) /\ ~w.sent[i].cancelled
                                               /\ coin \in w.sent[i].inputs}
        kept(c) == [c EXCEPT !.spent = SpentBelow(c, height),
                             !.pending = IF SpentBelow(c, height) = Unset /\ claims(c.coin) # {}
                                         THEN w.sent[Max(claims(c.coin))].id ELSE @]
    IN  [w EXCEPT !.coins = {kept(c) : c \in {d \in w.coins : d.height < height}},
                  !.sent = [i \in DOMAIN w.sent |-> undone(w.sent[i])],
                  !.recent = SelectSeq(@, LAMBDA r : r.height < height),
                  !.scanned = Min({@, height})]

\* Coins found again after a rollback stay reserved for the payment that waits.
WithCoins(w, found) ==
    [w EXCEPT !.coins = @ \cup {[coin |-> f.coin, height |-> f.height, spent |-> Unset,
                                 pending |-> ReservedFor(f.coin, w.sent)] :
                                   f \in {g \in found : g.coin \notin HeldCoins(w)}}]

\* scan_block, for the next block.
Builds(w, block) == RecordedHash(w, w.scanned - 1) \in {Unset, block.prev}
SettledAt(s) == IF s.height # Unset THEN s.height ELSE s.failed
ScanBlock(w, block) ==
    LET h == w.scanned
        taken == UNION {Ins(t) : t \in block.txs}
        seen(s) ==
            IF s.height # Unset \/ s.failed # Unset THEN s
            ELSE IF s.id \in block.txs THEN [s EXCEPT !.height = h]
            ELSE IF s.inputs \cap taken # {} THEN [s EXCEPT !.failed = h] ELSE s
        old(s) == IF SettledAt(s) # Unset /\ h >= SettledAt(s) + Window
                  THEN [s EXCEPT !.kept = FALSE] ELSE s
        gone == [w EXCEPT !.coins = {IF c.spent = Unset /\ c.coin \in taken
                                     THEN [c EXCEPT !.spent = h, !.pending = Unset] ELSE c :
                                        c \in @},
                          !.sent = [i \in DOMAIN @ |-> seen(@[i])]]
        recent == Append(w.recent, [height |-> h, id |-> block.id])
    IN  [WithCoins(gone, {[coin |-> c, height |-> h] : c \in UNION {Outs(t) : t \in block.txs}})
            EXCEPT !.sent = [i \in DOMAIN @ |-> old(@[i])],
                   !.recent = IF Len(recent) > Window THEN Tail(recent) ELSE recent,
                   !.scanned = h + 1]

\* scan_unspent: the outputs unspent on a chain instead of its blocks.
MinedAt(coin) == (CHOOSE i \in DOMAIN nodeChain : \E t \in nodeChain[i].txs : coin \in Outs(t)) - 1
ScanUnspent(w, at) ==
    LET live == Unspent(nodeChain)
        found == WithCoins(w, {[coin |-> c, height |-> MinedAt(c)] : c \in live})
        gone(s) == s.height = Unset /\ s.failed = Unset /\ s.inputs \cap live = {}
    IN  [found EXCEPT
            !.coins = {IF c.spent = Unset /\ c.coin \notin live
                       THEN [c EXCEPT !.spent = at, !.pending = Unset] ELSE c : c \in @},
            !.sent = [i \in DOMAIN @ |-> IF gone(@[i])
                                         THEN [@[i] EXCEPT !.height = at, !.kept = FALSE]
                                         ELSE @[i]],
            !.scanned = at, !.recent = <<>>]

\* settle_orphans: payments whose coins are not on the chain any more.
SettleOrphans(w) ==
    LET unspent == {c.coin : c \in {d \in w.coins : d.spent = Unset}}
        orphaned(s) == IsPending(s) /\ ~(s.inputs \subseteq unspent)
        ids == {w.sent[i].id : i \in {j \in DOMAIN w.sent : orphaned(w.sent[j])}}
    IN  [w EXCEPT !.sent = [i \in DOMAIN @ |-> IF orphaned(@[i])
                               THEN [@[i] EXCEPT !.failed = Max({0, w.scanned - 1})] ELSE @[i]],
                  !.coins = {IF c.pending \in ids THEN [c EXCEPT !.pending = Unset] ELSE c :
                                c \in @}]

\* cancel_pending: a payment that waits is cancelled, and its coins are released.
Reserves(w, p) == {c \in w.coins : c.pending = p}
Cancelled(w, p) ==
    [w EXCEPT !.sent = [i \in DOMAIN @ |-> IF @[i].id = p /\ IsPending(@[i])
                           THEN [@[i] EXCEPT !.cancelled = TRUE, !.kept = FALSE] ELSE @[i]],
              !.coins = {IF c.pending = p THEN [c EXCEPT !.pending = Unset] ELSE c : c \in @}]

(***************************************************************************)
(* A command                                                               *)
(***************************************************************************)
Idle == /\ command' = Unset /\ phase' = "idle" /\ mem' = FreshWallet
        /\ tip' = 0 /\ round' = 0 /\ rollbacks' = 0

\* rescan: forget what was scanned from a height on.
Rescanned(w, from) == [RollbackTo(w, from) EXCEPT !.birth = Min({@, from})]

Open(name) ==
    /\ phase = "idle" /\ commands < MaxCommands /\ made + commands < MaxMoves
    /\ commands' = commands + 1
    /\ command' = name /\ phase' = "sync" /\ round' = 0 /\ rollbacks' = 0 /\ tip' = 0
    /\ IF name = "rescan"
       THEN \E from \in 0..file.scanned :
               /\ "rescanned" \notin Meets => from < pruned \/ from > restoredTo
               /\ mem' = Rescanned(file, from)
       ELSE mem' = file
    /\ UNCHANGED <<nodeVars, built, file, walletGhosts>>

\* The command fails, or ends before its time: what it did not save is lost.
Fails ==
    /\ phase # "idle" /\ Idle
    /\ UNCHANGED <<nodeVars, built, file, commands, walletGhosts>>

\* sync asks for the node's tip: a node behind this wallet is waited for.
Begin ==
    /\ phase = "sync" /\ tip' = Len(nodeChain)
    /\ IF Len(nodeChain) < mem.scanned
       THEN file' = mem /\ phase' = "synced"
       ELSE phase' = "last" /\ UNCHANGED file
    /\ UNCHANGED <<nodeVars, built, mem, command, round, rollbacks, commands, walletGhosts>>

\* step_back: past the oldest hash kept, from the wallet's birth.
SteppedBack(w) ==
    LET to == Max({w.birth, w.scanned - Back})
    IN  RollbackTo(w, IF to > w.birth /\ RecordedHash(w, to - 1) = Unset THEN w.birth ELSE to)
StepBack(w) == /\ rollbacks < MaxRollbacks /\ rollbacks' = rollbacks + 1
               /\ mem' = SteppedBack(w)

\* check_last_block, a request at a time.
LastReplaced(w, h) ==
    /\ h > 0 /\ h <= tip /\ RecordedHash(w, h - 1) # Unset
    /\ h <= Len(nodeChain) /\ nodeChain[h].id # RecordedHash(w, h - 1)
CheckLastBlock ==
    /\ phase = "last"
    /\ IF LastReplaced(mem, mem.scanned)
       THEN StepBack(mem) /\ UNCHANGED phase
       ELSE /\ phase' = IF mem.scanned < pruned THEN "restore" ELSE "scan"
            /\ UNCHANGED <<mem, rollbacks>>
    /\ UNCHANGED <<nodeVars, built, file, command, tip, round, commands, walletGhosts>>

RestoreFromUnspent ==
    /\ phase = "restore" /\ phase' = "scan"
    /\ mem' = ScanUnspent(mem, tip)
    /\ guessed' = guessed \cup {mem.sent[i].id : i \in {j \in DOMAIN mem.sent :
                                   mem'.sent[j].height # mem.sent[j].height}}
    /\ restoredTo' = Max({restoredTo, Len(nodeChain)})
    /\ UNCHANGED <<nodeVars, built, file, command, tip, round, rollbacks, commands>>

\* scan_forward, a request at a time: the blocks that build on what is scanned,
\* and a step back at the first that does not.
Fetched(start, count) ==
    IF start < pruned THEN <<>>
    ELSE SubSeq(nodeChain, start + 1, Min({start + count, Len(nodeChain)}))
ReadOn(at, block) ==
    IF at.ok /\ Builds(at.w, block) THEN [w |-> ScanBlock(at.w, block), ok |-> TRUE]
    ELSE [w |-> at.w, ok |-> FALSE]
Scanned(w, blocks) ==
    LET read[i \in 0..Len(blocks)] ==
            IF i = 0 THEN [w |-> w, ok |-> TRUE] ELSE ReadOn(read[i - 1], blocks[i])
    IN  read[Len(blocks)]
AfterRound(w) == IF w.scanned < tip /\ round + 1 < Rounds THEN "last" ELSE "save"
ScanForward ==
    LET blocks == Fetched(mem.scanned, Min({tip - mem.scanned, Page}))
        result == Scanned(mem, blocks)
    IN  /\ phase = "scan"
        /\ IF mem.scanned >= tip \/ blocks = <<>>
           THEN /\ phase' = AfterRound(mem) /\ round' = round + 1 /\ UNCHANGED <<mem, rollbacks>>
           ELSE /\ UNCHANGED <<phase, round>>
                /\ IF result.ok THEN mem' = result.w /\ UNCHANGED rollbacks ELSE StepBack(result.w)
        /\ UNCHANGED <<nodeVars, built, file, command, tip, commands, walletGhosts>>

\* The end of a sync: settle_orphans and look_at_mempool, which broadcasts again
\* what waits, if it has caught up, and what it learned is saved.
Due(w) == {w.sent[i].id : i \in {j \in DOMAIN w.sent : IsPending(w.sent[j]) /\ w.sent[j].kept}}
SaveSync ==
    /\ phase = "save"
    /\ file' = IF mem.scanned >= tip THEN SettleOrphans(mem) ELSE mem
    /\ broadcast' = broadcast \cup (IF mem.scanned >= tip THEN Due(file') ELSE {})
    /\ IF command = "send"
       THEN mem' = file' /\ phase' = "synced" /\ UNCHANGED <<command, tip, round, rollbacks>>
       ELSE Idle
    /\ UNCHANGED <<nodeChain, pruned, made, built, commands, walletGhosts>>

\* build_send: some of the coins that are neither spent nor reserved.
Free(w) == {c.coin : c \in {d \in w.coins : d.spent = Unset /\ d.pending = Unset}}
Sent(id, inputs) == [id |-> id, inputs |-> inputs, kept |-> TRUE, height |-> Unset,
                     failed |-> Unset, cancelled |-> FALSE]
BuildSend(inputs) ==
    LET id == Len(built) + 1
    IN  /\ phase = "synced" /\ command = "send" /\ id <= MaxPayments
        /\ inputs # {} /\ inputs \subseteq Free(mem)
        /\ built' = Append(built, inputs)
        /\ mem' = [mem EXCEPT !.sent = Append(@, Sent(id, inputs)),
                              !.coins = {IF c.coin \in inputs THEN [c EXCEPT !.pending = id] ELSE c :
                                            c \in @}]
        /\ phase' = "built"
        /\ UNCHANGED <<nodeVars, file, command, tip, round, rollbacks, commands, walletGhosts>>

\* The payment is submitted, and saved once the node has taken it.
SubmitPayment ==
    /\ phase = "built" /\ phase' = "sent"
    /\ broadcast' = broadcast \cup {Len(built)}
    /\ UNCHANGED <<nodeChain, pruned, made, built, file, mem, command, tip, round, rollbacks,
                   commands, walletGhosts>>
Sends ==
    /\ phase = "sent" /\ file' = mem /\ Idle
    /\ UNCHANGED <<nodeVars, built, commands, walletGhosts>>

\* wallet cancel, on the file.
Cancel(p) ==
    /\ phase = "idle" /\ commands < MaxCommands /\ made + commands < MaxMoves
    /\ commands' = commands + 1
    /\ \/ Reserves(file, p) # {}
       \/ \E i \in DOMAIN file.sent : file.sent[i].id = p /\ IsPending(file.sent[i])
    /\ file' = Cancelled(file, p)
    /\ UNCHANGED <<nodeVars, built, mem, commandVars, walletGhosts>>

WalletNext ==
    \/ \E k \in 0..Len(nodeChain) - 1, txs \in SUBSET (Given \cup broadcast) : ChainMoves(k, txs)
    \/ Prune
    \/ \E name \in {"sync", "send", "rescan"} : Open(name)
    \/ Fails \/ Begin \/ CheckLastBlock \/ RestoreFromUnspent \/ ScanForward \/ SaveSync
    \/ SubmitPayment \/ Sends
    \/ \E inputs \in SUBSET Free(mem) : BuildSend(inputs)
    \/ \E p \in DOMAIN built : Cancel(p)

WalletSpec == WalletInit /\ [][WalletNext]_walletVars

(***************************************************************************)
(* Properties                                                              *)
(***************************************************************************)
\* A wallet's last block is the node's: so is every block it scanned.
OnNodesChain(w) ==
    /\ w.recent # <<>> /\ w.scanned <= Len(nodeChain)
    /\ w.recent[Len(w.recent)].id = nodeChain[w.scanned].id
BornFrom(w, blocks) == SubSeq(blocks, w.birth + 1, Len(blocks))

\* Whatever moved, failed or was cut off on the way, a wallet on the node's chain
\* holds as unspent what that chain leaves it, and knows the blocks of its payments
\* (scan_block, rollback_to, step_back, scan_unspent).
CoinsOnChain(w) ==
    LET blocks == SubSeq(nodeChain, 1, w.scanned)
        mine == UNION {Outs(t) : t \in TxsOf(BornFrom(w, blocks))}
        unspent == {c.coin : c \in {d \in w.coins : d.spent = Unset}}
    IN  /\ restoredTo = 0 => unspent = Unspent(blocks) \cap mine
        /\ restoredTo > 0 /\ w.scanned = Len(nodeChain) => unspent = Unspent(blocks)
PaymentsOnChain(w) ==
    \A i \in DOMAIN w.sent :
        LET s == w.sent[i]
        IN  s.id \notin guessed /\ restoredTo = 0 /\ s.height # Unset =>
                s.height < w.scanned /\ s.id \in nodeChain[s.height + 1].txs
WalletFollows ==
    \A w \in {file, mem} : OnNodesChain(w) => CoinsOnChain(w) /\ PaymentsOnChain(w)

\* What waits for a block holds its coins, whatever was rolled back, rescanned or
\* found again since it was built: no other payment is built on them (build_send,
\* rollback_to, reserved_for, settle_orphans).  Excused are coins that a payment
\* which failed gave back and a later one was built on.
WaitingHoldsCoins ==
    \A w \in {file, mem} : \A i \in DOMAIN w.sent : \A c \in w.sent[i].inputs :
        /\ IsPending(w.sent[i])
        /\ \A j \in DOMAIN w.sent : i # j => c \notin w.sent[j].inputs
        => c \notin Free(w)

\* A payment the wallet calls failed has not been confirmed ("can no longer
\* confirm", SyncReport::orphaned).
FailedIsLost ==
    OnNodesChain(file) => \A i \in DOMAIN file.sent :
        file.sent[i].failed # Unset => file.sent[i].id \notin TxsOf(SubSeq(nodeChain, 1, file.scanned))
=============================================================================
