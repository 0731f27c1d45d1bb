-------------------------------- MODULE Peers --------------------------------
(***************************************************************************)
(* Whom a node talks to (network/mod.rs, addrbook.rs, bans.rs and what     *)
(* node.rs does with them).  The transport keeps connections, possibly     *)
(* several with a peer; the node counts a peer as connected by the first   *)
(* of them, holds a slot of its subnet for it, dials pinned and known      *)
(* addresses on a tick, and bans peers for a time.  Every address is       *)
(* routable and names its peer; browsers and relays are left out.          *)
(***************************************************************************)
EXTENDS Integers, FiniteSets, Sequences, SequencesExt, FiniteSetsExt

CONSTANTS
    Contacts, Addrs, PeerOf, Subnets, SubnetOf,
    Pinned,                     \* the operator's --peer addresses
    Foreign,                    \* peers of another network
    MaxPerSubnet, MaxInbound, TargetOutbound,
    PickAtOnce,                 \* addresses picked from the book on a tick (3)
    FailuresToDrop, MaxProven, MaxHeard,
    BaseBan, ForeignBan, MaxBan, ForgetAfter,   \* in ticks of the clock
    MaxTimes,                   \* bans counted: as many as double the ban (21)
    MaxConns,                   \* connections a peer opens with this node
    MaxEvents,                   \* what others do: connections opened and cut, addresses told, bans, restarts
    Nobody

PeersAssumption ==
    /\ PeerOf \in [Addrs -> Contacts] /\ SubnetOf \in [Addrs -> Subnets] /\ Pinned \subseteq Addrs
    /\ {MaxPerSubnet, FailuresToDrop, PickAtOnce, BaseBan} \subseteq Nat \ {0}
    /\ {MaxInbound, MaxProven, MaxHeard, MaxBan, ForgetAfter} \subseteq Nat
    /\ Nobody \notin [addr : Addrs, dialled : BOOLEAN]

VARIABLES
    conns,          \* the transport's connections with each peer, oldest first
    flights,        \* addresses being dialled
    connected,      \* the endpoint each connected peer is known by
    identified,
    slots,          \* subnet_peers
    dialling,       \* pending_dials
    bans,
    book, saved,
    moves,
    roamed,         \* peers that had connections from two subnets at once
    late            \* peers with a connection that opened while a refused one closed

ghosts == <<roamed, late>>
doors == <<conns, flights, connected, identified, slots, dialling>>
peerVars == <<doors, bans, book, saved, moves, ghosts>>

Moves == moves < MaxEvents /\ moves' = moves + 1

(***************************************************************************)
(* Bans                                                                    *)
(***************************************************************************)
NoRecord == [left |-> 0, ended |-> ForgetAfter, times |-> 0]
IsBanned(p) == bans[p].left > 0

Escalated(base, times) == Min({base * 2^(times - 1), Max({MaxBan, base})})

BanOf(record, base) ==
    LET times == IF record.ended >= ForgetAfter THEN 1 ELSE record.times + 1
    IN  [left |-> Escalated(base, times), ended |-> 0, times |-> Min({times, MaxTimes})]

\* An hour goes by.
Tick ==
    /\ \E p \in Contacts : bans[p] # NoRecord
    /\ bans' = [p \in Contacts |->
                  CASE bans[p].left > 0 -> [bans[p] EXCEPT !.left = @ - 1]
                    [] bans[p].ended + 1 < ForgetAfter -> [bans[p] EXCEPT !.ended = @ + 1]
                    [] OTHER -> NoRecord]
    /\ UNCHANGED <<doors, book, saved, moves, ghosts>>

(***************************************************************************)
(* The address book                                                        *)
(***************************************************************************)
OfKind(b, kind) == {a \in Addrs : b[a].kind = kind}
Entry(kind) == [kind |-> kind, failures |-> 0]
Unknown == Entry("unknown")

Heard(b, a) ==
    IF b[a] # Unknown \/ Cardinality(OfKind(b, "heard")) >= MaxHeard THEN b
    ELSE [b EXCEPT ![a] = Entry("heard")]

Proven(b, a) ==
    IF Cardinality(OfKind(b, "proven")) < MaxProven THEN [b EXCEPT ![a] = Entry("proven")]
    ELSE [b EXCEPT ![a].failures = 0]

DialFailed(b, a) ==
    CASE b[a].kind = "unknown" -> b
      [] b[a].kind = "heard" \/ b[a].failures + 1 >= FailuresToDrop -> [b EXCEPT ![a] = Unknown]
      [] OTHER -> [b EXCEPT ![a].failures = @ + 1]

Forgotten(b, p) == [a \in Addrs |-> IF PeerOf[a] = p THEN Unknown ELSE b[a]]

\* What pick may return: proven addresses first, a third of the places for heard ones.
Picks(skip) ==
    LET of(kind) == {a \in OfKind(book, kind) : PeerOf[a] \notin skip}
        P == Cardinality(of("proven"))  H == Cardinality(of("heard"))
        places == IF H = 0 THEN 0 ELSE Max({PickAtOnce \div 3, 1})
        first == Min({PickAtOnce - places, P})
        heard == Min({PickAtOnce - first, H})
        rest == Min({PickAtOnce - first - heard, P - first})
    IN  {S \cup T : S \in kSubset(first + rest, of("proven")), T \in kSubset(heard, of("heard"))}

(***************************************************************************)
(* Dials                                                                   *)
(***************************************************************************)
IsConnected(p) == connected[p] # Nobody
Outbound == {p \in Contacts : IsConnected(p) /\ connected[p].dialled}
Inbound == {p \in Contacts : IsConnected(p) /\ ~connected[p].dialled}
Full(s, p) == p \notin slots[s] /\ Cardinality(slots[s]) >= MaxPerSubnet

MayDial(a) == ~IsBanned(PeerOf[a]) /\ ~IsConnected(PeerOf[a]) /\ ~Full(SubnetOf[a], PeerOf[a])

\* dial_checked for one address after another: a peer is dialled once.
Dial(addrs) ==
    LET next(a, d) == IF MayDial(a) /\ PeerOf[a] \notin d.peers
                      THEN [peers |-> d.peers \cup {PeerOf[a]}, addrs |-> d.addrs \cup {a}] ELSE d
        d == FoldSeq(next, [peers |-> dialling, addrs |-> flights], addrs)
    IN  dialling' = d.peers /\ flights' = d.addrs

\* The poll tick: pinned peers first, then what the book gives.
Poll ==
    /\ \E known \in IF Cardinality(Outbound) < TargetOutbound
                    THEN Picks({p \in Contacts : IsConnected(p) \/ IsBanned(p)
                                              \/ p \in dialling \cup {PeerOf[a] : a \in {b \in Pinned : MayDial(b)}}})
                    ELSE {{}} :
          Dial(SetToSeq(Pinned) \o SetToSeq(known))
    /\ UNCHANGED <<conns, connected, identified, slots, bans, book, saved, moves, ghosts>>

\* Message::Addr.
Told(a) ==
    /\ Moves
    /\ IF Cardinality(Outbound) < TargetOutbound THEN Dial(<<a>>) ELSE UNCHANGED <<dialling, flights>>
    /\ book' = Heard(book, a)
    /\ UNCHANGED <<conns, connected, identified, slots, bans, saved, ghosts>>

\* A dial to a peer has ended, or it came of itself.
LandedNever(p) == dialling
Landed(p) == dialling \ {p}

DialFails(a) ==
    /\ a \in flights
    /\ flights' = flights \ {a} /\ dialling' = Landed(PeerOf[a])
    /\ book' = DialFailed(book, a)
    /\ UNCHANGED <<conns, connected, identified, slots, bans, saved, moves, ghosts>>

(***************************************************************************)
(* Connections                                                             *)
(***************************************************************************)
Closing(cs) == [i \in DOMAIN cs |-> [cs[i] EXCEPT !.closing = TRUE]]
Disconnect(p) == conns' = [conns EXCEPT ![p] = Closing(@)]

InboundFull(c) == ~c.dialled /\ Cardinality(Inbound) >= MaxInbound

\* ConnectionEstablished.
Established(c) ==
    LET p == PeerOf[c.addr]  s == SubnetOf[c.addr]
        all == Append(conns[p], c)
    IN  /\ dialling' = Landed(p)
        /\ late' = IF Len(all) > 1 /\ ~IsConnected(p) /\ ~IsBanned(p) THEN late \cup {p} ELSE late
        /\ roamed' = IF \E i \in DOMAIN all : SubnetOf[all[i].addr] # s THEN roamed \cup {p} ELSE roamed
        /\ IF IsBanned(p) \/ (Len(all) = 1 /\ (Full(s, p) \/ InboundFull(c)))
           THEN /\ conns' = [conns EXCEPT ![p] = Closing(all)] /\ UNCHANGED connected
                /\ slots' = IF IsBanned(p) \/ Full(s, p) THEN slots
                            ELSE [slots EXCEPT ![s] = @ \cup {p}]
           ELSE /\ conns' = [conns EXCEPT ![p] = all]
                /\ IF Len(all) = 1
                   THEN /\ connected' = [connected EXCEPT ![p] = [addr |-> c.addr, dialled |-> c.dialled]]
                        /\ slots' = [slots EXCEPT ![s] = @ \cup {p}]
                   ELSE UNCHANGED <<connected, slots>>
        /\ UNCHANGED <<identified, bans, book, saved>>

Reached(a) ==
    /\ a \in flights /\ Len(conns[PeerOf[a]]) < MaxConns
    /\ flights' = flights \ {a}
    /\ Established([addr |-> a, dialled |-> TRUE, closing |-> FALSE]) /\ UNCHANGED moves

\* No more connections with one peer than the transport allows.
Denied(a) ==
    /\ a \in flights /\ Len(conns[PeerOf[a]]) = MaxConns
    /\ flights' = flights \ {a} /\ dialling' = Landed(PeerOf[a])
    /\ UNCHANGED <<conns, connected, identified, slots, bans, book, saved, moves, ghosts>>

Accept(a) ==
    /\ Moves /\ Len(conns[PeerOf[a]]) < MaxConns
    /\ Established([addr |-> a, dialled |-> FALSE, closing |-> FALSE]) /\ UNCHANGED flights

\* ConnectionClosed: by this node, or (`cut`) by the peer or the network.  A dialled
\* peer that hangs up before it says what it is counts as a failed dial.
AnyLeaves(left) == TRUE
Leaves(left) == left = <<>>
Closed(p, i, cut) ==
    LET c == conns[p][i]  left == RemoveAt(conns[p], i)
    IN  /\ conns' = [conns EXCEPT ![p] = left]
        /\ dialling' = Landed(p)
        /\ IF Leaves(left)
           THEN /\ connected' = [connected EXCEPT ![p] = Nobody]
                /\ identified' = identified \ {p}
                /\ slots' = [slots EXCEPT ![SubnetOf[c.addr]] = @ \ {p}]
                /\ late' = late \ {p}
                /\ book' = IF IsConnected(p) /\ c.dialled /\ cut /\ p \notin identified
                           THEN DialFailed(book, c.addr) ELSE book
           ELSE UNCHANGED <<connected, identified, slots, book, late>>
        /\ UNCHANGED <<flights, bans, saved, roamed>>

Close(p) == \E i \in DOMAIN conns[p] :
    conns[p][i].closing /\ Closed(p, i, FALSE) /\ UNCHANGED moves
Cut(p) == \E i \in DOMAIN conns[p] : Moves /\ Closed(p, i, TRUE)

(***************************************************************************)
(* What a peer shows itself to be                                          *)
(***************************************************************************)
\* Node::ban_peer, drop_foreign_peer: one ban is enough.
BanFor(p, base) ==
    /\ Disconnect(p)
    /\ IF IsBanned(p) THEN UNCHANGED <<bans, book>>
       ELSE bans' = [bans EXCEPT ![p] = BanOf(@, base)] /\ book' = Forgotten(book, p)

\* Identify's Received, of a peer that may be on its way out.
Identify(p) ==
    /\ conns[p] # <<>> /\ IsConnected(p)
    /\ IF p \in Foreign THEN BanFor(p, ForeignBan) /\ UNCHANGED identified
       ELSE /\ identified' = identified \cup {p}
            /\ LET reached == IF connected[p].dialled THEN Proven(book, connected[p].addr) ELSE book
                   own == SetToSeq({a \in Addrs : PeerOf[a] = p})
               IN  book' = FoldSeq(LAMBDA a, b : Heard(b, a), reached, own)
            /\ UNCHANGED <<conns, bans>>
    /\ UNCHANGED <<flights, connected, slots, dialling, saved, moves, ghosts>>

\* Whatever it did.
Ban(p) ==
    /\ Moves /\ BanFor(p, BaseBan)
    /\ UNCHANGED <<flights, connected, identified, slots, dialling, saved, ghosts>>

(***************************************************************************)
(* Saving and restarting                                                   *)
(***************************************************************************)
Save ==
    /\ saved' = OfKind(book, "proven")
    /\ UNCHANGED <<doors, bans, book, moves, ghosts>>

\* What of the doors, the bans and the book a process starts with.
Opened(kept) ==
    [conns |-> [p \in Contacts |-> <<>>], connected |-> [p \in Contacts |-> Nobody],
     slots |-> [s \in Subnets |-> {}], bans |-> [p \in Contacts |-> NoRecord],
     book |-> [a \in Addrs |-> IF a \in kept THEN Entry("proven") ELSE Unknown]]

PeersInit ==
    /\ LET o == Opened({})
       IN  conns = o.conns /\ connected = o.connected /\ slots = o.slots
           /\ bans = o.bans /\ book = o.book
    /\ flights = Pinned /\ identified = {} /\ dialling = {}
    /\ roamed = {} /\ late = {} /\ saved = {} /\ moves = 0

RestartDoors ==
    /\ Moves /\ UNCHANGED saved
    /\ LET o == Opened(saved)
       IN  conns' = o.conns /\ connected' = o.connected /\ slots' = o.slots
           /\ bans' = o.bans /\ book' = o.book
    /\ flights' = Pinned /\ identified' = {} /\ dialling' = {}
    /\ roamed' = {} /\ late' = {}

PeersNext ==
    \/ Tick \/ Poll \/ Save \/ RestartDoors
    \/ \E a \in Addrs : Told(a) \/ DialFails(a) \/ Reached(a) \/ Denied(a) \/ Accept(a)
    \/ \E p \in Contacts : Close(p) \/ Cut(p) \/ Identify(p) \/ Ban(p)

PeersSpec == PeersInit /\ [][PeersNext]_peerVars
------------------------------------------------------------------------------
\* A connection with a peer that is neither banned nor counted as connected.
Uncounted(p) ==
    ~IsBanned(p) /\ ~IsConnected(p) /\ \E i \in DOMAIN conns[p] : ~conns[p][i].closing

(* At most MaxPerSubnet peers of a subnet are connected and MaxInbound came of
   themselves; each peer that is connected holds a slot of its subnet, and a slot
   nobody is connected through is given back (but for peers that had connections
   from two subnets: the slot of the first is kept for good).  A peer with a
   connection that stays counts as connected (unless it opened while one that was
   refused was closing), and a banned peer has none that stays. *)
DoorsKept ==
    /\ \A s \in Subnets :
          Cardinality({p \in Contacts : IsConnected(p) /\ SubnetOf[connected[p].addr] = s}) <= MaxPerSubnet
    /\ Cardinality(Inbound) <= MaxInbound
    /\ \A p \in Contacts :
          /\ IsConnected(p) => conns[p] # <<>> /\ p \in slots[SubnetOf[connected[p].addr]]
          /\ conns[p] = <<>> /\ p \notin roamed => \A s \in Subnets : p \notin slots[s]
          /\ Uncounted(p) => p \in late
          /\ IsBanned(p) => \A i \in DOMAIN conns[p] : conns[p][i].closing

(* A pinned peer is connected again and again, whatever was cut, failed or banned
   for a time, unless its subnet is full of others or it has a connection the node
   does not count. *)
PinnedReached ==
    \A a \in Pinned : []<>(IsConnected(PeerOf[a]) \/ Full(SubnetOf[a], PeerOf[a]) \/ Uncounted(PeerOf[a]))
=============================================================================
