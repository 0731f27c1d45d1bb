-------------------------------- MODULE Relay --------------------------------
(***************************************************************************)
(* The midstate relay (core/relay.rs): blocks carry runs of midstate       *)
(* headers, which build one window of midstate's chain.  A run may fork    *)
(* from an entry in the window if it outweighs what it replaces; what a    *)
(* block added and removed is kept in its undo record.                     *)
(*                                                                         *)
(* A relay is a set of entries, one per height, at consecutive heights.    *)
(* The headers and what each is like are given by constants: a header's    *)
(* hash is the header.                                                     *)
(***************************************************************************)
EXTENDS Integers, Sequences, FiniteSets, FiniteSetsExt

CONSTANTS
    Links,             \* midstate headers
    RootLink,          \* the block the relay starts from, at height 0
    LinkPrev,          \* [Links -> Links \cup {RootLink}]: what its proof of
                       \* work commits to building on
    LinkWork,          \* [Links -> Nat]: the work of the target it claims
    LinkTime,          \* [Links -> Nat]
    MeetsTarget,       \* links whose hash is below the target they claim
    OnTarget,          \* links that carry midstate's rule's target
    RelayWindow,       \* RELAY_WINDOW (2880)
    MaxRelay,          \* MAX_RELAY_HEADERS_PER_BLOCK (1440)
    RelayMaxFuture     \* RELAY_MAX_FUTURE

ASSUME RelayAssumption ==
    /\ RootLink \notin Links
    /\ LinkPrev \in [Links -> Links \cup {RootLink}]
    /\ LinkWork \in [Links -> Nat \ {0}] /\ LinkTime \in [Links -> Nat]
    /\ MaxRelay \in Nat \ {0} /\ RelayWindow \in Nat /\ MaxRelay <= RelayWindow

RelayRoot == [height |-> 0, hash |-> RootLink, time |-> 0, chainWork |-> 0]
GenesisRelay == {RelayRoot}

TipEntry(relay) == CHOOSE e \in relay : \A f \in relay : f.height <= e.height
BaseEntry(relay) == CHOOSE e \in relay : \A f \in relay : f.height >= e.height
OnRelay(relay, hash) == \E e \in relay : e.hash = hash
ByHash(relay, hash) == CHOOSE e \in relay : e.hash = hash
HasHeight(relay, h) == \E e \in relay : e.height = h
AtHeight(relay, h) == CHOOSE e \in relay : e.height = h

\* from_entries: consecutive, linked, each with its work added.
FormsChain(relay) ==
    /\ relay # {} /\ Cardinality(relay) <= RelayWindow + 1
    /\ \A e, f \in relay : e.hash = f.hash \/ e.height = f.height => e = f
    /\ \A e \in relay : e # BaseEntry(relay) =>
          \E d \in relay : /\ d.height = e.height - 1 /\ LinkPrev[e.hash] = d.hash
                           /\ e.chainWork = d.chainWork + LinkWork[e.hash]

\* The entries a run makes on top of base.
RunEntries(base, links) ==
    LET at[n \in 0..Len(links)] ==
            IF n = 0 THEN base
            ELSE [height |-> at[n - 1].height + 1, hash |-> links[n],
                  time |-> LinkTime[links[n]],
                  chainWork |-> at[n - 1].chainWork + LinkWork[links[n]]]
    IN  [n \in 1..Len(links) |-> at[n]]

\* RelayHeaders::verify_pow: each header's proof of work is over the run.
RunVerifies(run) ==
    \A n \in 1..Len(run.links) :
        LinkPrev[run.links[n]] = IF n = 1 THEN run.prev ELSE run.links[n - 1]

Outweighs(base, tip, last) == base.height < tip.height => last.chainWork > tip.chainWork

(* extend, for a block stamped t: the run builds on an entry of the relay,
   repeats nothing of it, keeps midstate's target rule (the root's child's
   target cannot be recomputed) and outweighs what it replaces. *)
ExtendAllowed(relay, run, t) ==
    LET n == Len(run.links)
        base == ByHash(relay, run.prev)
        tip == TipEntry(relay)
        entries == RunEntries(base, run.links)
    IN  /\ n >= 1 /\ n <= MaxRelay
        /\ OnRelay(relay, run.prev)
        /\ base.height < tip.height =>
              run.links[1] # AtHeight(relay, base.height + 1).hash
        /\ \A i \in 1..n :
              /\ run.links[i] \in MeetsTarget
              /\ LinkTime[run.links[i]] <= t + RelayMaxFuture
              /\ (i = 1 /\ base.hash = RootLink) \/ run.links[i] \in OnTarget
              /\ ~\E e \in relay : e.hash = run.links[i] /\ e.height <= base.height
        /\ Outweighs(base, tip, entries[n])

Without(relay, gone) == {e \in relay : e.height \notin {g.height : g \in gone}}

\* What extending changes: the entries added, those removed (replaced ones and
\* those the window has left behind), and the fork the run replaced from.
Extended(relay, run) ==
    LET base == ByHash(relay, run.prev)
        entries == RunEntries(base, run.links)
        added == {entries[i] : i \in 1..Len(entries)}
        replaced == {e \in relay : e.height > base.height}
        grown == Without(relay, replaced) \cup added
        stale == {e \in grown : e.height < TipEntry(grown).height - RelayWindow}
    IN  [added |-> added, removed |-> replaced \cup stale,
         forks |-> replaced # {}, fork |-> base.height]

AppliedChange(relay, removed, added) ==
    Without(Without(relay, removed), added) \cup added
RevertedChange(relay, removed, added) ==
    Without(Without(relay, added), removed) \cup removed

\* Work above a height, each header counted for at most cap.
CreditedAbove(relay, h, cap) ==
    MapThenSumSet(LAMBDA e : IF LinkWork[e.hash] <= cap THEN LinkWork[e.hash] ELSE cap,
                  {e \in relay : e.height > h})
=============================================================================
