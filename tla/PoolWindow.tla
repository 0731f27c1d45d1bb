----------------------------- MODULE PoolWindow -----------------------------
(***************************************************************************)
(* What the mining pool (src/src/pool.rs) pays and proves: the window of   *)
(* shares a block pays, committed share by share, the spot checks a miner  *)
(* makes of it, and the split of a reward among its owners.                *)
(*                                                                         *)
(* A share is the work it is (the rank of its final hash: the lower, the   *)
(* harder it was to find) and the weight it claims.  A hash is what it is  *)
(* of, so two trees with one root are one tree.  Owners stand in the order *)
(* of their ids; whose a share is, and the job it was mined on, is         *)
(* PoolServer's.                                                           *)
(***************************************************************************)
EXTENDS Integers, FiniteSets, Sequences, SequencesExt, FiniteSetsExt

CONSTANTS
    Works, Weights,
    Easiest,        \* the rank a share of weight 1 must meet
    MaxShares, MaxOwners, OwnerWeights,     \* what is tried
    MaxPaid,        \* MAX_PAID_MINERS
    Scale,          \* PAYOUT_SCALE
    FeeScale, Fees

PoolWindowAssumption ==
    /\ Works \subseteq Nat \ {0} /\ Weights \subseteq Nat \ {0}
    /\ MaxPaid \in Nat \ {0} /\ Scale \in Nat /\ Fees \subseteq 0..FeeScale - 1

VARIABLES
    shares,     \* one owner's shares, as they are given
    owners      \* the weights of a window's owners
vars == <<shares, owners>>

Half(n) == n \div 2
DivCeil(a, b) == (a + b - 1) \div b
Add(s) == FoldSeq(LAMBDA x, sum : x + sum, 0, s)

(***************************************************************************)
(* An owner's shares as a tree                                             *)
(***************************************************************************)
Leaf(share) == [hash |-> share, weight |-> share.weight, low |-> share.work, high |-> share.work]
Join(left, right) ==
    [hash |-> <<left.hash, right.hash>>, weight |-> left.weight + right.weight,
     low |-> left.low, high |-> right.high]

\* ShareTree::build: level by level, an odd node moves up alone.
Above(level) ==
    LET node(i) == IF 2 * i <= Len(level) THEN Join(level[2 * i - 1], level[2 * i])
                   ELSE level[2 * i - 1]
    IN  SubSeq([i \in 1..DivCeil(Len(level), 2) |-> node(i)], 1, DivCeil(Len(level), 2))
Level(leaves, k) ==
    LET level[j \in 0..k] == IF j = 0 THEN leaves ELSE Above(level[j - 1])
    IN  level[k]
Root(leaves) == Level(leaves, Len(leaves))[1]

\* The sibling of a node at place i (from 0) of its level.
Sibling(i) == IF i % 2 = 1 THEN i - 1 ELSE i + 1
Path(leaves, index) ==
    LET add(path, level, i) ==
            IF Len(level) > 1 /\ Sibling(i) < Len(level)
            THEN Append(path, level[Sibling(i) + 1]) ELSE path
        path[k \in 0..Len(leaves)] ==
            IF k = 0 THEN <<>> ELSE add(path[k - 1], Level(leaves, k - 1), index \div 2^(k - 1))
    IN  path[Len(leaves)]

\* join_checked: every final hash on the left is below those on the right.
InOrder(left, right) == left.high < right.low

\* One step of fold_share_path, from a level of n nodes to the one above.
Folded(at) ==
    LET paired == Sibling(at.i) < at.n
        sibling == Head(at.path)
        left == IF at.i % 2 = 1 THEN sibling ELSE at.node
        right == IF at.i % 2 = 1 THEN at.node ELSE sibling
        up == [at EXCEPT !.i = Half(@), !.n = DivCeil(@, 2)]
    IN  CASE ~at.ok \/ at.n <= 1 -> at
          [] paired /\ at.path = <<>> -> [at EXCEPT !.ok = FALSE]
          [] paired /\ at.path # <<>> ->
                [up EXCEPT !.ok = InOrder(left, right), !.node = Join(left, right),
                           !.path = Tail(@),
                           !.start = IF at.i % 2 = 1 THEN @ + sibling.weight ELSE @]
          [] OTHER -> up
FoldPath(leaf, index, count, path) ==
    LET at[k \in 0..count] ==
            IF k = 0
            THEN [node |-> leaf, i |-> index, n |-> count, start |-> 0, path |-> path,
                  ok |-> index < count]
            ELSE Folded(at[k - 1])
    IN  [at[count] EXCEPT !.ok = @ /\ at[count].path = <<>>]

(***************************************************************************)
(* The window                                                              *)
(***************************************************************************)
Leaves(list) == SubSeq([i \in DOMAIN list |-> Leaf(list[i])], 1, Len(list))
Before(weights, i) == Add(SubSeq(weights, 1, i - 1))
WeightsOf(list) == [i \in DOMAIN list |-> list[i].weight]

\* WindowSnapshot::new: shares by final hash, each work once.
Sorted(list) ==
    LET fresh == {i \in DOMAIN list : \A j \in 1..i - 1 : list[j].work # list[i].work}
    IN  SetToSortSeq({list[i] : i \in fresh}, LAMBDA s, t : s.work < t.work)

\* What an owner's entry in a window commits to.
Entry(list) == [root |-> Root(Leaves(list)), weight |-> Add(WeightsOf(list)),
                shares |-> Len(list)]

\* A share meets its weight when its work is that much harder.
Meets(share) == share.work * share.weight <= Easiest

(* verify_sample: share `index` of a list, with its path in the list's tree,
   answers a point of an owner's span.  Answers folds every path once. *)
Covers(folded, offset, share) ==
    folded.start <= offset /\ offset - folded.start < share.weight
Answers(leaves, claimed) ==
    SubSeq([i \in DOMAIN leaves |-> FoldPath(leaves[i], i - 1, claimed, Path(leaves, i - 1))],
           1, Len(leaves))
Verifies(entry, offset, share, folded) ==
    /\ folded.ok /\ folded.node = entry.root /\ folded.node.weight = entry.weight
    /\ Covers(folded, offset, share)
    /\ Meets(share)

\* Window::locate, WindowSnapshot::sample: what of the given weights, laid end to
\* end, covers a point.
Locate(weights, point) ==
    CHOOSE i \in DOMAIN weights :
        Before(weights, i) <= point /\ point < Before(weights, i + 1)

(***************************************************************************)
(* Payouts                                                                 *)
(***************************************************************************)
\* allocate: who is paid exactly, and the slots the others' weights are laid out
\* over from where the draw falls.
Exact(weights, i, sum) == weights[i] * MaxPaid >= sum
SmallOf(weights, sum) == {i \in DOMAIN weights : ~Exact(weights, i, sum)}
Small(weights) == SmallOf(weights, Add(weights))
Share(total, weights, i) == (total * weights[i]) \div Add(weights)
SumOf(weights, who) == MapThenSumSet(LAMBDA i : weights[i], who)
FirstSlot(x, offset, span, slots) ==
    IF x <= offset THEN 0 ELSE Min({DivCeil(x - offset, span), slots})
Landed(from, weight, offset, span, slots) ==
    FirstSlot(slots * (from + weight), offset, span, slots)
      - FirstSlot(slots * from, offset, span, slots)
Paid(weights, small, i, draw, span, slots) ==
    Landed(SumOf(weights, {j \in small : j < i}), weights[i], draw % span, span, slots)
Split(total, weights, draw, small, rest, slots) ==
    [miners |-> SubSeq([i \in DOMAIN weights |->
                           IF i \notin small THEN Share(total, weights, i)
                           ELSE (rest \div slots)
                                  * Paid(weights, small, i, draw, SumOf(weights, small), slots)],
                       1, Len(weights)),
     dust |-> IF small = {} THEN rest ELSE rest - slots * (rest \div slots)]
SplitOver(total, weights, draw, small, exact) ==
    Split(total, weights, draw, small,
          total - MapThenSumSet(LAMBDA i : Share(total, weights, i), exact),
          MaxPaid - Cardinality(exact))
AllocateTo(total, weights, draw, small) ==
    SplitOver(total, weights, draw, small, DOMAIN weights \ small)
Allocate(total, weights, draw) == AllocateTo(total, weights, draw, Small(weights))

\* payout_weights: the operator's fee and the dust, and the miners.
Fee(fee) == (Scale * fee) \div FeeScale
Keeping(fee, split) == [operator |-> Fee(fee) + split.dust, miners |-> split.miners]
PayoutWeights(fee, weights, draw) ==
    Keeping(fee, Allocate(Scale - Fee(fee), weights, draw))

------------------------------------------------------------------------------
Init == shares = <<>> /\ owners = <<>>
Give(work, weight) ==
    /\ owners = <<>> /\ Len(shares) < MaxShares
    /\ shares' = Append(shares, [work |-> work, weight |-> weight])
    /\ UNCHANGED owners
Owns(weight) ==
    /\ shares = <<>> /\ Len(owners) < MaxOwners
    /\ owners' = Append(owners, weight)
    /\ UNCHANGED shares
Next ==
    \/ \E work \in Works, weight \in Weights : Give(work, weight)
    \/ \E weight \in OwnerWeights : Owns(weight)
Spec == Init /\ [][Next]_vars

(***************************************************************************)
(* Properties                                                              *)
(***************************************************************************)
\* Every point of a window a pool commits to honestly can be answered
\* (WindowSnapshot::new, sample, verify_sample).
Answered(list, entry, answers) ==
    \A point \in 0..entry.weight - 1 :
        LET i == Locate(WeightsOf(list), point)
        IN  Verifies(entry, point, list[i], answers[i])
Provable(list) == Answered(list, Entry(list), Answers(Leaves(list), Len(list)))
HonestProven ==
    (shares # <<>> /\ \A i \in DOMAIN shares : Meets(shares[i])) => Provable(Sorted(shares))

\* A list of shares every point of which can be answered, whatever the list, the
\* count it claims and the answers, holds each work once and at no more weight
\* than it has (fold_share_path, verify_sample).
Answerable(entry, answers) ==
    \A point \in 0..entry.weight - 1 : \E i \in DOMAIN shares :
        Verifies(entry, point, shares[i], answers[i])
PaddingCaught ==
    shares # <<>> => \A count \in 1..Len(shares) + 1 :
        Answerable([Entry(shares) EXCEPT !.shares = count], Answers(Leaves(shares), count))
          => /\ \A i \in DOMAIN shares : Meets(shares[i])
             /\ \A i, j \in DOMAIN shares : i < j => shares[i].work < shares[j].work

\* A reward is paid out to the last unit, over no more outputs than fit, in full
\* to the owners whose part is large and to the others by their weight, over
\* all draws together (allocate, payout_weights).
PaidOut(split, fee, small) ==
    /\ split.operator + Add(split.miners) = Scale
    /\ Cardinality({i \in DOMAIN owners : split.miners[i] > 0}) <= MaxPaid
    /\ \A i \in DOMAIN owners \ small : split.miners[i] = Share(Scale - Fee(fee), owners, i)
PaidOverDraws(splits, fee, small) ==
    LET over(i) == MapThenSumSet(LAMBDA d : splits[d].miners[i], 1..SumOf(owners, small))
    IN  /\ \A d \in DOMAIN splits : PaidOut(splits[d], fee, small)
        /\ \A i, j \in small : over(i) * owners[j] = over(j) * owners[i]
PaidByWeight ==
    owners # <<>> => \A fee \in Fees :
        PaidOverDraws(SubSeq([d \in 1..Add(owners) |-> PayoutWeights(fee, owners, d - 1)],
                             1, Add(owners)), fee, Small(owners))

\* The pool's windows can be proved, and only they, and pay by weight.
WindowsFair == HonestProven /\ PaddingCaught /\ PaidByWeight
=============================================================================
