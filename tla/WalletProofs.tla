---------------------------- MODULE WalletProofs ----------------------------
(***************************************************************************)
(* What waits for a block holds its coins (WaitingHoldsCoins), for any     *)
(* chain, transactions, window, steps back and pages.                      *)
(***************************************************************************)
EXTENDS Wallet, FiniteFacts, SequenceTheorems

IsList(q) == Len(q) \in Nat /\ q = [i \in 1..Len(q) |-> q[i]]
IsHeight(h) == h = Unset \/ h \in Nat
IsCoin(c) ==
    /\ c = [coin |-> c.coin, height |-> c.height, spent |-> c.spent, pending |-> c.pending]
    /\ IsHeight(c.spent)
IsPayment(s) ==
    /\ s = [id |-> s.id, inputs |-> s.inputs, kept |-> s.kept, height |-> s.height,
            failed |-> s.failed, cancelled |-> s.cancelled]
    /\ IsHeight(s.height) /\ IsHeight(s.failed) /\ s.cancelled \in BOOLEAN
IsWallet(w) ==
    /\ w = [scanned |-> w.scanned, recent |-> w.recent, coins |-> w.coins, sent |-> w.sent,
            birth |-> w.birth]
    /\ w.scanned \in Nat /\ w.birth \in Nat
    /\ \A c \in w.coins : IsCoin(c)
    /\ IsList(w.sent) /\ \A i \in DOMAIN w.sent : IsPayment(w.sent[i])

\* A payment's block, or the one that made it fail, is h at the latest.
SettledBy(s, h) == (s.height # Unset /\ s.height <= h) \/ (s.failed # Unset /\ s.failed <= h)

(* A wallet's records agree: a coin is held once, a payment has a
   number up to n to itself, what is settled is settled by blocks it scanned, and a coin is
   reserved for a payment that spends it. *)
OneRecord(w) == \A c, d \in w.coins : c.coin = d.coin => c = d
OwnNumber(w, n) ==
    /\ \A i \in DOMAIN w.sent : w.sent[i].id \in 1..n
    /\ \A i, j \in DOMAIN w.sent : w.sent[i].id = w.sent[j].id => i = j
SettledInTime(w) ==
    \A i \in DOMAIN w.sent :
        /\ w.sent[i].height # Unset => w.sent[i].height <= w.scanned
        /\ w.sent[i].failed # Unset => w.sent[i].failed <= w.scanned
ReservedForOne(w) ==
    \A c \in w.coins : c.pending # Unset =>
        \E i \in DOMAIN w.sent : w.sent[i].id = c.pending /\ c.coin \in w.sent[i].inputs

(* The payments that spend a coin are settled when the coin is spent at the
   latest, so that no rollback has one wait while its coin stays spent.  Right
   after a restore they may still have to be (settle_orphans). *)
SpentIsSettled(w, restored) ==
    \A c \in w.coins, i \in DOMAIN w.sent :
        c.spent # Unset /\ c.coin \in w.sent[i].inputs /\ ~w.sent[i].cancelled =>
            SettledBy(w.sent[i], c.spent) \/ (restored /\ c.spent = w.scanned)

Alone(w, i, coin) == \A j \in DOMAIN w.sent : i # j => coin \notin w.sent[j].inputs
WaitingHold(w) ==
    \A i \in DOMAIN w.sent : \A c \in w.sent[i].inputs :
        IsPending(w.sent[i]) /\ Alone(w, i, c) => c \notin Free(w)

Holds(w, n, restored) ==
    /\ IsWallet(w) /\ OneRecord(w) /\ OwnNumber(w, n) /\ SettledInTime(w)
    /\ ReservedForOne(w) /\ SpentIsSettled(w, restored) /\ WaitingHold(w)

JustRestored == phase \in {"scan", "save"} /\ mem.scanned >= tip
WalletInv ==
    /\ IsList(nodeChain) /\ nodeChain # <<>> /\ IsList(built) /\ tip \in Nat
    /\ Holds(file, Len(built), FALSE) /\ Holds(mem, Len(built), JustRestored)
    /\ phase \in {"last", "restore"} => mem.scanned <= tip

------------------------------------------------------------------------------
LEMMA MinIs ==
    ASSUME NEW S, S \subseteq Nat, S # {}
    PROVE  Min(S) \in S /\ \A x \in S : Min(S) <= x
BY LeastExists DEF Min

LEMMA MaxIs ==
    ASSUME NEW N \in Nat, NEW S, S \subseteq 0..N, S # {}
    PROVE  Max(S) \in S /\ \A x \in S : x <= Max(S)
<1>1. PICK x \in S : \A y \in S : x >= y
  BY GreatestExists
<1>2. \A y \in S : y \in Nat
  OBVIOUS
<1> QED BY <1>1, <1>2 DEF Max

LEMMA LeastOfTwo ==
    ASSUME NEW a \in Nat, NEW b \in Nat
    PROVE  Min({a, b}) = IF a <= b THEN a ELSE b
<1>1. {a, b} \subseteq Nat /\ {a, b} # {}
  OBVIOUS
<1>2. PICK m : m = Min({a, b})
  OBVIOUS
<1>3. m \in {a, b} /\ \A x \in {a, b} : m <= x
  BY <1>1, <1>2, MinIs
<1> QED BY <1>2, <1>3

LEMMA GreatestOfTwo ==
    ASSUME NEW a \in Nat, NEW b \in Int
    PROVE  Max({a, b}) = IF b <= a THEN a ELSE b
<1> DEFINE m == IF b <= a THEN a ELSE b
<1>1. m \in {a, b} /\ \A x \in {a, b} : x <= m /\ x \in Int
  OBVIOUS
<1>2. \A y \in {a, b} : (\A x \in {a, b} : x <= y) => y = m
  OBVIOUS
<1> QED BY <1>1, <1>2 DEF Max

------------------------------------------------------------------------------
\* A list of payments of a wallet, by its places.
LEMMA PlacesAre ==
    ASSUME NEW w, IsWallet(w)
    PROVE  Len(w.sent) \in Nat /\ DOMAIN w.sent = 1..Len(w.sent)
BY DEF IsWallet, IsList

\* What payments are numbered and spend does not change while they are kept.
SamePayments(v, w) ==
    /\ DOMAIN v.sent = DOMAIN w.sent
    /\ \A i \in DOMAIN w.sent : v.sent[i].id = w.sent[i].id /\ v.sent[i].inputs = w.sent[i].inputs

LEMMA NumbersStay ==
    ASSUME NEW v, NEW w, NEW n, SamePayments(v, w), OwnNumber(w, n)
    PROVE  OwnNumber(v, n)
BY DEF SamePayments, OwnNumber

LEMMA AloneStays ==
    ASSUME NEW v, NEW w, SamePayments(v, w), NEW i \in DOMAIN w.sent, NEW coin, Alone(v, i, coin)
    PROVE  Alone(w, i, coin)
BY DEF SamePayments, Alone

\* A coin that one payment spends and that is reserved is reserved for it.
LEMMA ReservedForIt ==
    ASSUME NEW w, ReservedForOne(w), NEW c \in w.coins, c.pending # Unset,
           NEW i \in DOMAIN w.sent, Alone(w, i, c.coin)
    PROVE  w.sent[i].id = c.pending
<1>1. PICK j \in DOMAIN w.sent : w.sent[j].id = c.pending /\ c.coin \in w.sent[j].inputs
  BY DEF ReservedForOne
<1>2. i = j
  BY <1>1 DEF Alone
<1> QED BY <1>1, <1>2

------------------------------------------------------------------------------
\* What a rollback makes of a payment and a coin (rollback_to).
Later(h, at) == IF From(h, at) THEN Unset ELSE at
Undone(s, h) == [s EXCEPT !.height = Later(h, @), !.failed = Later(h, @)]
Unsettled(s, h) == From(h, s.height) \/ From(h, s.failed)
ClaimsOn(w, h, coin) ==
    {i \in DOMAIN w.sent : Unsettled(w.sent[i], h) /\ ~w.sent[i].cancelled /\ coin \in w.sent[i].inputs}
KeptCoin(w, h, c) ==
    [coin |-> c.coin, height |-> c.height, spent |-> Later(h, c.spent),
     pending |-> IF Later(h, c.spent) = Unset /\ ClaimsOn(w, h, c.coin) # {}
                 THEN w.sent[Max(ClaimsOn(w, h, c.coin))].id ELSE c.pending]

LEMMA RollbackIs ==
    ASSUME NEW w, IsWallet(w), NEW h \in Nat
    PROVE  LET v == RollbackTo(w, h)
           IN  /\ v = [scanned |-> v.scanned, recent |-> v.recent, coins |-> v.coins,
                       sent |-> v.sent, birth |-> v.birth]
               /\ v.birth = w.birth
               /\ v.scanned = IF w.scanned <= h THEN w.scanned ELSE h
               /\ v.sent = [i \in 1..Len(w.sent) |-> Undone(w.sent[i], h)]
               /\ v.coins = {KeptCoin(w, h, c) : c \in {d \in w.coins : d.height < h}}
<1> DEFINE unsettled(s) == From(h, s.height) \/ From(h, s.failed)
           undone(s) == [s EXCEPT !.height = IF From(h, @) THEN Unset ELSE @,
                                  !.failed = IF From(h, @) THEN Unset ELSE @]
           claims(coin) == {i \in DOMAIN w.sent : /\ unsettled(w.sent[i]) /\ ~w.sent[i].cancelled
                                                  /\ coin \in w.sent[i].inputs}
           kept(c) == [c EXCEPT !.spent = SpentBelow(c, h),
                                !.pending = IF SpentBelow(c, h) = Unset /\ claims(c.coin) # {}
                                            THEN w.sent[Max(claims(c.coin))].id ELSE @]
           coins == {kept(c) : c \in {d \in w.coins : d.height < h}}
           sent == [i \in DOMAIN w.sent |-> undone(w.sent[i])]
<1>1. PICK recent : recent = SelectSeq(w.recent, LAMBDA r : r.height < h)
  OBVIOUS
<1>2. RollbackTo(w, h) = [w EXCEPT !.coins = coins, !.sent = sent, !.recent = recent,
                                   !.scanned = Min({@, h})]
  BY <1>1 DEF RollbackTo
<1>3. Min({w.scanned, h}) = IF w.scanned <= h THEN w.scanned ELSE h
  BY LeastOfTwo DEF IsWallet
<1>4. sent = [i \in 1..Len(w.sent) |-> Undone(w.sent[i], h)]
  <2>1. \A i \in 1..Len(w.sent) : undone(w.sent[i]) = Undone(w.sent[i], h)
    BY DEF Undone, Later
  <2> QED BY <2>1, PlacesAre
<1>5. \A c \in w.coins : kept(c) = KeptCoin(w, h, c)
  <2> TAKE c \in w.coins
  <2>1. claims(c.coin) = ClaimsOn(w, h, c.coin)
    BY DEF ClaimsOn, Unsettled
  <2>2. c = [coin |-> c.coin, height |-> c.height, spent |-> c.spent, pending |-> c.pending]
    BY DEF IsWallet, IsCoin
  <2> HIDE DEF claims
  <2>3. SpentBelow(c, h) = Later(h, c.spent)
    BY DEF SpentBelow, Later
  <2>4. PICK at, p : /\ at = Later(h, c.spent)
                     /\ p = IF at = Unset /\ ClaimsOn(w, h, c.coin) # {}
                            THEN w.sent[Max(ClaimsOn(w, h, c.coin))].id ELSE c.pending
    OBVIOUS
  <2>5. kept(c) = [c EXCEPT !.spent = at, !.pending = p]
    BY <2>1, <2>3, <2>4
  <2>6. KeptCoin(w, h, c) = [coin |-> c.coin, height |-> c.height, spent |-> at, pending |-> p]
    BY <2>4 DEF KeptCoin
  <2> HIDE DEF kept
  <2> QED BY ONLY <2>2, <2>5, <2>6
<1>6. coins = {KeptCoin(w, h, c) : c \in {d \in w.coins : d.height < h}}
  <2> HIDE DEF kept
  <2> QED BY <1>5
<1>7. w = [scanned |-> w.scanned, recent |-> w.recent, coins |-> w.coins, sent |-> w.sent,
           birth |-> w.birth]
  BY DEF IsWallet
<1> HIDE DEF coins, sent
<1> QED BY <1>2, <1>3, <1>4, <1>6, <1>7

LEMMA UndoneIs ==
    ASSUME UnsetIsNothing, NEW s, IsPayment(s), NEW h \in Nat
    PROVE  /\ IsPayment(Undone(s, h)) /\ Undone(s, h).id = s.id /\ Undone(s, h).inputs = s.inputs
           /\ Undone(s, h).cancelled = s.cancelled
           /\ Undone(s, h).height = Later(h, s.height) /\ Undone(s, h).failed = Later(h, s.failed)
<1>1. PICK a, b : a = Later(h, s.height) /\ b = Later(h, s.failed)
  OBVIOUS
<1>2. IsHeight(a) /\ IsHeight(b)
  BY <1>1 DEF IsPayment, IsHeight, Later
<1>3. s = [id |-> s.id, inputs |-> s.inputs, kept |-> s.kept, height |-> s.height,
           failed |-> s.failed, cancelled |-> s.cancelled]
  BY DEF IsPayment
<1>4. Undone(s, h) = [s EXCEPT !.height = a, !.failed = b]
  BY <1>1 DEF Undone
<1>5. Undone(s, h) = [id |-> s.id, inputs |-> s.inputs, kept |-> s.kept, height |-> a,
                      failed |-> b, cancelled |-> s.cancelled]
  BY ONLY <1>3, <1>4
<1> QED BY <1>1, <1>2, <1>5 DEF IsPayment

\* What blocks from h on said is forgotten, and nothing else.
LEMMA LaterIs ==
    ASSUME UnsetIsNothing, NEW h \in Nat, NEW at, IsHeight(at)
    PROVE  /\ IsHeight(Later(h, at))
           /\ Later(h, at) # Unset => Later(h, at) = at /\ at \in Nat /\ at < h
           /\ at \in Nat /\ at < h => Later(h, at) = at
           /\ at # Unset /\ Later(h, at) = Unset => at \in Nat /\ From(h, at)
BY DEF IsHeight, Later, From, UnsetIsNothing

LEMMA RollbackKeeps ==
    ASSUME UnsetIsNothing, NEW w, NEW n \in Nat, NEW h \in Nat, Holds(w, n, FALSE)
    PROVE  /\ Holds(RollbackTo(w, h), n, FALSE)
           /\ RollbackTo(w, h).scanned <= w.scanned /\ RollbackTo(w, h).birth = w.birth
<1> DEFINE places == 1..Len(w.sent)
<1>1. PICK v : v = RollbackTo(w, h)
  OBVIOUS
<1>2. IsWallet(w) /\ DOMAIN w.sent = places /\ Len(w.sent) \in Nat /\ w.scanned \in Nat
      /\ \A i \in places : IsPayment(w.sent[i])
  BY PlacesAre DEF Holds, IsWallet
<1>3. /\ v = [scanned |-> v.scanned, recent |-> v.recent, coins |-> v.coins,
              sent |-> v.sent, birth |-> v.birth]
      /\ v.birth = w.birth
      /\ v.scanned = IF w.scanned <= h THEN w.scanned ELSE h
      /\ v.sent = [i \in places |-> Undone(w.sent[i], h)]
      /\ v.coins = {KeptCoin(w, h, c) : c \in {d \in w.coins : d.height < h}}
  BY <1>1, <1>2, RollbackIs
<1>4. \A i \in places : v.sent[i] = Undone(w.sent[i], h)
  BY <1>3
<1>5. ASSUME NEW i \in places
      PROVE  /\ IsPayment(v.sent[i]) /\ v.sent[i].id = w.sent[i].id /\ v.sent[i].inputs = w.sent[i].inputs
             /\ v.sent[i].cancelled = w.sent[i].cancelled
             /\ v.sent[i].height = Later(h, w.sent[i].height)
             /\ v.sent[i].failed = Later(h, w.sent[i].failed)
  BY <1>2, <1>4, UndoneIs
<1>6. DOMAIN v.sent = places /\ IsList(v.sent)
  BY <1>2, <1>3 DEF IsList
<1>7. ASSUME NEW x \in v.coins
      PROVE  \E c \in w.coins : x = KeptCoin(w, h, c) /\ IsCoin(c)
  BY <1>2, <1>3 DEF IsWallet
<1>8. ASSUME NEW c \in w.coins, IsCoin(c)
      PROVE  LET x == KeptCoin(w, h, c)
             IN  /\ IsCoin(x) /\ x.coin = c.coin /\ x.spent = Later(h, c.spent)
                 /\ x.pending = IF x.spent = Unset /\ ClaimsOn(w, h, c.coin) # {}
                                THEN w.sent[Max(ClaimsOn(w, h, c.coin))].id ELSE c.pending
  BY <1>8, LaterIs DEF KeptCoin, IsCoin
<1>9. SamePayments(v, w)
  BY <1>2, <1>5, <1>6 DEF SamePayments
<1>10. IsWallet(v)
  <2>1. \A x \in v.coins : IsCoin(x)
    BY <1>7, <1>8
  <2>2. v.scanned \in Nat /\ v.birth \in Nat
    BY <1>2, <1>3 DEF IsWallet
  <2> QED BY <2>1, <2>2, <1>3, <1>5, <1>6 DEF IsWallet
<1>11. OneRecord(v)
  <2>1. ASSUME NEW x \in v.coins, NEW y \in v.coins, x.coin = y.coin PROVE x = y
    <3>1. PICK c \in w.coins : x = KeptCoin(w, h, c) /\ IsCoin(c)
      BY <1>7
    <3>2. PICK d \in w.coins : y = KeptCoin(w, h, d) /\ IsCoin(d)
      BY <1>7
    <3>3. c = d
      BY <2>1, <3>1, <3>2, <1>8 DEF Holds, OneRecord
    <3> QED BY <3>1, <3>2, <3>3
  <2> QED BY <2>1 DEF OneRecord
<1>12. OwnNumber(v, n)
  BY <1>9, NumbersStay DEF Holds
<1>13. SettledInTime(v)
  <2>1. ASSUME NEW i \in places, NEW at, IsHeight(at), at # Unset => at <= w.scanned,
               Later(h, at) # Unset
        PROVE  Later(h, at) <= v.scanned
    BY <2>1, <1>2, <1>3, LaterIs
  <2>2. \A i \in places : /\ IsHeight(w.sent[i].height) /\ IsHeight(w.sent[i].failed)
                          /\ w.sent[i].height # Unset => w.sent[i].height <= w.scanned
                          /\ w.sent[i].failed # Unset => w.sent[i].failed <= w.scanned
    BY <1>2 DEF Holds, SettledInTime, IsPayment
  <2> QED BY <2>1, <2>2, <1>5, <1>6 DEF SettledInTime
\* Whoever is newly reserved for is one of the payments that spend the coin.
<1>14. ASSUME NEW coin, ClaimsOn(w, h, coin) # {}
       PROVE  \E i \in ClaimsOn(w, h, coin) : i = Max(ClaimsOn(w, h, coin))
  <2>1. ClaimsOn(w, h, coin) \subseteq 0..Len(w.sent)
    BY <1>2 DEF ClaimsOn
  <2> QED BY <2>1, <1>2, <1>14, MaxIs
<1>15. ReservedForOne(v)
  <2>1. ASSUME NEW x \in v.coins, x.pending # Unset
        PROVE  \E i \in DOMAIN v.sent : v.sent[i].id = x.pending /\ x.coin \in v.sent[i].inputs
    <3>1. PICK c \in w.coins : x = KeptCoin(w, h, c) /\ IsCoin(c)
      BY <1>7
    <3>2. \E i \in places : w.sent[i].id = x.pending /\ x.coin \in w.sent[i].inputs
      <4>1. CASE x.spent = Unset /\ ClaimsOn(w, h, c.coin) # {}
        <5>1. PICK i \in ClaimsOn(w, h, c.coin) : i = Max(ClaimsOn(w, h, c.coin))
          BY <4>1, <1>14
        <5>2. i \in places /\ c.coin \in w.sent[i].inputs
          BY <1>2 DEF ClaimsOn
        <5> QED BY <3>1, <4>1, <5>1, <5>2, <1>8
      <4>2. CASE ~(x.spent = Unset /\ ClaimsOn(w, h, c.coin) # {})
        <5>1. x.pending = c.pending /\ x.coin = c.coin
          BY <3>1, <4>2, <1>8
        <5> QED BY <5>1, <2>1, <1>2 DEF Holds, ReservedForOne
      <4> QED BY <4>1, <4>2
    <3> QED BY <3>2, <1>5, <1>6
  <2> QED BY <2>1 DEF ReservedForOne
<1>16. SpentIsSettled(v, FALSE)
  <2>1. ASSUME NEW x \in v.coins, NEW i \in places, x.spent # Unset, x.coin \in v.sent[i].inputs,
               ~v.sent[i].cancelled
        PROVE  SettledBy(v.sent[i], x.spent)
    <3>1. PICK c \in w.coins : x = KeptCoin(w, h, c) /\ IsCoin(c)
      BY <1>7
    <3>2. x.spent = c.spent /\ c.spent \in Nat /\ c.spent < h /\ x.coin = c.coin
      BY <2>1, <3>1, <1>8, LaterIs DEF IsCoin
    <3>3. c.spent # Unset /\ c.coin \in w.sent[i].inputs /\ ~w.sent[i].cancelled
      BY <2>1, <3>2, <1>5 
    <3>4. SettledBy(w.sent[i], c.spent)
      BY <3>3, <1>2 DEF Holds, SpentIsSettled
    <3>5. IsHeight(w.sent[i].height) /\ IsHeight(w.sent[i].failed)
      BY <1>2 DEF IsPayment
    <3>6. ASSUME NEW at, IsHeight(at), at # Unset, at <= c.spent
          PROVE  Later(h, at) = at
      BY <3>2, <3>6, LaterIs DEF IsHeight
    <3> QED BY <3>2, <3>4, <3>5, <3>6, <1>5 DEF SettledBy
  <2> QED BY <2>1, <1>6 DEF SpentIsSettled
<1>17. WaitingHold(v)
  <2>1. ASSUME NEW i \in places, NEW coin \in v.sent[i].inputs, IsPending(v.sent[i]), Alone(v, i, coin),
               coin \in Free(v)
        PROVE  FALSE
    <3>1. PICK x \in v.coins : x.coin = coin /\ x.spent = Unset /\ x.pending = Unset
      BY <2>1 DEF Free
    <3>2. PICK c \in w.coins : x = KeptCoin(w, h, c) /\ IsCoin(c)
      BY <1>7
    <3>3. /\ coin = c.coin /\ coin \in w.sent[i].inputs /\ ~w.sent[i].cancelled /\ Alone(w, i, coin)
          /\ Later(h, c.spent) = Unset
          /\ Later(h, w.sent[i].height) = Unset /\ Later(h, w.sent[i].failed) = Unset
      BY <2>1, <3>1, <3>2, <1>2, <1>5, <1>8, <1>9, AloneStays DEF IsPending
    <3>4. ClaimsOn(w, h, coin) = {}
      <4>1. SUFFICES ASSUME ClaimsOn(w, h, coin) # {} PROVE FALSE
        OBVIOUS
      <4>2. PICK j \in ClaimsOn(w, h, coin) : j = Max(ClaimsOn(w, h, coin))
        BY <4>1, <1>14
      <4>3. j \in places /\ x.pending = w.sent[j].id
        BY <3>1, <3>2, <3>3, <4>1, <4>2, <1>2, <1>8 DEF ClaimsOn
      <4>4. w.sent[j].id \in 1..n
        BY <4>3, <1>2 DEF Holds, OwnNumber
      <4> QED BY <3>1, <4>3, <4>4 DEF UnsetIsNothing
    <3>5. c.pending = Unset
      BY <3>1, <3>2, <3>3, <3>4, <1>8
    <3>6. IsPending(w.sent[i])
      <4>1. ~Unsettled(w.sent[i], h)
        BY <3>3, <3>4, <1>2 DEF ClaimsOn
      <4> QED BY <4>1, <3>3 DEF Unsettled, IsPending, Later
    <3>7. c.spent = Unset
      <4>1. SUFFICES ASSUME c.spent # Unset PROVE FALSE
        OBVIOUS
      <4>2. SettledBy(w.sent[i], c.spent)
        BY <3>3, <4>1, <1>2 DEF Holds, SpentIsSettled
      <4> QED BY <4>2, <3>6 DEF SettledBy, IsPending
    <3>8. coin \in Free(w)
      BY <3>3, <3>5, <3>7 DEF Free
    <3> QED BY <3>3, <3>6, <3>8, <1>2 DEF Holds, WaitingHold
  <2> QED BY <2>1, <1>6 DEF WaitingHold
<1>18. v.scanned <= w.scanned
  BY <1>2, <1>3
<1> QED BY <1>1, <1>3, <1>10, <1>11, <1>12, <1>13, <1>15, <1>16, <1>17, <1>18 DEF Holds

------------------------------------------------------------------------------
\* A coin found again is reserved for a payment that waits, if one spends it.
LEMMA ReservedIs ==
    ASSUME UnsetIsNothing, NEW w, NEW n \in Nat, IsWallet(w), OwnNumber(w, n), NEW coin
    PROVE  LET p == ReservedFor(coin, w.sent)
           IN  /\ p # Unset => \E i \in DOMAIN w.sent : w.sent[i].id = p /\ coin \in w.sent[i].inputs
               /\ p = Unset => \A i \in DOMAIN w.sent : IsPending(w.sent[i]) => coin \notin w.sent[i].inputs
<1> DEFINE at == {i \in DOMAIN w.sent : IsPending(w.sent[i]) /\ coin \in w.sent[i].inputs}
<1>1. ReservedFor(coin, w.sent) = IF at = {} THEN Unset ELSE w.sent[Min(at)].id
  BY DEF ReservedFor
<1>2. CASE at = {}
  <2>1. ReservedFor(coin, w.sent) = Unset
    BY <1>1, <1>2
  <2>2. \A i \in DOMAIN w.sent : IsPending(w.sent[i]) => coin \notin w.sent[i].inputs
    BY <1>2
  <2> QED BY <2>1, <2>2
<1>3. CASE at # {}
  <2>1. at \subseteq Nat
    BY PlacesAre
  <2>2. PICK i \in at : i = Min(at)
    BY <1>3, <2>1, MinIs
  <2>3. i \in DOMAIN w.sent /\ coin \in w.sent[i].inputs
    OBVIOUS
  <2>4. ReservedFor(coin, w.sent) = w.sent[i].id
    BY <1>1, <1>3, <2>2
  <2>5. w.sent[i].id # Unset
    BY <2>3 DEF OwnNumber, UnsetIsNothing
  <2> QED BY <2>3, <2>4, <2>5
<1> QED BY <1>2, <1>3

OnceEach(found) == \A f, g \in found : f.coin = g.coin => f = g
FoundCoin(w, f) == [coin |-> f.coin, height |-> f.height, spent |-> Unset,
                    pending |-> ReservedFor(f.coin, w.sent)]
Missing(w, found) == {f \in found : f.coin \notin HeldCoins(w)}

LEMMA WithCoinsIs ==
    ASSUME NEW w, IsWallet(w), NEW found
    PROVE  LET v == WithCoins(w, found)
           IN  /\ v = [scanned |-> w.scanned, recent |-> w.recent, coins |-> v.coins,
                       sent |-> w.sent, birth |-> w.birth]
               /\ v.coins = w.coins \cup {FoundCoin(w, f) : f \in Missing(w, found)}
<1>1. PICK new : new = {FoundCoin(w, f) : f \in Missing(w, found)}
  OBVIOUS
<1>2. WithCoins(w, found) = [w EXCEPT !.coins = @ \cup new]
  BY <1>1 DEF WithCoins, FoundCoin, Missing
<1>3. w = [scanned |-> w.scanned, recent |-> w.recent, coins |-> w.coins, sent |-> w.sent,
           birth |-> w.birth]
  BY DEF IsWallet
<1> QED BY <1>1, <1>2, <1>3

LEMMA WithCoinsKeeps ==
    ASSUME UnsetIsNothing, NEW w, NEW n \in Nat, Holds(w, n, FALSE), NEW found, OnceEach(found)
    PROVE  Holds(WithCoins(w, found), n, FALSE)
<1>1. PICK v : v = WithCoins(w, found)
  OBVIOUS
<1>2. IsWallet(w)
  BY DEF Holds
<1>3. /\ v = [scanned |-> w.scanned, recent |-> w.recent, coins |-> v.coins,
              sent |-> w.sent, birth |-> w.birth]
      /\ v.coins = w.coins \cup {FoundCoin(w, f) : f \in Missing(w, found)}
  BY <1>1, <1>2, WithCoinsIs
<1>4. v.sent = w.sent /\ v.scanned = w.scanned /\ v.recent = w.recent /\ v.birth = w.birth
  BY <1>3
<1>5. ASSUME NEW c \in v.coins, c \notin w.coins
      PROVE  /\ \E f \in Missing(w, found) : c = FoundCoin(w, f)
             /\ IsCoin(c) /\ c.spent = Unset /\ c.pending = ReservedFor(c.coin, w.sent)
  <2>1. PICK f \in Missing(w, found) : c = FoundCoin(w, f)
    BY <1>3, <1>5
  <2> QED BY <2>1 DEF FoundCoin, IsCoin, IsHeight
<1>6. IsWallet(v)
  <2>1. \A c \in v.coins : IsCoin(c)
    BY <1>2, <1>5 DEF IsWallet
  <2> QED BY <2>1, <1>2, <1>3, <1>4 DEF IsWallet
<1>7. OneRecord(v)
  <2>1. ASSUME NEW c \in v.coins, c \notin w.coins, NEW d \in w.coins PROVE c.coin # d.coin
    <3>1. PICK f \in Missing(w, found) : c = FoundCoin(w, f)
      BY <1>5, <2>1
    <3> QED BY <3>1 DEF FoundCoin, Missing, HeldCoins
  <2>2. ASSUME NEW c \in v.coins, c \notin w.coins, NEW d \in v.coins, d \notin w.coins, c.coin = d.coin
        PROVE  c = d
    <3>1. PICK f \in Missing(w, found) : c = FoundCoin(w, f)
      BY <1>5, <2>2
    <3>2. PICK g \in Missing(w, found) : d = FoundCoin(w, g)
      BY <1>5, <2>2
    <3>3. f.coin = g.coin /\ f \in found /\ g \in found
      BY <2>2, <3>1, <3>2 DEF FoundCoin, Missing
    <3> QED BY <3>1, <3>2, <3>3 DEF OnceEach
  <2> QED BY <2>1, <2>2 DEF Holds, OneRecord
<1>8. OwnNumber(v, n) /\ SettledInTime(v)
  BY <1>4 DEF Holds, OwnNumber, SettledInTime
<1>9. ReservedForOne(v)
  <2>1. ASSUME NEW c \in v.coins, c \notin w.coins, c.pending # Unset
        PROVE  \E i \in DOMAIN w.sent : w.sent[i].id = c.pending /\ c.coin \in w.sent[i].inputs
    BY <2>1, <1>2, <1>5, ReservedIs DEF Holds
  <2> QED BY <2>1, <1>4 DEF Holds, ReservedForOne
<1>10. SpentIsSettled(v, FALSE)
  BY <1>4, <1>5 DEF Holds, SpentIsSettled
<1>11. WaitingHold(v)
  <2>1. ASSUME NEW i \in DOMAIN w.sent, NEW coin \in w.sent[i].inputs, IsPending(w.sent[i]),
               Alone(w, i, coin), coin \in Free(v)
        PROVE  FALSE
    <3>1. PICK c \in v.coins : c.coin = coin /\ c.spent = Unset /\ c.pending = Unset
      BY <2>1 DEF Free
    <3>2. CASE c \in w.coins
      <4>1. coin \in Free(w)
        BY <3>1, <3>2 DEF Free
      <4> QED BY <2>1, <4>1 DEF Holds, WaitingHold
    <3>3. CASE c \notin w.coins
      <4>1. ReservedFor(coin, w.sent) = Unset
        BY <3>1, <3>3, <1>5
      <4> QED BY <2>1, <4>1, <1>2, ReservedIs DEF Holds
    <3> QED BY <3>2, <3>3
  <2> QED BY <2>1, <1>4 DEF WaitingHold, Alone
<1> QED BY <1>1, <1>6, <1>7, <1>8, <1>9, <1>10, <1>11 DEF Holds

------------------------------------------------------------------------------
(* Blocks up to a height take coins and settle payments (scan_block,
   scan_unspent). *)
SpentAt(c, taken, at) ==
    IF c.spent = Unset /\ c.coin \in taken THEN [c EXCEPT !.spent = at, !.pending = Unset] ELSE c
SettledThen(t, s, at) ==
    /\ IsPayment(t) /\ t.id = s.id /\ t.inputs = s.inputs /\ t.cancelled = s.cancelled
    /\ t.height = s.height \/ (s.height = Unset /\ t.height = at)
    /\ t.failed = s.failed \/ (s.failed = Unset /\ t.failed = at)
Marks(v, w, taken, at) ==
    /\ v = [scanned |-> v.scanned, recent |-> v.recent, coins |-> v.coins, sent |-> v.sent,
            birth |-> v.birth]
    /\ v.scanned = at /\ v.birth = w.birth
    /\ v.coins = {SpentAt(c, taken, at) : c \in w.coins}
    /\ IsList(v.sent) /\ DOMAIN v.sent = DOMAIN w.sent
    /\ \A i \in DOMAIN w.sent : SettledThen(v.sent[i], w.sent[i], at)
SettlesAll(v, w, taken) ==
    \A i \in DOMAIN w.sent : w.sent[i].inputs \cap taken # {} =>
        v.sent[i].height # Unset \/ v.sent[i].failed # Unset

LEMMA SpentAtIs ==
    ASSUME UnsetIsNothing, NEW c, IsCoin(c), NEW taken, NEW at \in Nat
    PROVE  LET x == SpentAt(c, taken, at)
           IN  /\ IsCoin(x) /\ x.coin = c.coin
               /\ x = c \/ (c.spent = Unset /\ c.coin \in taken /\ x.spent = at /\ x.pending = Unset)
<1>1. CASE c.spent = Unset /\ c.coin \in taken
  <2>1. SpentAt(c, taken, at) = [coin |-> c.coin, height |-> c.height, spent |-> at, pending |-> Unset]
    BY <1>1 DEF SpentAt, IsCoin
  <2> QED BY <2>1, <1>1 DEF IsCoin, IsHeight
<1>2. CASE ~(c.spent = Unset /\ c.coin \in taken)
  BY <1>2 DEF SpentAt
<1> QED BY <1>1, <1>2

LEMMA MarksKeep ==
    ASSUME UnsetIsNothing, NEW w, NEW v, NEW n \in Nat, Holds(w, n, FALSE), NEW taken,
           NEW at \in Nat, w.scanned <= at, Marks(v, w, taken, at), NEW restored \in BOOLEAN,
           restored \/ SettlesAll(v, w, taken)
    PROVE  Holds(v, n, restored)
<1>1. IsWallet(w) /\ w.scanned \in Nat
  BY DEF Holds, IsWallet
<1>2. ASSUME NEW x \in v.coins
      PROVE  \E c \in w.coins : x = SpentAt(c, taken, at) /\ IsCoin(c)
  BY <1>1 DEF Marks, IsWallet
<1>3. ASSUME NEW i \in DOMAIN w.sent
      PROVE  /\ SettledThen(v.sent[i], w.sent[i], at)
             /\ IsPayment(w.sent[i])
             /\ w.sent[i].height # Unset => w.sent[i].height <= w.scanned
             /\ w.sent[i].failed # Unset => w.sent[i].failed <= w.scanned
  BY <1>1 DEF Marks, IsWallet, Holds, SettledInTime
<1>4. DOMAIN v.sent = DOMAIN w.sent /\ SamePayments(v, w) /\ v.scanned = at
  BY <1>3 DEF Marks, SamePayments, SettledThen
<1>5. IsWallet(v)
  <2>1. \A x \in v.coins : IsCoin(x)
    BY <1>2, SpentAtIs
  <2> QED BY <2>1, <1>1, <1>3, <1>4 DEF Marks, IsWallet, SettledThen
<1>6. OneRecord(v)
  <2>1. ASSUME NEW x \in v.coins, NEW y \in v.coins, x.coin = y.coin PROVE x = y
    <3>1. PICK c \in w.coins : x = SpentAt(c, taken, at) /\ IsCoin(c)
      BY <1>2
    <3>2. PICK d \in w.coins : y = SpentAt(d, taken, at) /\ IsCoin(d)
      BY <1>2
    <3>3. c = d
      BY <2>1, <3>1, <3>2, SpentAtIs DEF Holds, OneRecord
    <3> QED BY <3>1, <3>2, <3>3
  <2> QED BY <2>1 DEF OneRecord
<1>7. OwnNumber(v, n)
  BY <1>4, NumbersStay DEF Holds
<1>8. SettledInTime(v)
  <2>1. ASSUME NEW i \in DOMAIN w.sent
        PROVE  /\ v.sent[i].height # Unset => v.sent[i].height <= at
               /\ v.sent[i].failed # Unset => v.sent[i].failed <= at
    <3>1. ASSUME NEW a, NEW b, IsHeight(b), b # Unset => b <= w.scanned, a = b \/ a = at, a # Unset
          PROVE  a <= at
      BY <1>1, <3>1 DEF IsHeight
    <3>2. /\ v.sent[i].height = w.sent[i].height \/ v.sent[i].height = at
          /\ v.sent[i].failed = w.sent[i].failed \/ v.sent[i].failed = at
      BY <1>3 DEF SettledThen
    <3>3. IsHeight(w.sent[i].height) /\ IsHeight(w.sent[i].failed)
      BY <1>3 DEF IsPayment
    <3> QED BY <3>1, <3>2, <3>3, <1>3
  <2> QED BY <2>1, <1>4 DEF SettledInTime
<1>9. ReservedForOne(v)
  <2>1. ASSUME NEW x \in v.coins, x.pending # Unset
        PROVE  \E i \in DOMAIN w.sent : w.sent[i].id = x.pending /\ x.coin \in w.sent[i].inputs
    <3>1. PICK c \in w.coins : x = SpentAt(c, taken, at) /\ IsCoin(c)
      BY <1>2
    <3>2. x = c
      BY <2>1, <3>1, SpentAtIs
    <3> QED BY <2>1, <3>2 DEF Holds, ReservedForOne
  <2> QED BY <2>1, <1>4 DEF ReservedForOne, SamePayments
<1>10. SpentIsSettled(v, restored)
  <2>1. ASSUME NEW x \in v.coins, NEW i \in DOMAIN w.sent, x.spent # Unset,
               x.coin \in w.sent[i].inputs, ~w.sent[i].cancelled
        PROVE  SettledBy(v.sent[i], x.spent) \/ (restored /\ x.spent = v.scanned)
    <3>1. PICK c \in w.coins : x = SpentAt(c, taken, at) /\ IsCoin(c)
      BY <1>2
    <3>2. CASE x = c
      <4>1. SettledBy(w.sent[i], x.spent)
        BY <2>1, <3>2 DEF Holds, SpentIsSettled
      <4> QED BY <4>1, <1>3 DEF SettledBy, SettledThen
    <3>3. CASE x # c
      <4>1. c.coin \in taken /\ x.spent = at /\ x.coin = c.coin
        BY <3>1, <3>3, SpentAtIs
      <4>2. restored \/ v.sent[i].height # Unset \/ v.sent[i].failed # Unset
        BY <2>1, <4>1 DEF SettlesAll
      <4>3. SettledInTime(v) /\ v.scanned = at
        BY <1>4, <1>8
      <4> QED BY <4>1, <4>2, <4>3, <1>4 DEF SettledInTime, SettledBy
    <3> QED BY <3>2, <3>3
  <2> QED BY <2>1, <1>3, <1>4 DEF SpentIsSettled, SettledThen
<1>11. WaitingHold(v)
  <2>1. ASSUME NEW i \in DOMAIN w.sent, NEW coin \in w.sent[i].inputs, IsPending(v.sent[i]),
               Alone(w, i, coin), coin \in Free(v)
        PROVE  FALSE
    <3>1. PICK x \in v.coins : x.coin = coin /\ x.spent = Unset /\ x.pending = Unset
      BY <2>1 DEF Free
    <3>2. PICK c \in w.coins : x = SpentAt(c, taken, at) /\ IsCoin(c)
      BY <1>2
    <3>3. x = c
      BY <3>1, <3>2, SpentAtIs DEF UnsetIsNothing
    <3>4. coin \in Free(w)
      BY <3>1, <3>3 DEF Free
    <3>5. IsPending(w.sent[i])
      BY <2>1, <1>3 DEF SettledThen, IsPending
    <3> QED BY <2>1, <3>4, <3>5 DEF Holds, WaitingHold
  <2>2. ASSUME NEW i \in DOMAIN v.sent, NEW coin \in v.sent[i].inputs, IsPending(v.sent[i]),
               Alone(v, i, coin)
        PROVE  i \in DOMAIN w.sent /\ coin \in w.sent[i].inputs /\ Alone(w, i, coin)
    BY <2>2, <1>4, AloneStays DEF SamePayments
  <2> QED BY <2>1, <2>2 DEF WaitingHold
<1> QED BY <1>5, <1>6, <1>7, <1>8, <1>9, <1>10, <1>11 DEF Holds

------------------------------------------------------------------------------
\* A block takes coins and settles the payments that spend them (scan_block).
Taken(block) == UNION {Ins(t) : t \in block.txs}
SeenIn(s, block, h) ==
    IF s.height # Unset \/ s.failed # Unset THEN s
    ELSE IF s.id \in block.txs THEN [s EXCEPT !.height = h]
    ELSE IF s.inputs \cap Taken(block) # {} THEN [s EXCEPT !.failed = h] ELSE s
Aged(s, h) == IF SettledAt(s) # Unset /\ h >= SettledAt(s) + Window THEN [s EXCEPT !.kept = FALSE] ELSE s
AgedAll(w, h) == [i \in DOMAIN w.sent |-> Aged(w.sent[i], h)]
AfterBlock(w, block) ==
    [scanned |-> w.scanned, recent |-> w.recent,
     coins |-> {SpentAt(c, Taken(block), w.scanned) : c \in w.coins},
     sent |-> [i \in DOMAIN w.sent |-> SeenIn(w.sent[i], block, w.scanned)], birth |-> w.birth]
FoundIn(w, block) == {[coin |-> c, height |-> w.scanned] : c \in UNION {Outs(t) : t \in block.txs}}

LEMMA ScanBlockIs ==
    ASSUME NEW w, IsWallet(w), NEW block,
           NEW u, u = WithCoins(AfterBlock(w, block), FoundIn(w, block)), IsWallet(u),
           NEW aged, aged = AgedAll(u, w.scanned)
    PROVE  \E recent : ScanBlock(w, block) =
               [scanned |-> w.scanned + 1, recent |-> recent, coins |-> u.coins, sent |-> aged,
                birth |-> u.birth]
<1> DEFINE h == w.scanned
           taken == UNION {Ins(t) : t \in block.txs}
           seen(s) ==
               IF s.height # Unset \/ s.failed # Unset THEN s
               ELSE IF s.id \in block.txs THEN [s EXCEPT !.height = h]
               ELSE IF s.inputs \cap taken # {} THEN [s EXCEPT !.failed = h] ELSE s
           old(s) == IF SettledAt(s) # Unset /\ h >= SettledAt(s) + Window
                     THEN [s EXCEPT !.kept = FALSE] ELSE s
           gone == [w EXCEPT !.coins = {IF c.spent = Unset /\ c.coin \in taken
                                        THEN [c EXCEPT !.spent = h, !.pending = Unset] ELSE c : c \in @},
                             !.sent = [i \in DOMAIN @ |-> seen(@[i])]]
           recent == Append(w.recent, [height |-> h, id |-> block.id])
           kept == IF Len(recent) > Window THEN Tail(recent) ELSE recent
           found == WithCoins(gone, {[coin |-> c, height |-> h] : c \in UNION {Outs(t) : t \in block.txs}})
<1>0. ASSUME NEW coins, NEW sent
      PROVE  [w EXCEPT !.coins = coins, !.sent = sent] =
             [scanned |-> w.scanned, recent |-> w.recent, coins |-> coins, sent |-> sent,
              birth |-> w.birth]
  <2>1. w = [scanned |-> w.scanned, recent |-> w.recent, coins |-> w.coins, sent |-> w.sent,
             birth |-> w.birth]
    BY DEF IsWallet
  <2>2. PICK a, b, c, d, e : a = w.scanned /\ b = w.recent /\ c = w.coins /\ d = w.sent /\ e = w.birth
    OBVIOUS
  <2>3. w = [scanned |-> a, recent |-> b, coins |-> c, sent |-> d, birth |-> e]
    BY ONLY <2>1, <2>2
  <2>4. [w EXCEPT !.coins = coins, !.sent = sent] =
        [scanned |-> a, recent |-> b, coins |-> coins, sent |-> sent, birth |-> e]
    <3>1. PICK x : x = [w EXCEPT !.coins = coins]
      OBVIOUS
    <3>2. x = [scanned |-> a, recent |-> b, coins |-> coins, sent |-> d, birth |-> e]
      BY ONLY <2>3, <3>1
    <3>3. [w EXCEPT !.coins = coins, !.sent = sent] = [x EXCEPT !.sent = sent]
      BY ONLY <3>1
    <3>4. [x EXCEPT !.sent = sent] = [scanned |-> a, recent |-> b, coins |-> coins, sent |-> sent, birth |-> e]
      BY ONLY <3>2
    <3> QED BY ONLY <3>3, <3>4
  <2> QED BY ONLY <2>2, <2>4
<1>1. ScanBlock(w, block) = [found EXCEPT !.sent = [i \in DOMAIN @ |-> old(@[i])],
                                          !.recent = kept, !.scanned = h + 1]
  BY DEF ScanBlock
<1>2. gone = AfterBlock(w, block)
  <2>2. PICK coins : coins = {SpentAt(c, taken, h) : c \in w.coins}
    OBVIOUS
  <2>3. PICK sent : sent = [i \in DOMAIN w.sent |-> seen(w.sent[i])]
    OBVIOUS
  <2>4. gone = [w EXCEPT !.coins = coins, !.sent = sent]
    BY <2>2, <2>3 DEF SpentAt
  <2>5. sent = [i \in DOMAIN w.sent |-> SeenIn(w.sent[i], block, w.scanned)]
    BY <2>3 DEF SeenIn, Taken
  <2>6. coins = {SpentAt(c, Taken(block), w.scanned) : c \in w.coins}
    BY <2>2 DEF Taken
  <2>7. [w EXCEPT !.coins = coins, !.sent = sent] =
        [scanned |-> w.scanned, recent |-> w.recent, coins |-> coins, sent |-> sent, birth |-> w.birth]
    BY <1>0
  <2> QED BY <2>4, <2>5, <2>6, <2>7 DEF AfterBlock
<1>3. found = u
  BY <1>2 DEF FoundIn
<1> HIDE DEF found, kept
<1>4. PICK list : list = [i \in DOMAIN found.sent |-> old(found.sent[i])]
  OBVIOUS
<1>5. list = aged
  BY <1>3, <1>4 DEF Aged, AgedAll
<1>6. ScanBlock(w, block) = [found EXCEPT !.sent = list, !.recent = kept, !.scanned = h + 1]
  BY <1>1, <1>4
<1>7. ScanBlock(w, block) = [u EXCEPT !.sent = aged, !.recent = kept, !.scanned = w.scanned + 1]
  BY <1>3, <1>5, <1>6
<1>8. ScanBlock(w, block) = [scanned |-> w.scanned + 1, recent |-> kept, coins |-> u.coins,
                            sent |-> aged, birth |-> u.birth]
  <2>1. u = [scanned |-> u.scanned, recent |-> u.recent, coins |-> u.coins, sent |-> u.sent,
             birth |-> u.birth]
    BY DEF IsWallet
  <2>2. PICK y, k : y = [u EXCEPT !.sent = aged] /\ k = w.scanned + 1
    OBVIOUS
  <2>3. y = [scanned |-> u.scanned, recent |-> u.recent, coins |-> u.coins, sent |-> aged,
             birth |-> u.birth]
    BY ONLY <2>1, <2>2
  <2>4. PICK z : z = [y EXCEPT !.recent = kept]
    OBVIOUS
  <2>5. z = [scanned |-> u.scanned, recent |-> kept, coins |-> u.coins, sent |-> aged,
             birth |-> u.birth]
    BY ONLY <2>3, <2>4
  <2>6. [z EXCEPT !.scanned = k] = [scanned |-> k, recent |-> kept, coins |-> u.coins, sent |-> aged,
                                    birth |-> u.birth]
    BY ONLY <2>5
  <2>7. ScanBlock(w, block) = [z EXCEPT !.scanned = k]
    BY ONLY <1>7, <2>2, <2>4
  <2> QED BY <2>2, <2>6, <2>7
<1> QED BY <1>8

\* Marking payments as old, and reading on, changes nothing else.
Older(v, w) ==
    /\ v = [scanned |-> v.scanned, recent |-> v.recent, coins |-> v.coins, sent |-> v.sent,
            birth |-> v.birth]
    /\ v.scanned \in Nat /\ v.scanned >= w.scanned /\ v.birth = w.birth /\ v.coins = w.coins
    /\ IsList(v.sent) /\ DOMAIN v.sent = DOMAIN w.sent
    /\ \A i \in DOMAIN w.sent :
          v.sent[i] = w.sent[i] \/ v.sent[i] = [w.sent[i] EXCEPT !.kept = FALSE]

LEMMA OlderKeep ==
    ASSUME UnsetIsNothing, NEW w, NEW v, NEW n \in Nat, Holds(w, n, FALSE), Older(v, w)
    PROVE  Holds(v, n, FALSE)
<1>1. IsWallet(w) /\ w.scanned \in Nat
  BY DEF Holds, IsWallet
<1>2. ASSUME NEW i \in DOMAIN w.sent
      PROVE  /\ IsPayment(w.sent[i]) /\ IsPayment(v.sent[i])
             /\ v.sent[i].id = w.sent[i].id /\ v.sent[i].inputs = w.sent[i].inputs
             /\ v.sent[i].cancelled = w.sent[i].cancelled
             /\ v.sent[i].height = w.sent[i].height /\ v.sent[i].failed = w.sent[i].failed
  <2>1. IsPayment(w.sent[i])
    BY <1>1 DEF IsWallet
  <2>2. CASE v.sent[i] = w.sent[i]
    BY <2>1, <2>2
  <2>3. CASE v.sent[i] = [w.sent[i] EXCEPT !.kept = FALSE]
    <3>1. PICK s : s = w.sent[i]
      OBVIOUS
    <3>2. s = [id |-> s.id, inputs |-> s.inputs, kept |-> s.kept, height |-> s.height,
               failed |-> s.failed, cancelled |-> s.cancelled]
      BY <2>1, <3>1 DEF IsPayment
    <3>3. PICK f : f = FALSE
      OBVIOUS
    <3>4. [s EXCEPT !.kept = f] =
          [id |-> s.id, inputs |-> s.inputs, kept |-> f, height |-> s.height,
           failed |-> s.failed, cancelled |-> s.cancelled]
      BY ONLY <3>2
    <3> QED BY <2>1, <2>3, <3>1, <3>3, <3>4 DEF IsPayment
  <2> QED BY <2>2, <2>3 DEF Older
<1>3. DOMAIN v.sent = DOMAIN w.sent /\ v.coins = w.coins /\ SamePayments(v, w)
  BY <1>2 DEF Older, SamePayments
<1>4. IsWallet(v)
  BY <1>1, <1>2, <1>3 DEF Older, IsWallet
<1>5. OneRecord(v)
  BY <1>3 DEF Holds, OneRecord
<1>6. OwnNumber(v, n)
  BY <1>3, NumbersStay DEF Holds
<1>7. SettledInTime(v)
  <2>1. ASSUME NEW at, IsHeight(at), at # Unset, at <= w.scanned PROVE at <= v.scanned
    BY <2>1, <1>1 DEF IsHeight, Older
  <2>2. \A i \in DOMAIN w.sent : IsHeight(w.sent[i].height) /\ IsHeight(w.sent[i].failed)
    BY <1>2 DEF IsPayment
  <2> QED BY <2>1, <2>2, <1>2, <1>3 DEF Holds, SettledInTime
<1>8. ReservedForOne(v)
  BY <1>2, <1>3 DEF Holds, ReservedForOne
<1>9. SpentIsSettled(v, FALSE)
  BY <1>2, <1>3 DEF Holds, SpentIsSettled, SettledBy
<1>10. WaitingHold(v)
  <2>1. ASSUME NEW i \in DOMAIN v.sent, NEW coin \in v.sent[i].inputs, IsPending(v.sent[i]),
               Alone(v, i, coin)
        PROVE  i \in DOMAIN w.sent /\ coin \in w.sent[i].inputs /\ IsPending(w.sent[i]) /\ Alone(w, i, coin)
    BY <2>1, <1>2, <1>3, AloneStays DEF IsPending
  <2>2. Free(v) = Free(w)
    BY <1>3 DEF Free
  <2> QED BY <2>1, <2>2 DEF Holds, WaitingHold
<1> QED BY <1>4, <1>5, <1>6, <1>7, <1>8, <1>9, <1>10 DEF Holds

LEMMA ScanBlockKeeps ==
    ASSUME UnsetIsNothing, NEW w, NEW n \in Nat, Holds(w, n, FALSE), NEW block
    PROVE  /\ Holds(ScanBlock(w, block), n, FALSE)
<1> DEFINE v == AfterBlock(w, block)
           places == DOMAIN w.sent
<1>1. IsWallet(w) /\ w.scanned \in Nat /\ Len(w.sent) \in Nat /\ places = 1..Len(w.sent)
  BY PlacesAre DEF Holds, IsWallet
<1>2. /\ v.scanned = w.scanned /\ v.recent = w.recent /\ v.birth = w.birth
      /\ v.coins = {SpentAt(c, Taken(block), w.scanned) : c \in w.coins}
      /\ v.sent = [i \in places |-> SeenIn(w.sent[i], block, w.scanned)]
      /\ v = [scanned |-> v.scanned, recent |-> v.recent, coins |-> v.coins, sent |-> v.sent,
              birth |-> v.birth]
  BY DEF AfterBlock
<1> HIDE DEF v
<1>3. ASSUME NEW i \in places
      PROVE  /\ SettledThen(v.sent[i], w.sent[i], w.scanned)
             /\ w.sent[i].inputs \cap Taken(block) # {} =>
                  v.sent[i].height # Unset \/ v.sent[i].failed # Unset
  <2>1. PICK s : s = w.sent[i]
    OBVIOUS
  <2>2. v.sent[i] = SeenIn(s, block, w.scanned) /\ IsPayment(s)
    BY <1>1, <1>2, <2>1 DEF IsWallet
  <2>3. s = [id |-> s.id, inputs |-> s.inputs, kept |-> s.kept, height |-> s.height,
             failed |-> s.failed, cancelled |-> s.cancelled]
    BY <2>2 DEF IsPayment
  <2>4. PICK h : h = w.scanned
    OBVIOUS
  <2>5. [s EXCEPT !.height = h] =
        [id |-> s.id, inputs |-> s.inputs, kept |-> s.kept, height |-> h,
         failed |-> s.failed, cancelled |-> s.cancelled]
    BY ONLY <2>3
  <2>6. [s EXCEPT !.failed = h] =
        [id |-> s.id, inputs |-> s.inputs, kept |-> s.kept, height |-> s.height,
         failed |-> h, cancelled |-> s.cancelled]
    BY ONLY <2>3
  <2>7. IsHeight(h) /\ h # Unset
    BY <1>1, <2>4 DEF IsHeight, UnsetIsNothing
  <2>8. CASE v.sent[i] = s /\ (s.height # Unset \/ s.failed # Unset \/ s.inputs \cap Taken(block) = {})
    BY <2>1, <2>2, <2>8 DEF SettledThen
  <2>9. CASE v.sent[i] = [s EXCEPT !.height = h] /\ s.height = Unset
    BY <2>1, <2>2, <2>4, <2>5, <2>7, <2>9 DEF SettledThen, IsPayment
  <2>10. CASE v.sent[i] = [s EXCEPT !.failed = h] /\ s.failed = Unset
    BY <2>1, <2>2, <2>4, <2>6, <2>7, <2>10 DEF SettledThen, IsPayment
  <2> QED BY <2>2, <2>4, <2>8, <2>9, <2>10 DEF SeenIn
<1>4. IsList(v.sent) /\ DOMAIN v.sent = places
  BY <1>1, <1>2 DEF IsList
<1>5. Marks(v, w, Taken(block), w.scanned) /\ SettlesAll(v, w, Taken(block))
  BY <1>2, <1>3, <1>4 DEF Marks, SettlesAll
<1>6. Holds(v, n, FALSE)
  <2>1. w.scanned <= w.scanned
    BY <1>1
  <2> QED BY <2>1, <1>1, <1>5, MarksKeep
<1>7. PICK u : u = WithCoins(v, FoundIn(w, block))
  OBVIOUS
<1>8. Holds(u, n, FALSE)
  <2>1. OnceEach(FoundIn(w, block))
    BY DEF OnceEach, FoundIn
  <2> QED BY <2>1, <1>6, <1>7, WithCoinsKeeps
<1>9. u.scanned = w.scanned
  <2>1. IsWallet(v)
    BY <1>6 DEF Holds
  <2> QED BY <2>1, <1>2, <1>7, WithCoinsIs
<1>10. PICK sent : sent = AgedAll(u, w.scanned)
  OBVIOUS
<1>11. PICK recent, x :
          /\ x = [scanned |-> w.scanned + 1, recent |-> recent, coins |-> u.coins, sent |-> sent,
                  birth |-> u.birth]
          /\ x = ScanBlock(w, block)
  <2>1. u = WithCoins(AfterBlock(w, block), FoundIn(w, block)) /\ IsWallet(u)
    BY <1>7, <1>8 DEF v, Holds
  <2>2. \E recent : ScanBlock(w, block) =
           [scanned |-> w.scanned + 1, recent |-> recent, coins |-> u.coins, sent |-> sent,
            birth |-> u.birth]
    BY <2>1, <1>1, <1>10, ScanBlockIs
  <2> QED BY <2>2
<1>12. Older(x, u)
  <2>1. x.sent = sent /\ DOMAIN u.sent = 1..Len(u.sent) /\ Len(u.sent) \in Nat
    BY <1>8, <1>11, PlacesAre DEF Holds
  <2>2. \A i \in DOMAIN u.sent : x.sent[i] = Aged(u.sent[i], w.scanned)
    BY <1>10, <2>1 DEF AgedAll
  <2>3. IsList(x.sent) /\ DOMAIN x.sent = DOMAIN u.sent
    BY <1>10, <2>1 DEF IsList, AgedAll
  <2>4. x.scanned = w.scanned + 1 /\ x.recent = recent /\ x.coins = u.coins /\ x.birth = u.birth
    BY <1>11
  <2> QED BY <2>1, <2>2, <2>3, <2>4, <1>1, <1>9, <1>11 DEF Older, Aged
<1> QED BY <1>8, <1>11, <1>12, OlderKeep

------------------------------------------------------------------------------
Reading(w, blocks) ==
    CHOOSE read : read =
        [i \in 0..Len(blocks) |->
            IF i = 0 THEN [w |-> w, ok |-> TRUE] ELSE ReadOn(read[i - 1], blocks[i])]

\* The blocks of an answer are read one after another (scan_forward).
LEMMA ScannedSteps ==
    ASSUME NEW w, NEW blocks, Len(blocks) \in Nat
    PROVE  \E f : /\ f[0] = [w |-> w, ok |-> TRUE] /\ Scanned(w, blocks) = f[Len(blocks)]
                  /\ \A i \in 1..Len(blocks) : f[i] = ReadOn(f[i - 1], blocks[i])
<1> DEFINE first == [w |-> w, ok |-> TRUE]
           Then(r, i) == ReadOn(r, blocks[i])
           P(k) == \E g : g = [i \in 0..k |-> IF i = 0 THEN first ELSE Then(g[i - 1], i)]
<1>1. P(0)
  <2> HIDE DEF Then, first
  <2>1. [i \in 0..0 |-> first] =
        [i \in 0..0 |-> IF i = 0 THEN first ELSE Then([j \in 0..0 |-> first][i - 1], i)]
    OBVIOUS
  <2> QED BY <2>1
<1>2. ASSUME NEW k \in Nat, P(k) PROVE P(k + 1)
  <2> HIDE DEF Then, first
  <2>1. PICK g : g = [i \in 0..k |-> IF i = 0 THEN first ELSE Then(g[i - 1], i)]
    BY <1>2
  <2>2. PICK h : h = [i \in 0..(k + 1) |-> IF i = k + 1 THEN Then(g[k], i) ELSE g[i]]
    OBVIOUS
  <2>3. ASSUME NEW i \in 0..(k + 1)
        PROVE  h[i] = IF i = 0 THEN first ELSE Then(h[i - 1], i)
    <3>1. CASE i = k + 1
      BY <3>1, <2>2
    <3>2. CASE i # k + 1
      <4>1. i \in 0..k /\ h[i] = g[i]
        BY <3>2, <2>2
      <4>2. i # 0 => i - 1 \in 0..(k + 1) /\ i - 1 # k + 1
        BY <4>1
      <4> QED BY <4>1, <4>2, <2>1, <2>2
    <3> QED BY <3>1, <3>2
  <2>4. h = [i \in 0..(k + 1) |-> IF i = 0 THEN first ELSE Then(h[i - 1], i)]
    BY <2>2, <2>3
  <2> QED BY <2>4
<1>3. \A k \in Nat : P(k)
  <2>1. PICK S : S = {k \in Nat : P(k)}
    OBVIOUS
  <2> HIDE DEF P
  <2>2. 0 \in S /\ \A k \in Nat : k \in S => k + 1 \in S
    BY <1>1, <1>2, <2>1
  <2>3. Nat \subseteq S
    BY <2>2, SetInd
  <2> QED BY <2>1, <2>3
<1>4. Reading(w, blocks) =
         [i \in 0..Len(blocks) |-> IF i = 0 THEN first ELSE Then(Reading(w, blocks)[i - 1], i)]
  BY <1>3 DEF Reading
<1>5. Scanned(w, blocks) = Reading(w, blocks)[Len(blocks)]
  BY DEF Scanned, Reading
<1>6. PICK f : f = Reading(w, blocks)
  OBVIOUS
<1>7. f = [i \in 0..Len(blocks) |-> IF i = 0 THEN first ELSE Then(f[i - 1], i)]
  BY <1>4, <1>6
<1> HIDE DEF Then, first
<1>8. f[0] = first /\ \A i \in 1..Len(blocks) : f[i] = Then(f[i - 1], i)
  BY <1>7
<1> QED BY <1>5, <1>6, <1>8 DEF Then, first

LEMMA ScannedKeeps ==
    ASSUME UnsetIsNothing, NEW w, NEW n \in Nat, Holds(w, n, FALSE), NEW blocks, Len(blocks) \in Nat
    PROVE  Holds(Scanned(w, blocks).w, n, FALSE)
<1>0. PICK N \in Nat : N = Len(blocks)
  OBVIOUS
<1>1. PICK f : /\ f[0] = [w |-> w, ok |-> TRUE] /\ Scanned(w, blocks) = f[N]
               /\ \A i \in 1..N : f[i] = ReadOn(f[i - 1], blocks[i])
  BY <1>0, ScannedSteps
<1> DEFINE Good(i) == Holds(f[i].w, n, FALSE)
           S == {i \in Nat : i <= N => Good(i)}
<1>2. 0 \in S
  <2>1. f[0].w = w
    BY <1>1
  <2>2. Good(0)
    BY <2>1
  <2> HIDE DEF Good
  <2> QED BY <2>2
<1>3. ASSUME NEW i \in Nat, i \in S PROVE i + 1 \in S
  <2>1. ASSUME i + 1 <= N PROVE Good(i + 1)
    <3>1. i + 1 \in 1..N /\ (i + 1) - 1 = i /\ i <= N
      BY <1>0, <2>1
    <3>2. f[i + 1] = ReadOn(f[i], blocks[i + 1])
      BY <3>1, <1>1
    <3>4. Good(i)
      <4> HIDE DEF Good
      <4> QED BY <3>1, <1>3
    <3>3. f[i + 1].w = f[i].w \/ f[i + 1].w = ScanBlock(f[i].w, blocks[i + 1])
      BY <3>2 DEF ReadOn
    <3> QED BY <3>3, <3>4, ScanBlockKeeps
  <2> HIDE DEF Good
  <2> QED BY <2>1
<1>4. N \in S
  <2> HIDE DEF S
  <2> QED BY <1>0, <1>2, <1>3, SetInd
<1>5. Good(N)
  <2> HIDE DEF Good
  <2> QED BY <1>0, <1>4
<1> QED BY <1>1, <1>5

------------------------------------------------------------------------------
\* The outputs unspent on a chain are read for its blocks (scan_unspent).
LEMMA ScanUnspentKeeps ==
    ASSUME UnsetIsNothing, NEW w, NEW n \in Nat, Holds(w, n, FALSE), NEW at \in Nat, w.scanned <= at
    PROVE  Holds(ScanUnspent(w, at), n, TRUE) /\ ScanUnspent(w, at).scanned = at
<1> DEFINE live == Unspent(nodeChain)
           new == {[coin |-> c, height |-> MinedAt(c)] : c \in live}
           gone(s) == s.height = Unset /\ s.failed = Unset /\ s.inputs \cap live = {}
<1> HIDE DEF live
<1>1. PICK u : u = WithCoins(w, new)
  OBVIOUS
<1>2. Holds(u, n, FALSE) /\ u.scanned = w.scanned /\ u.birth = w.birth
  <2>1. OnceEach(new)
    BY DEF OnceEach
  <2>2. Holds(u, n, FALSE)
    BY <2>1, <1>1, WithCoinsKeeps
  <2>3. IsWallet(w)
    BY DEF Holds
  <2> HIDE DEF new
  <2>4. u = [scanned |-> w.scanned, recent |-> w.recent, coins |-> u.coins, sent |-> w.sent,
             birth |-> w.birth]
    BY <2>3, <1>1, WithCoinsIs
  <2>5. u.scanned = w.scanned /\ u.birth = w.birth
    BY <2>4
  <2> QED BY <2>2, <2>5
<1>3. IsWallet(u) /\ DOMAIN u.sent = 1..Len(u.sent) /\ Len(u.sent) \in Nat
  BY <1>2, PlacesAre DEF Holds
<1> DEFINE spent == {IF c.spent = Unset /\ c.coin \notin live
                     THEN [c EXCEPT !.spent = at, !.pending = Unset] ELSE c : c \in u.coins}
           then(s) == IF gone(s) THEN [s EXCEPT !.height = at, !.kept = FALSE] ELSE s
           paid == [i \in DOMAIN u.sent |-> then(u.sent[i])]
<1>4. PICK v : v = ScanUnspent(w, at)
  OBVIOUS
<1>5. v = [scanned |-> at, recent |-> <<>>, coins |-> spent, sent |-> paid, birth |-> u.birth]
  <2>1. v = [u EXCEPT !.coins = spent, !.sent = paid, !.scanned = at, !.recent = <<>>]
    BY <1>1, <1>4 DEF ScanUnspent, live
  <2>2. PICK a, b, r : a = spent /\ b = paid /\ r = <<>>
    OBVIOUS
  <2>3. v = [u EXCEPT !.coins = a, !.sent = b, !.scanned = at, !.recent = r]
    BY <2>1, <2>2
  <2> HIDE DEF spent, paid
  <2>4. PICK x : x = [u EXCEPT !.coins = a]
    OBVIOUS
  <2>5. PICK y : y = [x EXCEPT !.sent = b]
    OBVIOUS
  <2>6. PICK z : z = [y EXCEPT !.scanned = at]
    OBVIOUS
  <2>7. v = [z EXCEPT !.recent = r]
    BY ONLY <2>3, <2>4, <2>5, <2>6
  <2>8. u = [scanned |-> u.scanned, recent |-> u.recent, coins |-> u.coins, sent |-> u.sent,
             birth |-> u.birth]
    BY <1>3 DEF IsWallet
  <2>9. x = [scanned |-> u.scanned, recent |-> u.recent, coins |-> a, sent |-> u.sent, birth |-> u.birth]
    BY ONLY <2>8, <2>4
  <2>10. y = [scanned |-> u.scanned, recent |-> u.recent, coins |-> a, sent |-> b, birth |-> u.birth]
    BY ONLY <2>9, <2>5
  <2>11. z = [scanned |-> at, recent |-> u.recent, coins |-> a, sent |-> b, birth |-> u.birth]
    BY ONLY <2>10, <2>6
  <2>12. v = [scanned |-> at, recent |-> r, coins |-> a, sent |-> b, birth |-> u.birth]
    BY ONLY <2>11, <2>7
  <2> QED BY <2>2, <2>12
<1>6. PICK taken : taken = HeldCoins(u) \ live
  OBVIOUS
<1>7. spent = {SpentAt(c, taken, at) : c \in u.coins}
  <2>1. \A c \in u.coins : c.coin \in taken <=> c.coin \notin live
    BY <1>6 DEF HeldCoins
  <2> QED BY <2>1 DEF SpentAt
<1>8. ASSUME NEW i \in DOMAIN u.sent
      PROVE  SettledThen(paid[i], u.sent[i], at)
  <2>1. PICK s : s = u.sent[i]
    OBVIOUS
  <2>2. paid[i] = then(s) /\ IsPayment(s)
    BY <1>3, <2>1 DEF IsWallet
  <2>3. s = [id |-> s.id, inputs |-> s.inputs, kept |-> s.kept, height |-> s.height,
             failed |-> s.failed, cancelled |-> s.cancelled]
    BY <2>2 DEF IsPayment
  <2>4. PICK f, x : f = FALSE /\ x = [s EXCEPT !.height = at]
    OBVIOUS
  <2>5. x = [id |-> s.id, inputs |-> s.inputs, kept |-> s.kept, height |-> at,
             failed |-> s.failed, cancelled |-> s.cancelled]
    BY ONLY <2>3, <2>4
  <2>6. [x EXCEPT !.kept = f] =
        [id |-> s.id, inputs |-> s.inputs, kept |-> f, height |-> at,
         failed |-> s.failed, cancelled |-> s.cancelled]
    BY ONLY <2>5
  <2>7. [s EXCEPT !.height = at, !.kept = FALSE] = [x EXCEPT !.kept = f]
    BY ONLY <2>4
  <2>8. CASE gone(s)
    <3>1. PICK t : t = [x EXCEPT !.kept = f]
      OBVIOUS
    <3>2. paid[i] = t /\ s.height = Unset
      BY <2>2, <2>7, <2>8, <3>1
    <3>3. /\ t.id = s.id /\ t.inputs = s.inputs /\ t.cancelled = s.cancelled /\ t.height = at
          /\ t.failed = s.failed
          /\ t = [id |-> t.id, inputs |-> t.inputs, kept |-> t.kept, height |-> t.height,
                  failed |-> t.failed, cancelled |-> t.cancelled]
      BY ONLY <2>6, <3>1
    <3>4. IsPayment(t)
      BY ONLY <2>2, <3>3, at \in Nat DEF IsPayment, IsHeight
    <3> QED BY <2>1, <3>2, <3>3, <3>4 DEF SettledThen
  <2>9. CASE ~gone(s)
    BY <2>1, <2>2, <2>9 DEF SettledThen
  <2> QED BY <2>8, <2>9
<1>9. Marks(v, u, taken, at)
  <2>1. v.sent = paid /\ v.scanned = at /\ v.coins = spent /\ v.birth = u.birth /\ v.recent = <<>>
    BY <1>5
  <2>2. IsList(paid) /\ DOMAIN paid = DOMAIN u.sent
    <3>1. PICK k : k = Len(u.sent)
      OBVIOUS
    <3>2. k \in Nat /\ paid = [i \in 1..k |-> then(u.sent[i])] /\ DOMAIN u.sent = 1..k
      BY <1>3, <3>1
    <3> HIDE DEF then, paid
    <3>3. Len(paid) = k /\ DOMAIN paid = 1..k
      BY <3>2
    <3>4. paid = [i \in 1..k |-> paid[i]]
      BY <3>2
    <3> QED BY <3>2, <3>3, <3>4 DEF IsList
  <2> HIDE DEF paid, spent
  <2> QED BY <1>5, <1>7, <1>8, <2>1, <2>2 DEF Marks
<1>10. Holds(v, n, TRUE)
  <2> HIDE DEF new
  <2> QED BY <1>2, <1>9, MarksKeep
<1>11. v.scanned = at
  <2> HIDE DEF spent, paid
  <2> QED BY <1>5
<1> HIDE DEF new, spent, paid
<1> QED BY <1>4, <1>10, <1>11

------------------------------------------------------------------------------
(* Payments whose coins are gone fail, and give back those that are not
   (settle_orphans). *)
LEMMA SettleKeeps ==
    ASSUME UnsetIsNothing, NEW w, NEW n \in Nat, NEW restored \in BOOLEAN, Holds(w, n, restored)
    PROVE  Holds(SettleOrphans(w), n, FALSE) /\ SettleOrphans(w).scanned = w.scanned
<1> DEFINE unspent == {c.coin : c \in {d \in w.coins : d.spent = Unset}}
           orphaned(s) == IsPending(s) /\ ~(s.inputs \subseteq unspent)
           ids == {w.sent[i].id : i \in {j \in DOMAIN w.sent : orphaned(w.sent[j])}}
           last == Max({0, w.scanned - 1})
           failed(s) == IF orphaned(s) THEN [s EXCEPT !.failed = last] ELSE s
           released(c) == IF c.pending \in ids THEN [c EXCEPT !.pending = Unset] ELSE c
           sent == [i \in DOMAIN w.sent |-> failed(w.sent[i])]
           coins == {released(c) : c \in w.coins}
<1>1. PICK v : v = SettleOrphans(w)
  OBVIOUS
<1>2. IsWallet(w) /\ DOMAIN w.sent = 1..Len(w.sent) /\ Len(w.sent) \in Nat /\ w.scanned \in Nat
  BY PlacesAre DEF Holds, IsWallet
<1>3. last \in Nat /\ last <= w.scanned /\ last # Unset
  <2>1. last = IF w.scanned - 1 <= 0 THEN 0 ELSE w.scanned - 1
    BY <1>2, GreatestOfTwo
  <2> QED BY <2>1, <1>2 DEF UnsetIsNothing
<1> HIDE DEF last
<1>4. v = [scanned |-> w.scanned, recent |-> w.recent, coins |-> coins, sent |-> sent, birth |-> w.birth]
  <2>1. v = [w EXCEPT !.sent = sent, !.coins = coins]
    BY <1>1 DEF SettleOrphans, last
  <2> HIDE DEF sent, coins
  <2>2. PICK a, b, x : a = sent /\ b = coins /\ x = [w EXCEPT !.sent = a]
    OBVIOUS
  <2>3. w = [scanned |-> w.scanned, recent |-> w.recent, coins |-> w.coins, sent |-> w.sent,
             birth |-> w.birth]
    BY <1>2 DEF IsWallet
  <2>4. x = [scanned |-> w.scanned, recent |-> w.recent, coins |-> w.coins, sent |-> a,
             birth |-> w.birth]
    BY ONLY <2>2, <2>3
  <2>5. v = [x EXCEPT !.coins = b]
    BY ONLY <2>1, <2>2
  <2>6. v = [scanned |-> w.scanned, recent |-> w.recent, coins |-> b, sent |-> a, birth |-> w.birth]
    BY ONLY <2>4, <2>5
  <2> QED BY <2>2, <2>6
<1>5. ASSUME NEW i \in DOMAIN w.sent
      PROVE  /\ IsPayment(w.sent[i])
             /\ ~orphaned(w.sent[i]) => sent[i] = w.sent[i]
             /\ orphaned(w.sent[i]) =>
                  /\ IsPayment(sent[i]) /\ sent[i].id = w.sent[i].id /\ sent[i].inputs = w.sent[i].inputs
                  /\ sent[i].cancelled = w.sent[i].cancelled
                  /\ sent[i].height = w.sent[i].height /\ sent[i].failed = last
  <2>1. PICK s : s = w.sent[i]
    OBVIOUS
  <2>2. sent[i] = failed(s) /\ IsPayment(s)
    BY <1>2, <2>1 DEF IsWallet
  <2>3. s = [id |-> s.id, inputs |-> s.inputs, kept |-> s.kept, height |-> s.height,
             failed |-> s.failed, cancelled |-> s.cancelled]
    BY <2>2 DEF IsPayment
  <2>4. PICK t : t = [s EXCEPT !.failed = last]
    OBVIOUS
  <2>5. t = [id |-> s.id, inputs |-> s.inputs, kept |-> s.kept, height |-> s.height,
             failed |-> last, cancelled |-> s.cancelled]
    BY ONLY <2>3, <2>4
  <2>6. /\ IsPayment(t) /\ t.id = s.id /\ t.inputs = s.inputs /\ t.cancelled = s.cancelled
        /\ t.height = s.height /\ t.failed = last
    BY <1>3, <2>2, <2>5 DEF IsPayment, IsHeight
  <2> HIDE DEF orphaned
  <2> QED BY <2>1, <2>2, <2>4, <2>6
<1>6. ASSUME NEW x \in coins
      PROVE  \E c \in w.coins : x = released(c) /\ IsCoin(c)
  BY <1>2 DEF IsWallet
<1>7. ASSUME NEW c, IsCoin(c)
      PROVE  LET x == released(c)
             IN  /\ IsCoin(x) /\ x.coin = c.coin /\ x.spent = c.spent
                 /\ x.pending = IF c.pending \in ids THEN Unset ELSE c.pending
  <2> HIDE DEF ids
  <2>1. c = [coin |-> c.coin, height |-> c.height, spent |-> c.spent, pending |-> c.pending]
    BY <1>7 DEF IsCoin
  <2>2. [c EXCEPT !.pending = Unset] =
        [coin |-> c.coin, height |-> c.height, spent |-> c.spent, pending |-> Unset]
    BY ONLY <2>1
  <2>3. CASE c.pending \in ids
    BY <2>2, <2>3, <1>7 DEF IsCoin
  <2>4. CASE c.pending \notin ids
    BY <2>4, <1>7
  <2> QED BY <2>3, <2>4
<1>8. \A i \in DOMAIN w.sent : IsPending(w.sent[i]) <=>
          w.sent[i].height = Unset /\ w.sent[i].failed = Unset /\ ~w.sent[i].cancelled
  BY DEF IsPending
<1>9. DOMAIN sent = DOMAIN w.sent /\ IsList(sent)
  <2>1. PICK k : k = Len(w.sent)
    OBVIOUS
  <2>2. k \in Nat /\ sent = [i \in 1..k |-> failed(w.sent[i])] /\ DOMAIN w.sent = 1..k
    BY <1>2, <2>1
  <2> HIDE DEF failed, sent
  <2>3. Len(sent) = k /\ DOMAIN sent = 1..k /\ sent = [i \in 1..k |-> sent[i]]
    BY <2>2
  <2> QED BY <2>2, <2>3 DEF IsList
<1>10. v.scanned = w.scanned /\ v.birth = w.birth /\ v.coins = coins /\ v.sent = sent
       /\ v.recent = w.recent
  <2> HIDE DEF sent, coins
  <2> QED BY <1>4
\* An orphan's coins are released, whichever of them are left.
<1>11. ASSUME NEW i \in DOMAIN w.sent, w.sent[i].id \in ids PROVE orphaned(w.sent[i])
  <2>1. PICK j \in DOMAIN w.sent : orphaned(w.sent[j]) /\ w.sent[j].id = w.sent[i].id
    BY <1>11
  <2>2. i = j
    BY <2>1 DEF Holds, OwnNumber
  <2> QED BY <2>1, <2>2
<1>12. ASSUME NEW c \in w.coins, c.spent # Unset, NEW i \in DOMAIN w.sent,
              c.coin \in w.sent[i].inputs, IsPending(w.sent[i])
       PROVE  orphaned(w.sent[i])
  <2>1. c.coin \notin unspent
    BY <1>12 DEF Holds, OneRecord
  <2> QED BY <2>1, <1>12
<1> HIDE DEF orphaned, failed, sent, coins, released, ids, unspent
<1>13. SamePayments(v, w)
  BY <1>5, <1>9, <1>10 DEF SamePayments
<1>14. IsWallet(v)
  <2>1. \A x \in coins : IsCoin(x)
    BY <1>6, <1>7
  <2>2. \A i \in DOMAIN sent : IsPayment(sent[i])
    BY <1>5, <1>9
  <2> QED BY <2>1, <2>2, <1>2, <1>4, <1>9, <1>10 DEF IsWallet
<1>15. OneRecord(v)
  <2>1. ASSUME NEW x \in coins, NEW y \in coins, x.coin = y.coin PROVE x = y
    <3>1. PICK c \in w.coins : x = released(c) /\ IsCoin(c)
      BY <1>6
    <3>2. PICK d \in w.coins : y = released(d) /\ IsCoin(d)
      BY <1>6
    <3>3. c = d
      BY <2>1, <3>1, <3>2, <1>7 DEF Holds, OneRecord
    <3> QED BY <3>1, <3>2, <3>3
  <2> QED BY <2>1, <1>10 DEF OneRecord
<1>16. OwnNumber(v, n)
  BY <1>13, NumbersStay DEF Holds
<1>17. SettledInTime(v)
  <2>1. \A i \in DOMAIN w.sent :
          /\ sent[i].height # Unset => sent[i].height <= w.scanned
          /\ sent[i].failed # Unset => sent[i].failed <= w.scanned
    BY <1>3, <1>5 DEF Holds, SettledInTime
  <2> QED BY <2>1, <1>9, <1>10 DEF SettledInTime
<1>18. ReservedForOne(v)
  <2>1. ASSUME NEW x \in coins, x.pending # Unset
        PROVE  \E i \in DOMAIN w.sent : w.sent[i].id = x.pending /\ x.coin \in w.sent[i].inputs
    <3>1. PICK c \in w.coins : x = released(c) /\ IsCoin(c)
      BY <1>6
    <3>2. x.pending = c.pending /\ x.coin = c.coin
      BY <2>1, <3>1, <1>7
    <3> QED BY <2>1, <3>2 DEF Holds, ReservedForOne
  <2> QED BY <2>1, <1>10, <1>13 DEF ReservedForOne, SamePayments
<1>19. SpentIsSettled(v, FALSE)
  <2>1. ASSUME NEW x \in coins, NEW i \in DOMAIN w.sent, x.spent # Unset,
               x.coin \in w.sent[i].inputs, ~w.sent[i].cancelled
        PROVE  SettledBy(sent[i], x.spent)
    <3>1. PICK c \in w.coins : x = released(c) /\ IsCoin(c)
      BY <1>6
    <3>2. c.spent = x.spent /\ c.coin = x.coin
      BY <3>1, <1>7
    <3>3. SettledBy(w.sent[i], x.spent) \/ x.spent = w.scanned
      BY <2>1, <3>2 DEF Holds, SpentIsSettled
    <3>4. CASE IsPending(w.sent[i])
      <4>1. x.spent = w.scanned
        BY <3>3, <3>4 DEF SettledBy, IsPending
      <4>2. orphaned(w.sent[i])
        BY <2>1, <3>2, <3>4, <1>12
      <4> QED BY <4>1, <4>2, <1>3, <1>5 DEF SettledBy
    <3>5. CASE ~IsPending(w.sent[i])
      <4>1. ~orphaned(w.sent[i])
        BY <3>5 DEF orphaned
      <4>2. SettledBy(w.sent[i], x.spent)
        BY <3>3, <3>5, <2>1 DEF Holds, SettledInTime, SettledBy, IsPending
      <4> QED BY <4>1, <4>2, <1>5
    <3> QED BY <3>4, <3>5
  <2>2. \A i \in DOMAIN w.sent : sent[i].inputs = w.sent[i].inputs /\ sent[i].cancelled = w.sent[i].cancelled
    BY <1>5
  <2> QED BY <2>1, <2>2, <1>9, <1>10 DEF SpentIsSettled
<1>20. WaitingHold(v)
  <2>1. ASSUME NEW i \in DOMAIN w.sent, NEW coin \in w.sent[i].inputs, IsPending(sent[i]),
               Alone(w, i, coin), coin \in Free(v)
        PROVE  FALSE
    <3>1. PICK x \in coins : x.coin = coin /\ x.spent = Unset /\ x.pending = Unset
      BY <2>1, <1>10 DEF Free
    <3>2. PICK c \in w.coins : x = released(c) /\ IsCoin(c)
      BY <1>6
    <3>3. c.coin = coin /\ c.spent = Unset /\ (c.pending = Unset \/ c.pending \in ids)
      BY <3>1, <3>2, <1>7
    <3>4. ~orphaned(w.sent[i])
      BY <2>1, <1>3, <1>5 DEF IsPending
    <3>5. IsPending(w.sent[i])
      BY <2>1, <3>4, <1>5
    <3>6. CASE c.pending = Unset
      <4>1. coin \in Free(w)
        BY <3>3, <3>6 DEF Free
      <4> QED BY <2>1, <3>5, <4>1 DEF Holds, WaitingHold
    <3>7. CASE c.pending # Unset
      <4>1. w.sent[i].id = c.pending
        BY <2>1, <3>3, <3>7, ReservedForIt DEF Holds
      <4> QED BY <3>3, <3>4, <3>7, <4>1, <1>11
    <3> QED BY <3>6, <3>7
  <2>2. ASSUME NEW i \in DOMAIN v.sent, NEW coin \in v.sent[i].inputs, IsPending(v.sent[i]),
               Alone(v, i, coin)
        PROVE  i \in DOMAIN w.sent /\ coin \in w.sent[i].inputs /\ IsPending(sent[i]) /\ Alone(w, i, coin)
    BY <2>2, <1>10, <1>13, AloneStays DEF SamePayments
  <2> QED BY <2>1, <2>2 DEF WaitingHold
<1>21. Holds(v, n, FALSE)
  BY <1>14, <1>15, <1>16, <1>17, <1>18, <1>19, <1>20 DEF Holds
<1> QED BY <1>1, <1>10, <1>21

------------------------------------------------------------------------------
\* A cancelled payment gives its coins back (cancel_pending).
LEMMA CancelKeeps ==
    ASSUME UnsetIsNothing, NEW w, NEW n \in Nat, Holds(w, n, FALSE), NEW p \in Nat
    PROVE  Holds(Cancelled(w, p), n, FALSE)
<1> DEFINE dropped(s) == IF s.id = p /\ IsPending(s) THEN [s EXCEPT !.cancelled = TRUE, !.kept = FALSE] ELSE s
           released(c) == IF c.pending = p THEN [c EXCEPT !.pending = Unset] ELSE c
           sent == [i \in DOMAIN w.sent |-> dropped(w.sent[i])]
           coins == {released(c) : c \in w.coins}
<1>1. PICK v : v = Cancelled(w, p)
  OBVIOUS
<1>2. IsWallet(w) /\ DOMAIN w.sent = 1..Len(w.sent) /\ Len(w.sent) \in Nat /\ w.scanned \in Nat
  BY PlacesAre DEF Holds, IsWallet
<1>3. p # Unset
  BY DEF UnsetIsNothing
<1>4. v = [scanned |-> w.scanned, recent |-> w.recent, coins |-> coins, sent |-> sent, birth |-> w.birth]
  <2>1. v = [w EXCEPT !.sent = sent, !.coins = coins]
    BY <1>1 DEF Cancelled
  <2> HIDE DEF sent, coins
  <2>2. PICK a, b, x : a = sent /\ b = coins /\ x = [w EXCEPT !.sent = a]
    OBVIOUS
  <2>3. w = [scanned |-> w.scanned, recent |-> w.recent, coins |-> w.coins, sent |-> w.sent,
             birth |-> w.birth]
    BY <1>2 DEF IsWallet
  <2>4. x = [scanned |-> w.scanned, recent |-> w.recent, coins |-> w.coins, sent |-> a,
             birth |-> w.birth]
    BY ONLY <2>2, <2>3
  <2>5. v = [x EXCEPT !.coins = b]
    BY ONLY <2>1, <2>2
  <2>6. v = [scanned |-> w.scanned, recent |-> w.recent, coins |-> b, sent |-> a, birth |-> w.birth]
    BY ONLY <2>4, <2>5
  <2> QED BY <2>2, <2>6
<1>5. ASSUME NEW i \in DOMAIN w.sent
      PROVE  /\ IsPayment(w.sent[i]) /\ IsPayment(sent[i])
             /\ sent[i].id = w.sent[i].id /\ sent[i].inputs = w.sent[i].inputs
             /\ sent[i].height = w.sent[i].height /\ sent[i].failed = w.sent[i].failed
             /\ w.sent[i].cancelled => sent[i].cancelled
             /\ w.sent[i].id = p /\ IsPending(w.sent[i]) => sent[i].cancelled
             /\ ~(w.sent[i].id = p /\ IsPending(w.sent[i])) => sent[i] = w.sent[i]
  <2>1. PICK s : s = w.sent[i]
    OBVIOUS
  <2>2. sent[i] = dropped(s) /\ IsPayment(s)
    BY <1>2, <2>1 DEF IsWallet
  <2>3. s = [id |-> s.id, inputs |-> s.inputs, kept |-> s.kept, height |-> s.height,
             failed |-> s.failed, cancelled |-> s.cancelled]
    BY <2>2 DEF IsPayment
  <2>4. PICK f, g, x, t : f = FALSE /\ g = TRUE /\ x = [s EXCEPT !.cancelled = g] /\ t = [x EXCEPT !.kept = f]
    OBVIOUS
  <2>5. x = [id |-> s.id, inputs |-> s.inputs, kept |-> s.kept, height |-> s.height,
             failed |-> s.failed, cancelled |-> g]
    BY ONLY <2>3, <2>4
  <2>6. t = [id |-> s.id, inputs |-> s.inputs, kept |-> f, height |-> s.height,
             failed |-> s.failed, cancelled |-> g]
    BY ONLY <2>4, <2>5
  <2>7. /\ t.id = s.id /\ t.inputs = s.inputs /\ t.height = s.height /\ t.failed = s.failed
        /\ t.cancelled = g
        /\ t = [id |-> t.id, inputs |-> t.inputs, kept |-> t.kept, height |-> t.height,
                failed |-> t.failed, cancelled |-> t.cancelled]
    BY ONLY <2>6
  <2>8. g \in BOOLEAN /\ g
    BY <2>4
  <2>9. IsPayment(t)
    BY ONLY <2>2, <2>7, <2>8 DEF IsPayment
  <2>10. [s EXCEPT !.cancelled = TRUE, !.kept = FALSE] = t
    BY ONLY <2>4
  <2>11. CASE s.id = p /\ IsPending(s)
    <3>1. sent[i] = t
      BY <2>2, <2>10, <2>11
    <3>2. t.cancelled
      BY <2>7, <2>8
    <3> QED BY <2>1, <2>2, <2>7, <2>9, <2>11, <3>1, <3>2
  <2>12. CASE ~(s.id = p /\ IsPending(s))
    BY <2>1, <2>2, <2>12
  <2> QED BY <2>11, <2>12
<1>6. ASSUME NEW x \in coins
      PROVE  \E c \in w.coins : x = released(c) /\ IsCoin(c)
  BY <1>2 DEF IsWallet
<1>7. ASSUME NEW c, IsCoin(c)
      PROVE  LET x == released(c)
             IN  /\ IsCoin(x) /\ x.coin = c.coin /\ x.spent = c.spent
                 /\ x.pending = IF c.pending = p THEN Unset ELSE c.pending
  <2>1. c = [coin |-> c.coin, height |-> c.height, spent |-> c.spent, pending |-> c.pending]
    BY <1>7 DEF IsCoin
  <2>2. [c EXCEPT !.pending = Unset] =
        [coin |-> c.coin, height |-> c.height, spent |-> c.spent, pending |-> Unset]
    BY ONLY <2>1
  <2>3. CASE c.pending = p
    BY <2>2, <2>3, <1>7 DEF IsCoin
  <2>4. CASE c.pending # p
    BY <2>4, <1>7
  <2> QED BY <2>3, <2>4
<1>8. DOMAIN sent = DOMAIN w.sent /\ IsList(sent)
  <2>1. PICK k : k = Len(w.sent)
    OBVIOUS
  <2>2. k \in Nat /\ sent = [i \in 1..k |-> dropped(w.sent[i])] /\ DOMAIN w.sent = 1..k
    BY <1>2, <2>1
  <2> HIDE DEF dropped, sent
  <2>3. Len(sent) = k /\ DOMAIN sent = 1..k /\ sent = [i \in 1..k |-> sent[i]]
    BY <2>2
  <2> QED BY <2>2, <2>3 DEF IsList
<1>9. v.scanned = w.scanned /\ v.birth = w.birth /\ v.coins = coins /\ v.sent = sent
      /\ v.recent = w.recent
  <2> HIDE DEF sent, coins
  <2> QED BY <1>4
<1> HIDE DEF dropped, sent, coins, released
<1>10. SamePayments(v, w)
  BY <1>5, <1>8, <1>9 DEF SamePayments
<1>11. IsWallet(v)
  <2>1. \A x \in coins : IsCoin(x)
    BY <1>6, <1>7
  <2>2. \A i \in DOMAIN sent : IsPayment(sent[i])
    BY <1>5, <1>8
  <2> QED BY <2>1, <2>2, <1>2, <1>4, <1>8, <1>9 DEF IsWallet
<1>12. OneRecord(v)
  <2>1. ASSUME NEW x \in coins, NEW y \in coins, x.coin = y.coin PROVE x = y
    <3>1. PICK c \in w.coins : x = released(c) /\ IsCoin(c)
      BY <1>6
    <3>2. PICK d \in w.coins : y = released(d) /\ IsCoin(d)
      BY <1>6
    <3>3. c = d
      BY <2>1, <3>1, <3>2, <1>7 DEF Holds, OneRecord
    <3> QED BY <3>1, <3>2, <3>3
  <2> QED BY <2>1, <1>9 DEF OneRecord
<1>13. OwnNumber(v, n)
  BY <1>10, NumbersStay DEF Holds
<1>14. SettledInTime(v)
  BY <1>5, <1>8, <1>9 DEF Holds, SettledInTime
<1>15. ReservedForOne(v)
  <2>1. ASSUME NEW x \in coins, x.pending # Unset
        PROVE  \E i \in DOMAIN w.sent : w.sent[i].id = x.pending /\ x.coin \in w.sent[i].inputs
    <3>1. PICK c \in w.coins : x = released(c) /\ IsCoin(c)
      BY <1>6
    <3>2. x.pending = c.pending /\ x.coin = c.coin
      BY <2>1, <3>1, <1>7
    <3> QED BY <2>1, <3>2 DEF Holds, ReservedForOne
  <2> QED BY <2>1, <1>9, <1>10 DEF ReservedForOne, SamePayments
<1>16. SpentIsSettled(v, FALSE)
  <2>1. ASSUME NEW x \in coins, NEW i \in DOMAIN w.sent, x.spent # Unset,
               x.coin \in w.sent[i].inputs, ~sent[i].cancelled
        PROVE  SettledBy(sent[i], x.spent)
    <3>1. PICK c \in w.coins : x = released(c) /\ IsCoin(c)
      BY <1>6
    <3>2. c.spent = x.spent /\ c.coin = x.coin /\ ~w.sent[i].cancelled
      BY <2>1, <3>1, <1>5, <1>7
    <3>3. SettledBy(w.sent[i], x.spent)
      BY <2>1, <3>2 DEF Holds, SpentIsSettled
    <3> QED BY <3>3, <1>5 DEF SettledBy
  <2>2. \A i \in DOMAIN w.sent : sent[i].inputs = w.sent[i].inputs
    BY <1>5
  <2> QED BY <2>1, <2>2, <1>8, <1>9 DEF SpentIsSettled
<1>17. WaitingHold(v)
  <2>1. ASSUME NEW i \in DOMAIN w.sent, NEW coin \in w.sent[i].inputs, IsPending(sent[i]),
               Alone(w, i, coin), coin \in Free(v)
        PROVE  FALSE
    <3>1. PICK x \in coins : x.coin = coin /\ x.spent = Unset /\ x.pending = Unset
      BY <2>1, <1>9 DEF Free
    <3>2. PICK c \in w.coins : x = released(c) /\ IsCoin(c)
      BY <1>6
    <3>3. c.coin = coin /\ c.spent = Unset /\ (c.pending = Unset \/ c.pending = p)
      BY <3>1, <3>2, <1>7
    <3>4. IsPending(w.sent[i]) /\ w.sent[i].id # p
      BY <2>1, <1>5 DEF IsPending
    <3>5. c.pending # p
      BY <2>1, <3>3, <3>4, <1>3, ReservedForIt DEF Holds
    <3>6. coin \in Free(w)
      BY <3>3, <3>5 DEF Free
    <3> QED BY <2>1, <3>4, <3>6 DEF Holds, WaitingHold
  <2>2. ASSUME NEW i \in DOMAIN v.sent, NEW coin \in v.sent[i].inputs, IsPending(v.sent[i]),
               Alone(v, i, coin)
        PROVE  i \in DOMAIN w.sent /\ coin \in w.sent[i].inputs /\ IsPending(sent[i]) /\ Alone(w, i, coin)
    BY <2>2, <1>9, <1>10, AloneStays DEF SamePayments
  <2> QED BY <2>1, <2>2 DEF WaitingHold
<1>18. Holds(v, n, FALSE)
  BY <1>11, <1>12, <1>13, <1>14, <1>15, <1>16, <1>17 DEF Holds
<1> QED BY <1>1, <1>18

------------------------------------------------------------------------------
LEMMA AppendIs ==
    ASSUME NEW q, IsList(q), NEW x
    PROVE  /\ IsList(Append(q, x)) /\ Len(Append(q, x)) = Len(q) + 1 /\ Append(q, x)[Len(q) + 1] = x
           /\ \A i \in 1..Len(q) : Append(q, x)[i] = q[i]
<1>1. PICK S : q \in Seq(S) /\ x \in S
  <2>1. q \in Seq({q[i] : i \in 1..Len(q)} \cup {x})
    BY DEF IsList
  <2> QED BY <2>1
<1>2. PICK all : all = Append(q, x)
  OBVIOUS
<1>3. /\ all \in Seq(S) /\ Len(all) = Len(q) + 1 /\ all[Len(q) + 1] = x
      /\ \A i \in 1..Len(q) : all[i] = q[i]
  BY <1>1, <1>2
<1>4. IsList(all)
  BY <1>3 DEF IsList
<1> QED BY <1>2, <1>3, <1>4

LEMMA PartIs ==
    ASSUME NEW q, NEW a \in Int, NEW b \in Int
    PROVE  IsList(SubSeq(q, a, b)) /\ Len(SubSeq(q, a, b)) = IF a <= b THEN b - a + 1 ELSE 0
<1>1. PICK S : S = {q[i] : i \in a..b}
  OBVIOUS
<1>2. \A i \in a..b : q[i] \in S
  BY <1>1
<1>3. PICK part : part = SubSeq(q, a, b)
  OBVIOUS
<1>4. part \in Seq(S) /\ Len(part) = IF a <= b THEN b - a + 1 ELSE 0
  BY <1>2, <1>3, SubSeqProperties
<1> QED BY <1>3, <1>4 DEF IsList

------------------------------------------------------------------------------
\* A payment is built on free coins, which are reserved for it (build_send).
BuiltOn(w, id, inputs) ==
    [w EXCEPT !.sent = Append(@, Sent(id, inputs)),
              !.coins = {IF c.coin \in inputs THEN [c EXCEPT !.pending = id] ELSE c : c \in @}]

LEMMA BuildKeeps ==
    ASSUME UnsetIsNothing, NEW w, NEW n \in Nat, Holds(w, n, FALSE), NEW inputs,
           inputs \subseteq Free(w)
    PROVE  Holds(BuiltOn(w, n + 1, inputs), n + 1, FALSE)
           /\ BuiltOn(w, n + 1, inputs).scanned = w.scanned
<1> DEFINE reserved(c) == IF c.coin \in inputs THEN [c EXCEPT !.pending = n + 1] ELSE c
           coins == {reserved(c) : c \in w.coins}
           new == Sent(n + 1, inputs)
           sent == Append(w.sent, new)
           k == Len(w.sent)
<1>1. PICK v : v = BuiltOn(w, n + 1, inputs)
  OBVIOUS
<1>2. IsWallet(w) /\ DOMAIN w.sent = 1..k /\ k \in Nat /\ w.scanned \in Nat /\ IsList(w.sent)
  BY PlacesAre DEF Holds, IsWallet
<1>3. v = [scanned |-> w.scanned, recent |-> w.recent, coins |-> coins, sent |-> sent, birth |-> w.birth]
  <2>1. v = [w EXCEPT !.sent = sent, !.coins = coins]
    BY <1>1 DEF BuiltOn
  <2> HIDE DEF sent, coins
  <2>2. PICK a, b, x : a = sent /\ b = coins /\ x = [w EXCEPT !.sent = a]
    OBVIOUS
  <2>3. w = [scanned |-> w.scanned, recent |-> w.recent, coins |-> w.coins, sent |-> w.sent,
             birth |-> w.birth]
    BY <1>2 DEF IsWallet
  <2>4. x = [scanned |-> w.scanned, recent |-> w.recent, coins |-> w.coins, sent |-> a,
             birth |-> w.birth]
    BY ONLY <2>2, <2>3
  <2>5. v = [x EXCEPT !.coins = b]
    BY ONLY <2>1, <2>2
  <2>6. v = [scanned |-> w.scanned, recent |-> w.recent, coins |-> b, sent |-> a, birth |-> w.birth]
    BY ONLY <2>4, <2>5
  <2> QED BY <2>2, <2>6
<1>4. /\ IsPayment(new) /\ new.id = n + 1 /\ new.inputs = inputs /\ new.height = Unset
      /\ new.failed = Unset /\ ~new.cancelled
  BY DEF Sent, IsPayment, IsHeight
<1> HIDE DEF new
<1>5. /\ IsList(sent) /\ DOMAIN sent = 1..(k + 1) /\ sent[k + 1] = new
      /\ \A i \in 1..k : sent[i] = w.sent[i] /\ IsPayment(w.sent[i])
  <2>1. IsList(sent) /\ Len(sent) = k + 1 /\ sent[k + 1] = new /\ \A i \in 1..k : sent[i] = w.sent[i]
    BY <1>2, AppendIs
  <2>2. DOMAIN sent = 1..(k + 1)
    <3> HIDE DEF sent
    <3> QED BY <2>1 DEF IsList
  <2> QED BY <2>1, <2>2, <1>2 DEF IsWallet
<1>6. ASSUME NEW x \in coins
      PROVE  \E c \in w.coins : x = reserved(c) /\ IsCoin(c)
  BY <1>2 DEF IsWallet
<1>7. ASSUME NEW c, IsCoin(c)
      PROVE  LET x == reserved(c)
             IN  /\ IsCoin(x) /\ x.coin = c.coin /\ x.spent = c.spent
                 /\ x.pending = IF c.coin \in inputs THEN n + 1 ELSE c.pending
  <2>1. c = [coin |-> c.coin, height |-> c.height, spent |-> c.spent, pending |-> c.pending]
    BY <1>7 DEF IsCoin
  <2>2. PICK id : id = n + 1
    OBVIOUS
  <2>3. [c EXCEPT !.pending = id] =
        [coin |-> c.coin, height |-> c.height, spent |-> c.spent, pending |-> id]
    BY ONLY <2>1
  <2>4. CASE c.coin \in inputs
    BY <2>2, <2>3, <2>4, <1>7 DEF IsCoin
  <2>5. CASE c.coin \notin inputs
    BY <2>5, <1>7
  <2> QED BY <2>4, <2>5
<1>8. v.scanned = w.scanned /\ v.birth = w.birth /\ v.coins = coins /\ v.sent = sent
      /\ v.recent = w.recent
  <2> HIDE DEF sent, coins
  <2> QED BY <1>3
\* What it is built on is not spent, and was not reserved.
<1>9. ASSUME NEW c \in w.coins, c.coin \in inputs PROVE c.spent = Unset /\ c.pending = Unset
  <2>1. PICK d \in w.coins : d.coin = c.coin /\ d.spent = Unset /\ d.pending = Unset
    BY <1>9 DEF Free
  <2> QED BY <2>1 DEF Holds, OneRecord
<1>10. /\ n + 1 # Unset /\ n + 1 \in Nat /\ k + 1 \in 1..(k + 1)
       /\ \A i \in 1..k : i \in 1..(k + 1) /\ i # k + 1
       /\ \A i \in 1..(k + 1) : i \in 1..k \/ i = k + 1
  <2> HIDE DEF k
  <2> QED BY <1>2 DEF UnsetIsNothing
<1> HIDE DEF sent, coins, reserved, k
<1>11. IsWallet(v)
  <2>1. \A x \in coins : IsCoin(x)
    BY <1>6, <1>7
  <2>2. \A i \in DOMAIN sent : IsPayment(sent[i])
    BY <1>4, <1>5, <1>10
  <2> QED BY <2>1, <2>2, <1>2, <1>3, <1>5, <1>8 DEF IsWallet
<1>12. OneRecord(v)
  <2>1. ASSUME NEW x \in coins, NEW y \in coins, x.coin = y.coin PROVE x = y
    <3>1. PICK c \in w.coins : x = reserved(c) /\ IsCoin(c)
      BY <1>6
    <3>2. PICK d \in w.coins : y = reserved(d) /\ IsCoin(d)
      BY <1>6
    <3>3. c = d
      BY <2>1, <3>1, <3>2, <1>7 DEF Holds, OneRecord
    <3> QED BY <3>1, <3>2, <3>3
  <2> QED BY <2>1, <1>8 DEF OneRecord
<1>13. OwnNumber(v, n + 1)
  <2>1. \A i \in 1..k : sent[i].id \in 1..n
    BY <1>2, <1>5 DEF Holds, OwnNumber
  <2>2. \A x \in 1..n : x \in 1..(n + 1) /\ x # n + 1
    OBVIOUS
  <2>3. \A i \in 1..(k + 1) : sent[i].id \in 1..(n + 1)
    BY <2>1, <2>2, <1>4, <1>5, <1>10
  <2>4. \A i, j \in 1..(k + 1) : sent[i].id = sent[j].id => i = j
    BY <2>1, <2>2, <1>2, <1>4, <1>5, <1>10 DEF Holds, OwnNumber
  <2> QED BY <2>3, <2>4, <1>5, <1>8 DEF OwnNumber
<1>14. SettledInTime(v)
  <2>1. \A i \in 1..k : /\ sent[i].height # Unset => sent[i].height <= w.scanned
                        /\ sent[i].failed # Unset => sent[i].failed <= w.scanned
    BY <1>2, <1>5 DEF Holds, SettledInTime
  <2> QED BY <2>1, <1>4, <1>5, <1>8, <1>10 DEF SettledInTime
<1>15. ReservedForOne(v)
  <2>1. ASSUME NEW x \in coins, x.pending # Unset
        PROVE  \E i \in 1..(k + 1) : sent[i].id = x.pending /\ x.coin \in sent[i].inputs
    <3>1. PICK c \in w.coins : x = reserved(c) /\ IsCoin(c)
      BY <1>6
    <3>2. CASE c.coin \in inputs
      <4>1. x.pending = n + 1 /\ x.coin \in inputs
        BY <3>1, <3>2, <1>7
      <4> QED BY <4>1, <1>4, <1>5, <1>10
    <3>3. CASE c.coin \notin inputs
      <4>1. x.pending = c.pending /\ x.coin = c.coin
        BY <3>1, <3>3, <1>7
      <4>2. PICK i \in 1..k : w.sent[i].id = c.pending /\ c.coin \in w.sent[i].inputs
        BY <2>1, <4>1, <1>2 DEF Holds, ReservedForOne
      <4> QED BY <4>1, <4>2, <1>5, <1>10
    <3> QED BY <3>2, <3>3
  <2> QED BY <2>1, <1>5, <1>8 DEF ReservedForOne
<1>16. SpentIsSettled(v, FALSE)
  <2>1. ASSUME NEW x \in coins, NEW i \in 1..(k + 1), x.spent # Unset,
               x.coin \in sent[i].inputs, ~sent[i].cancelled
        PROVE  SettledBy(sent[i], x.spent)
    <3>1. PICK c \in w.coins : x = reserved(c) /\ IsCoin(c)
      BY <1>6
    <3>2. c.spent = x.spent /\ c.coin = x.coin
      BY <3>1, <1>7
    <3>3. i \in 1..k
      <4>1. c.coin \notin inputs
        BY <2>1, <3>2, <1>9
      <4> QED BY <2>1, <3>2, <4>1, <1>4, <1>5, <1>10
    <3> QED BY <2>1, <3>2, <3>3, <1>2, <1>5 DEF Holds, SpentIsSettled
  <2> QED BY <2>1, <1>5, <1>8 DEF SpentIsSettled
<1>17. WaitingHold(v)
  <2>1. ASSUME NEW i \in 1..(k + 1), NEW coin \in sent[i].inputs, IsPending(sent[i]),
               Alone(v, i, coin), coin \in Free(v)
        PROVE  FALSE
    <3>1. PICK x \in coins : x.coin = coin /\ x.spent = Unset /\ x.pending = Unset
      BY <2>1, <1>8 DEF Free
    <3>2. PICK c \in w.coins : x = reserved(c) /\ IsCoin(c)
      BY <1>6
    <3>3. c.coin = coin /\ c.spent = Unset /\ c.pending = Unset /\ coin \notin inputs
      BY <3>1, <3>2, <1>7, <1>10
    <3>4. i \in 1..k
      BY <2>1, <3>3, <1>4, <1>5, <1>10
    <3>5. \A j \in 1..k : i # j => coin \notin w.sent[j].inputs
      BY <2>1, <1>5, <1>8, <1>10 DEF Alone
    <3>6. Alone(w, i, coin) /\ coin \in w.sent[i].inputs /\ IsPending(w.sent[i]) /\ i \in DOMAIN w.sent
      BY <2>1, <3>4, <3>5, <1>2, <1>5 DEF Alone
    <3>7. coin \in Free(w)
      BY <3>3 DEF Free
    <3> QED BY <3>6, <3>7 DEF Holds, WaitingHold
  <2> QED BY <2>1, <1>5, <1>8 DEF WaitingHold
<1>18. Holds(v, n + 1, FALSE)
  BY <1>11, <1>12, <1>13, <1>14, <1>15, <1>16, <1>17 DEF Holds
<1> QED BY <1>1, <1>8, <1>18

\* Other wallets have their payments' numbers to themselves as others are built.
LEMMA HigherKeeps ==
    ASSUME NEW w, NEW n \in Nat, NEW r, Holds(w, n, r)
    PROVE  Holds(w, n + 1, r)
<1>1. \A x \in 1..n : x \in 1..(n + 1)
  OBVIOUS
<1>2. OwnNumber(w, n + 1)
  BY <1>1 DEF Holds, OwnNumber
<1> QED BY <1>2 DEF Holds

\* A wallet that holds all that was settled holds it after a restore too.
LEMMA WeakerHolds ==
    ASSUME NEW w, NEW n, NEW restored, Holds(w, n, FALSE)
    PROVE  Holds(w, n, restored)
BY DEF Holds, SpentIsSettled

\* A new wallet holds nothing.
LEMMA FreshHolds ==
    ASSUME WalletAssumption, NEW n \in Nat, NEW restored
    PROVE  Holds(FreshWallet, n, restored) /\ FreshWallet.scanned \in Nat
<1>1. PICK w : w = FreshWallet
  OBVIOUS
<1>2. /\ w = [scanned |-> Birth, recent |-> <<>>, coins |-> {}, sent |-> <<>>, birth |-> Birth]
      /\ w.coins = {} /\ w.sent = <<>> /\ w.scanned = Birth /\ w.birth = Birth /\ w.recent = <<>>
      /\ Birth \in Nat
  BY <1>1 DEF FreshWallet, WalletAssumption
<1>3. IsList(w.sent) /\ DOMAIN w.sent = {}
  BY <1>2 DEF IsList
<1>4. IsWallet(w)
  BY <1>2, <1>3 DEF IsWallet
<1>5. Holds(w, n, restored)
  BY <1>2, <1>3, <1>4 DEF Holds, OneRecord, OwnNumber, SettledInTime, ReservedForOne,
                          SpentIsSettled, WaitingHold
<1> QED BY <1>1, <1>2, <1>5

\* A step back is a rollback to a height (step_back).
LEMMA SteppedBackKeeps ==
    ASSUME UnsetIsNothing, WalletAssumption, NEW w, NEW n \in Nat, Holds(w, n, FALSE)
    PROVE  Holds(SteppedBack(w), n, FALSE) /\ SteppedBack(w).scanned <= w.scanned
<1>1. w.birth \in Nat /\ w.scanned - Back \in Int
  BY DEF Holds, IsWallet, WalletAssumption
<1>2. PICK to : to = Max({w.birth, w.scanned - Back})
  OBVIOUS
<1>3. to \in Nat
  BY <1>1, <1>2, GreatestOfTwo
<1>4. PICK h : h = IF to > w.birth /\ RecordedHash(w, to - 1) = Unset THEN w.birth ELSE to
  OBVIOUS
<1>5. h \in Nat
  BY <1>1, <1>3, <1>4
<1>6. SteppedBack(w) = RollbackTo(w, h)
  BY <1>2, <1>4 DEF SteppedBack
<1> QED BY <1>5, <1>6, RollbackKeeps

\* A rescan is a rollback too, of a wallet born earlier (rescan).
LEMMA RescannedKeeps ==
    ASSUME UnsetIsNothing, NEW w, NEW n \in Nat, Holds(w, n, FALSE), NEW from \in Nat
    PROVE  Holds(Rescanned(w, from), n, FALSE)
<1>1. PICK u : u = RollbackTo(w, from)
  OBVIOUS
<1>2. Holds(u, n, FALSE)
  BY <1>1, RollbackKeeps
<1>3. PICK b : b = Min({u.birth, from})
  OBVIOUS
<1>4. b \in Nat
  BY <1>2, <1>3, LeastOfTwo DEF Holds, IsWallet
<1>5. PICK v : v = [u EXCEPT !.birth = b]
  OBVIOUS
<1>6. Rescanned(w, from) = v
  BY <1>1, <1>3, <1>5 DEF Rescanned
<1>7. u = [scanned |-> u.scanned, recent |-> u.recent, coins |-> u.coins, sent |-> u.sent,
           birth |-> u.birth]
  BY <1>2 DEF Holds, IsWallet
<1>8. v = [scanned |-> u.scanned, recent |-> u.recent, coins |-> u.coins, sent |-> u.sent,
           birth |-> b]
  BY ONLY <1>5, <1>7
<1>9. v.scanned = u.scanned /\ v.recent = u.recent /\ v.coins = u.coins /\ v.sent = u.sent
      /\ v.birth = b
  BY ONLY <1>8
<1>10. IsWallet(v)
  BY <1>2, <1>4, <1>8, <1>9 DEF Holds, IsWallet
<1>11. Free(v) = Free(u)
  BY <1>9 DEF Free
<1>12. Holds(v, n, FALSE)
  BY <1>2, <1>9, <1>10, <1>11 DEF Holds, OneRecord, OwnNumber, SettledInTime, ReservedForOne,
                                  SpentIsSettled, WaitingHold, Alone
<1> QED BY <1>6, <1>12

------------------------------------------------------------------------------
LEMMA InitHolds ==
    ASSUME UnsetIsNothing, WalletAssumption, WalletInit
    PROVE  WalletInv
<1>1. Len(nodeChain) = 1 /\ IsList(nodeChain) /\ nodeChain # <<>>
  BY DEF WalletInit, IsList
<1>2. Len(built) = 0 /\ IsList(built) /\ tip \in Nat
  BY DEF WalletInit, IsList
<1>3. Holds(file, Len(built), FALSE) /\ Holds(mem, Len(built), JustRestored)
  BY <1>2, FreshHolds DEF WalletInit
<1>4. phase \notin {"last", "restore"}
  BY DEF WalletInit
<1> QED BY <1>1, <1>2, <1>3, <1>4 DEF WalletInv

\* Only a scan and the save after it can find payments to settle after a restore.
LEMMA SettledElsewhere ==
    ASSUME WalletInv, phase \notin {"scan", "save"} \/ mem.scanned < tip
    PROVE  Holds(mem, Len(built), FALSE)
<1>1. mem.scanned \in Nat /\ tip \in Nat
  BY DEF WalletInv, Holds, IsWallet
<1>2. JustRestored = FALSE
  BY <1>1 DEF JustRestored
<1> QED BY <1>2 DEF WalletInv

\* What a step that leaves the chain, the payments built and the file leaves to show.
LEMMA CommandKeeps ==
    ASSUME WalletInv, UNCHANGED <<nodeChain, built>>, tip' \in Nat,
           Holds(file', Len(built), FALSE), Holds(mem', Len(built), JustRestored'),
           phase' \in {"last", "restore"} => mem'.scanned <= tip'
    PROVE  WalletInv'
BY DEF WalletInv

LEMMA IdleKeeps ==
    ASSUME WalletAssumption, WalletInv, UNCHANGED <<nodeChain, built>>, Idle,
           Holds(file', Len(built), FALSE)
    PROVE  WalletInv'
<1>1. Len(built) \in Nat
  BY DEF WalletInv, IsList
<1>2. mem' = FreshWallet /\ tip' = 0 /\ phase' = "idle"
  BY DEF Idle
<1>3. Holds(mem', Len(built), JustRestored')
  BY <1>1, <1>2, FreshHolds
<1> QED BY <1>2, <1>3, CommandKeeps

LEMMA ChainMovesKeeps ==
    ASSUME WalletInv, NEW k \in 0..(Len(nodeChain) - 1), NEW txs, ChainMoves(k, txs)
    PROVE  WalletInv'
<1>1. PICK kept, x : /\ kept = SubSeq(nodeChain, 1, Len(nodeChain) - k)
                     /\ nodeChain' = Append(kept, x)
  BY DEF ChainMoves
<1>2. Len(nodeChain) \in Nat
  BY DEF WalletInv, IsList
<1>3. IsList(kept)
  BY <1>1, <1>2, PartIs
<1>4. IsList(nodeChain') /\ Len(nodeChain') = Len(kept) + 1
  BY <1>1, <1>3, AppendIs
<1>5. nodeChain' # <<>>
  <2>1. Len(nodeChain') > 0
    BY <1>3, <1>4 DEF IsList
  <2>2. Len(<<>>) = 0
    OBVIOUS
  <2> QED BY <2>1, <2>2
<1>6. UNCHANGED <<built, file, mem, phase, tip>>
  BY DEF ChainMoves, commandVars
<1> QED BY <1>4, <1>5, <1>6 DEF WalletInv, JustRestored

LEMMA OpenKeeps ==
    ASSUME UnsetIsNothing, WalletInv, NEW name, Open(name)
    PROVE  WalletInv'
<1>1. Len(built) \in Nat /\ Holds(file, Len(built), FALSE) /\ file.scanned \in Nat
  BY DEF WalletInv, IsList, Holds, IsWallet
<1>2. Holds(mem', Len(built), FALSE)
  <2>1. CASE name = "rescan"
    <3>1. PICK from \in 0..file.scanned : mem' = Rescanned(file, from)
      BY <2>1 DEF Open
    <3>2. from \in Nat
      BY <1>1, <3>1
    <3> QED BY <1>1, <3>1, <3>2, RescannedKeeps
  <2>2. CASE name # "rescan"
    BY <1>1, <2>2 DEF Open
  <2> QED BY <2>1, <2>2
<1>3. UNCHANGED <<nodeChain, built, file>> /\ phase' = "sync" /\ tip' = 0
  BY DEF Open, nodeVars
<1> QED BY <1>1, <1>2, <1>3, WeakerHolds, CommandKeeps

LEMMA BeginKeeps ==
    ASSUME WalletInv, Begin
    PROVE  WalletInv'
<1>1. Holds(mem, Len(built), FALSE) /\ Holds(file, Len(built), FALSE)
  BY SettledElsewhere DEF Begin, WalletInv
<1>2. mem.scanned \in Nat /\ Len(nodeChain) \in Nat
  BY DEF WalletInv, Holds, IsWallet, IsList
<1>3. UNCHANGED <<nodeChain, built, mem>> /\ tip' = Len(nodeChain)
  BY DEF Begin, nodeVars
<1>4. CASE Len(nodeChain) < mem.scanned
  <2>1. file' = mem /\ phase' = "synced"
    BY <1>4 DEF Begin
  <2> QED BY <1>1, <1>2, <1>3, <2>1, WeakerHolds, CommandKeeps
<1>5. CASE ~(Len(nodeChain) < mem.scanned)
  <2>1. file' = file /\ phase' = "last"
    BY <1>5 DEF Begin
  <2>2. mem'.scanned <= tip' /\ tip' \in Nat
    BY <1>2, <1>3, <1>5
  <2>3. Holds(mem', Len(built), JustRestored')
    BY <1>1, <1>3, WeakerHolds
  <2> QED BY <1>1, <1>3, <2>1, <2>2, <2>3, CommandKeeps
<1> QED BY <1>4, <1>5

LEMMA CheckLastBlockKeeps ==
    ASSUME UnsetIsNothing, WalletAssumption, WalletInv, CheckLastBlock
    PROVE  WalletInv'
<1>1. phase = "last" /\ UNCHANGED <<nodeChain, built, file, tip>>
  BY DEF CheckLastBlock, nodeVars
<1>2. Holds(mem, Len(built), FALSE) /\ Holds(file, Len(built), FALSE)
  BY <1>1, SettledElsewhere DEF WalletInv
<1>3. mem.scanned \in Nat /\ tip \in Nat /\ Len(built) \in Nat /\ mem.scanned <= tip
  BY <1>1 DEF WalletInv, Holds, IsWallet, IsList
<1>4. CASE LastReplaced(mem, mem.scanned)
  <2>1. mem' = SteppedBack(mem)
    BY <1>4 DEF CheckLastBlock, StepBack
  <2>2. Holds(mem', Len(built), FALSE) /\ mem'.scanned <= mem.scanned
    BY <1>2, <1>3, <2>1, SteppedBackKeeps
  <2>3. mem'.scanned \in Nat
    BY <2>2 DEF Holds, IsWallet
  <2>4. mem'.scanned <= tip
    BY <1>3, <2>2, <2>3
  <2> QED BY <1>1, <1>2, <1>3, <2>2, <2>4, WeakerHolds, CommandKeeps
<1>5. CASE ~LastReplaced(mem, mem.scanned)
  <2>1. mem' = mem
    BY <1>5 DEF CheckLastBlock
  <2> QED BY <1>1, <1>2, <1>3, <2>1, WeakerHolds, CommandKeeps
<1> QED BY <1>4, <1>5

LEMMA RestoreKeeps ==
    ASSUME UnsetIsNothing, WalletInv, RestoreFromUnspent
    PROVE  WalletInv'
<1>1. /\ phase = "restore" /\ phase' = "scan" /\ mem' = ScanUnspent(mem, tip)
      /\ UNCHANGED <<nodeChain, built, file, tip>>
  BY DEF RestoreFromUnspent, nodeVars
<1>2. Holds(mem, Len(built), FALSE) /\ Holds(file, Len(built), FALSE)
  BY <1>1, SettledElsewhere DEF WalletInv
<1>3. mem.scanned \in Nat /\ tip \in Nat /\ Len(built) \in Nat /\ mem.scanned <= tip
  BY <1>1 DEF WalletInv, Holds, IsWallet, IsList
<1>4. Holds(mem', Len(built), TRUE) /\ mem'.scanned = tip
  BY <1>1, <1>2, <1>3, ScanUnspentKeeps
<1>5. JustRestored' = TRUE
  BY <1>1, <1>3, <1>4 DEF JustRestored
<1> QED BY <1>1, <1>2, <1>3, <1>4, <1>5, CommandKeeps

LEMMA ScanForwardKeeps ==
    ASSUME UnsetIsNothing, WalletAssumption, WalletInv, ScanForward
    PROVE  WalletInv'
<1> DEFINE blocks == Fetched(mem.scanned, Min({tip - mem.scanned, Page}))
           result == Scanned(mem, blocks)
<1>1. phase = "scan" /\ UNCHANGED <<nodeChain, built, file, tip>>
  BY DEF ScanForward, nodeVars
<1>2. Holds(file, Len(built), FALSE) /\ Holds(mem, Len(built), JustRestored)
  BY DEF WalletInv
<1>3. mem.scanned \in Nat /\ tip \in Nat /\ Len(built) \in Nat /\ Len(nodeChain) \in Nat
  BY DEF WalletInv, Holds, IsWallet, IsList
<1>4. CASE mem.scanned >= tip \/ blocks = <<>>
  <2>1. mem' = mem /\ phase' = AfterRound(mem)
    BY <1>4 DEF ScanForward
  <2>2. phase' \in {"last", "save"} /\ (phase' = "last" => mem.scanned < tip)
    BY <2>1 DEF AfterRound
  <2>3. Holds(mem', Len(built), JustRestored')
    <3>1. CASE mem.scanned >= tip
      <4>1. phase' = "save"
        BY <1>3, <2>2, <3>1
      <4>2. JustRestored = TRUE /\ JustRestored' = TRUE
        BY <1>1, <2>1, <3>1, <4>1 DEF JustRestored
      <4> QED BY <1>2, <2>1, <4>2
    <3>2. CASE ~(mem.scanned >= tip)
      <4>1. mem.scanned < tip
        BY <1>3, <3>2
      <4>2. Holds(mem, Len(built), FALSE)
        BY <4>1, SettledElsewhere
      <4> QED BY <2>1, <4>2, WeakerHolds
    <3> QED BY <3>1, <3>2
  <2>4. phase' \in {"last", "restore"} => mem'.scanned <= tip'
    BY <1>1, <1>3, <2>1, <2>2
  <2> QED BY <1>1, <1>2, <1>3, <2>3, <2>4, CommandKeeps
<1>5. CASE ~(mem.scanned >= tip \/ blocks = <<>>)
  <2>1. phase' = phase
    BY <1>5 DEF ScanForward
  <2>2. Holds(mem, Len(built), FALSE)
    <3>1. mem.scanned < tip
      BY <1>3, <1>5
    <3> QED BY <3>1, SettledElsewhere
  <2>3. Len(blocks) \in Nat
    <3>1. CASE mem.scanned < pruned
      BY <3>1 DEF Fetched
    <3>2. CASE ~(mem.scanned < pruned)
      <4>1. PICK last : last = Min({mem.scanned + Min({tip - mem.scanned, Page}), Len(nodeChain)})
        OBVIOUS
      <4>2. blocks = SubSeq(nodeChain, mem.scanned + 1, last)
        BY <3>2, <4>1 DEF Fetched
      <4>3. tip - mem.scanned \in Nat /\ Page \in Nat
        BY <1>3, <1>5 DEF WalletAssumption
      <4>4. Min({tip - mem.scanned, Page}) \in Nat
        BY <4>3, LeastOfTwo
      <4>5. last \in Nat
        <5>1. PICK a \in Nat : a = mem.scanned + Min({tip - mem.scanned, Page})
          BY <1>3, <4>4
        <5> QED BY <1>3, <4>1, <5>1, LeastOfTwo
      <4>6. IsList(SubSeq(nodeChain, mem.scanned + 1, last))
        BY <1>3, <4>5, PartIs
      <4> QED BY <4>2, <4>6 DEF IsList
    <3> QED BY <3>1, <3>2
  <2> HIDE DEF blocks
  <2>4. Holds(result.w, Len(built), FALSE)
    BY <1>3, <2>2, <2>3, ScannedKeeps
  <2>5. mem' = result.w \/ mem' = SteppedBack(result.w)
    BY <1>5 DEF ScanForward, StepBack, blocks
  <2> HIDE DEF result
  <2>6. Holds(mem', Len(built), FALSE)
    BY <1>3, <2>4, <2>5, SteppedBackKeeps
  <2>7. phase' \notin {"last", "restore"}
    BY <1>1, <2>1
  <2> QED BY <1>1, <1>2, <1>3, <2>6, <2>7, WeakerHolds, CommandKeeps
<1> QED BY <1>4, <1>5

LEMMA SaveKeeps ==
    ASSUME UnsetIsNothing, WalletAssumption, WalletInv, SaveSync
    PROVE  WalletInv'
<1>1. phase = "save" /\ UNCHANGED <<nodeChain, built>>
  BY DEF SaveSync
<1>2. mem.scanned \in Nat /\ tip \in Nat /\ Len(built) \in Nat
  BY DEF WalletInv, Holds, IsWallet, IsList
<1>3. Holds(file', Len(built), FALSE)
  <2>1. CASE mem.scanned >= tip
    <3>1. file' = SettleOrphans(mem)
      BY <2>1 DEF SaveSync
    <3>2. Holds(mem, Len(built), JustRestored) /\ JustRestored \in BOOLEAN
      BY DEF WalletInv, JustRestored
    <3> QED BY <1>2, <3>1, <3>2, SettleKeeps
  <2>2. CASE ~(mem.scanned >= tip)
    <3>1. file' = mem
      BY <2>2 DEF SaveSync
    <3>2. mem.scanned < tip
      BY <1>2, <2>2
    <3> QED BY <3>1, <3>2, SettledElsewhere
  <2> QED BY <2>1, <2>2
<1>4. CASE command = "send"
  <2>1. mem' = file' /\ phase' = "synced" /\ tip' = tip
    BY <1>4 DEF SaveSync
  <2> QED BY <1>1, <1>2, <1>3, <2>1, WeakerHolds, CommandKeeps
<1>5. CASE command # "send"
  <2>1. Idle
    BY <1>5 DEF SaveSync
  <2> QED BY <1>1, <1>3, <2>1, IdleKeeps
<1> QED BY <1>4, <1>5

LEMMA BuildSendKeeps ==
    ASSUME UnsetIsNothing, WalletInv, NEW inputs, BuildSend(inputs)
    PROVE  WalletInv'
<1>1. /\ phase = "synced" /\ phase' = "built" /\ UNCHANGED <<nodeChain, file, tip>>
      /\ inputs \subseteq Free(mem) /\ built' = Append(built, inputs)
  BY DEF BuildSend, nodeVars
<1>2. mem' = BuiltOn(mem, Len(built) + 1, inputs)
  BY DEF BuildSend, BuiltOn
<1>3. Len(built) \in Nat /\ IsList(built') /\ Len(built') = Len(built) + 1
  BY <1>1, AppendIs DEF WalletInv, IsList
<1>4. Holds(mem, Len(built), FALSE) /\ Holds(file, Len(built), FALSE)
  BY <1>1, SettledElsewhere DEF WalletInv
<1>5. Holds(mem', Len(built'), FALSE)
  BY <1>1, <1>2, <1>3, <1>4, BuildKeeps
<1>6. Holds(file', Len(built'), FALSE)
  BY <1>1, <1>3, <1>4, HigherKeeps
<1>7. Holds(mem', Len(built'), JustRestored')
  BY <1>5, WeakerHolds
<1> QED BY <1>1, <1>3, <1>6, <1>7 DEF WalletInv

LEMMA CancelStepKeeps ==
    ASSUME UnsetIsNothing, WalletInv, NEW p \in DOMAIN built, Cancel(p)
    PROVE  WalletInv'
<1>1. p \in Nat /\ Len(built) \in Nat
  BY DEF WalletInv, IsList
<1>2. file' = Cancelled(file, p) /\ UNCHANGED <<nodeChain, built, mem, phase, tip>>
  BY DEF Cancel, nodeVars, commandVars
<1>3. Holds(file', Len(built), FALSE)
  BY <1>1, <1>2, CancelKeeps DEF WalletInv
<1> QED BY <1>2, <1>3 DEF WalletInv, JustRestored

\* Every step keeps what the wallets hold.
LEMMA StepHolds ==
    ASSUME UnsetIsNothing, WalletAssumption, WalletInv, [WalletNext]_walletVars
    PROVE  WalletInv'
<1>1. CASE UNCHANGED walletVars
  BY <1>1 DEF walletVars, nodeVars, commandVars, WalletInv, JustRestored
<1>2. CASE \E k \in 0..Len(nodeChain) - 1, txs \in SUBSET (Given \cup broadcast) : ChainMoves(k, txs)
  BY <1>2, ChainMovesKeeps
<1>3. CASE Prune
  BY <1>3 DEF Prune, commandVars, WalletInv, JustRestored
<1>4. CASE \E name \in {"sync", "send", "rescan"} : Open(name)
  BY <1>4, OpenKeeps
<1>5. CASE Fails
  <2>1. UNCHANGED <<nodeChain, built, file>> /\ Idle
    BY <1>5 DEF Fails, nodeVars
  <2> QED BY <2>1, IdleKeeps DEF WalletInv
<1>6. CASE Begin
  BY <1>6, BeginKeeps
<1>7. CASE CheckLastBlock
  BY <1>7, CheckLastBlockKeeps
<1>8. CASE RestoreFromUnspent
  BY <1>8, RestoreKeeps
<1>9. CASE ScanForward
  BY <1>9, ScanForwardKeeps
<1>10. CASE SaveSync
  BY <1>10, SaveKeeps
<1>11. CASE SubmitPayment
  <2>1. UNCHANGED <<nodeChain, built, file, mem, tip>> /\ phase = "built" /\ phase' = "sent"
    BY <1>11 DEF SubmitPayment
  <2>2. Holds(mem, Len(built), FALSE)
    BY <2>1, SettledElsewhere
  <2>3. Holds(mem', Len(built), JustRestored')
    BY <2>1, <2>2, WeakerHolds
  <2> QED BY <2>1, <2>3 DEF WalletInv
<1>12. CASE Sends
  <2>1. UNCHANGED <<nodeChain, built>> /\ phase = "sent" /\ file' = mem /\ Idle
    BY <1>12 DEF Sends, nodeVars
  <2>2. Holds(mem, Len(built), FALSE)
    BY <2>1, SettledElsewhere
  <2> QED BY <2>1, <2>2, IdleKeeps
<1>13. CASE \E inputs \in SUBSET Free(mem) : BuildSend(inputs)
  BY <1>13, BuildSendKeeps
<1>14. CASE \E p \in DOMAIN built : Cancel(p)
  BY <1>14, CancelStepKeeps
<1> QED BY <1>1, <1>2, <1>3, <1>4, <1>5, <1>6, <1>7, <1>8, <1>9, <1>10, <1>11, <1>12, <1>13,
           <1>14 DEF WalletNext

(* What waits for a block holds its coins (WaitingHoldsCoins): however the node's
   chain is replaced or pruned, wherever a command fails, and whatever is rolled
   back, rescanned, read from the unspent outputs, found again or cancelled, no
   coin of a payment that waits is free to build another on (build_send). *)
THEOREM WaitingStays ==
    ASSUME UnsetIsNothing, WalletAssumption
    PROVE  WalletSpec => []WaitingHoldsCoins
<1>1. WalletInit => WalletInv
  BY InitHolds
<1>2. WalletInv /\ [WalletNext]_walletVars => WalletInv'
  BY StepHolds
<1>3. WalletInv => WaitingHoldsCoins
  BY DEF WalletInv, Holds, WaitingHold, Alone, WaitingHoldsCoins
<1> QED BY <1>1, <1>2, <1>3, PTL DEF WalletSpec
=============================================================================
