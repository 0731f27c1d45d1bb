------------------------------ MODULE MCWallet ------------------------------
\* A wallet that is paid two coins, one of which another copy of it may spend.
EXTENDS MCPart, Wallet

\* Transactions and coins are numbers: 1, 2, ... are the wallet's own payments and
\* their change, -1 and -2 pay it a coin each, and -3 spends the first of them.
TheirTxs == {-1, -2, -3}
TheirSpends == [t \in TheirTxs |-> IF t = -3 THEN {-1} ELSE {}]
TheirPays == [t \in TheirTxs |-> IF t = -3 THEN {} ELSE {t}]

ASSUME WalletAssumption /\ UnsetIsNothing

NextOfWallet == Pick("wallet") /\ WalletNext
=============================================================================
