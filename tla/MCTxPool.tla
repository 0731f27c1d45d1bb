------------------------------ MODULE MCTxPool ------------------------------
(***************************************************************************)
(* Three kernels: a and b spend the same coin, b is locked for a block and *)
(* as large as the other two, which may go as one.  The pool has room for  *)
(* two, the cache for two blocks, and one transaction is validated at a    *)
(* time.  Where something has to happen, a, b and one block are enough.    *)
(***************************************************************************)
EXTENDS MCPart, TxPool

TParts == {"a", "b", "c"}
TIns == [a |-> {"x"}, b |-> {"x"}, c |-> {"z"}]
TOuts == [a |-> {"y"}, b |-> {"y2"}, c |-> {"v"}]
TFee == [a |-> 2, b |-> 6, c |-> 2]
TSize == [a |-> 1, b |-> 2, c |-> 1]
TLock == [a |-> 0, b |-> 2, c |-> 0]
TCoins == {"x", "z"}

ASSUME TxPoolAssumption

TxNext == Pick("pool") /\ PoolNext
TxFairness == \A p \in Parts : WF_txVars(part = "pool" /\ Flushes({p}))
=============================================================================
