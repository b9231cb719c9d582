------------------------------ MODULE Mempool ------------------------------
(***************************************************************************)
(* The transaction pool (internal/mempool).  A transaction is a value of   *)
(* Txs; of it the pool reads the outputs it spends, the outcome of the     *)
(* checks that look at the transaction alone (structure, values, scripts,  *)
(* the minimum relay fee), and its place in the order of fee rates.        *)
(*                                                                         *)
(* Every operation holds the pool's lock from its first access to its      *)
(* return, so each is one action.  The UTXO set it validates against is    *)
(* not guarded by that lock: it is a parameter.                            *)
(***************************************************************************)
EXTENDS BlockTree, FiniteSets

CONSTANTS
  Txs,             \* the transactions that exist, coinbases excepted
  TxIns,           \* TxIns[t]: the outputs t spends
  BadTxs,          \* transactions that fail a check on themselves alone
  MatureAt,        \* MatureAt[c]: the least height of a block that may spend c
  MaxMempoolSize   \* params.MaxMempoolSize

ASSUME MempoolAssumption ==
  /\ TxIns \in [Txs -> SUBSET Coins]
  /\ \A t \in Txs : TxIns[t] # {}
  /\ BadTxs \subseteq Txs
  /\ MatureAt \in [Coins -> Nat]
  /\ MaxMempoolSize \in Nat

VARIABLES
  txs,            \* the keys of m.txs
  spentOutpoints, \* m.spentOutpoints, as a set of pairs <<output, transaction>>
  tipHeight       \* m.tipHeight, which SetTipHeight sets

pool == <<txs, spentOutpoints, tipHeight>>

-----------------------------------------------------------------------------
EmptyPool(h) == txs = {} /\ spentOutpoints = {} /\ tipHeight = h

(* consensus.ValidateSingleTransaction against a UTXO set, for a block on   *)
(* top of height h.                                                         *)
ValidateSingleTransaction(t, set, h) ==
  /\ t \notin BadTxs
  /\ TxIns[t] \subseteq set
  /\ \A c \in TxIns[t] : MatureAt[c] <= h + 1

Spent(c) == \E t \in Txs : <<c, t>> \in spentOutpoints

(* AddTx lets t in: it is not there, there is room, no transaction of the   *)
(* pool spends one of its inputs, and it is valid.                          *)
Admits(t, set) ==
  /\ t \notin txs
  /\ Cardinality(txs) < MaxMempoolSize
  /\ \A c \in TxIns[t] : ~Spent(c)
  /\ ValidateSingleTransaction(t, set, tipHeight)

(* Mutant: AddTx does not look for a conflict. *)
MutAddTx(t, set) ==
  /\ t \notin txs
  /\ ValidateSingleTransaction(t, set, tipHeight)
  /\ txs' = txs \cup {t}
  /\ spentOutpoints' = {p \in spentOutpoints : p[1] \notin TxIns[t]} \cup (TxIns[t] \X {t})
  /\ UNCHANGED tipHeight

AddTx(t, set) ==
  /\ Admits(t, set)
  /\ txs' = txs \cup {t}
  /\ spentOutpoints' = spentOutpoints \cup (TxIns[t] \X {t})
  /\ UNCHANGED tipHeight

(* RemoveTxs: each transaction of S that is in the pool leaves it, and the  *)
(* entries of its inputs leave the index.                                   *)
RemoveTxs(S) ==
  /\ txs' = txs \ S
  /\ spentOutpoints' = {p \in spentOutpoints : \A t \in S \cap txs : p[1] \notin TxIns[t]}
  /\ UNCHANGED tipHeight

SetTipHeight(h) == tipHeight' = h /\ UNCHANGED <<txs, spentOutpoints>>

(* LoadFromBytes into a new pool over set: the transactions of the dump are *)
(* added one by one, in the order of the dump, which is a map's.            *)
Load(dump, set, h) ==
  /\ \E S \in SUBSET dump :
       /\ Cardinality(S) <= MaxMempoolSize
       /\ \A t \in S : ValidateSingleTransaction(t, set, h)
       /\ \A t, u \in S : t = u \/ TxIns[t] \cap TxIns[u] = {}
       /\ \A t \in dump \ S : \/ ~ValidateSingleTransaction(t, set, h)
                              \/ \E u \in S : TxIns[t] \cap TxIns[u] # {}
                              \/ Cardinality(S) = MaxMempoolSize
       /\ txs' = S
       /\ spentOutpoints' = UNION {TxIns[t] \X {t} : t \in S}
  /\ tipHeight' = h

-----------------------------------------------------------------------------
(* The index of spent outpoints is exactly what the transactions of the     *)
(* pool spend, and no output is spent twice: a conflict is always noticed,  *)
(* and no output stays blocked by a transaction that has left.              *)
SpentIndexExact ==
  /\ spentOutpoints = {p \in Coins \X txs : p[1] \in TxIns[p[2]]}
  /\ \A t, u \in txs : t = u \/ TxIns[t] \cap TxIns[u] = {}
=============================================================================
