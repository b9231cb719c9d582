-------------------------------- MODULE Coins --------------------------------
(***************************************************************************)
(* What the wallet makes of its coins: filterSpendable, selectCoins and    *)
(* BuildTransaction (wallet/txbuilder.go), GetBalance (wallet/hdwallet.go).*)
(* The coins are the entries of the UTXO set with one of the wallet's      *)
(* scripts.  The addresses are left out: Wallet has them.                  *)
(***************************************************************************)
EXTENDS TxRules

LOCAL INSTANCE SequencesExt

CONSTANTS
  estimatedInputSize, estimatedOutputSize, txOverhead,  \* 148, 34 and 10 in the code
  DustThreshold                                         \* 546 in the code

Confirmations(entry, tipHeight) ==
  IF tipHeight >= entry.height THEN tipHeight - entry.height + 1 ELSE 0

Confirmed(entry, tipHeight, minConf) ==
  /\ Confirmations(entry, tipHeight) >= minConf
  /\ entry.coinbase => Confirmations(entry, tipHeight) >= CoinbaseMaturity

filterSpendable(utxo, tipHeight) ==
  {c \in DOMAIN utxo : Confirmed(utxo[c], tipHeight, 1)}

Value(coins, utxo) ==
  FoldSet(LAMBDA c, acc : (acc + utxo[c].value) % 2^Width, 0, coins)

GetBalance(utxo, tipHeight, minConf) ==
  Value({c \in DOMAIN utxo : Confirmed(utxo[c], tipHeight, minConf)}, utxo)

EstimateFee(inputs, outputs, feePerByte) ==
  LET size == txOverhead + inputs * estimatedInputSize + outputs * estimatedOutputSize
      fee == (size * feePerByte) % 2^Width
  IN  IF fee < 1 THEN 1 ELSE fee

(* Mutant: the smallest coins first. *)
MutLargestFirst(coins, utxo) ==
  SetToSortSeq(coins, LAMBDA a, b : utxo[a].value < utxo[b].value)

LargestFirst(coins, utxo) ==
  SetToSortSeq(coins, LAMBDA a, b : utxo[a].value > utxo[b].value)

(* Mutant: the fee is reckoned without a change output. *)
MutSelectCoins(coins, utxo, amount, feePerByte) ==
  LET sum(n) == Value(Range(SubSeq(coins, 1, n)), utxo)
      enough == {n \in 1..Len(coins) :
                   sum(n) >= (amount + EstimateFee(n, 1, feePerByte)) % 2^Width}
  IN  IF enough = {} THEN << >> ELSE SubSeq(coins, 1, Min(enough))

(* The shortest prefix that covers the amount and the fee of a payment with *)
(* change; empty when the funds do not suffice.                             *)
selectCoins(coins, utxo, amount, feePerByte) ==
  LET sum(n) == Value(Range(SubSeq(coins, 1, n)), utxo)
      enough == {n \in 1..Len(coins) :
                   sum(n) >= (amount + EstimateFee(n, 2, feePerByte)) % 2^Width}
  IN  IF enough = {} THEN << >> ELSE SubSeq(coins, 1, Min(enough))

NoTx == [ins |-> << >>, outs |-> << >>, sig |-> << >>]

(* The outputs: the payment, and change where it is more than dust both     *)
(* before and after its own cost is taken off.                              *)
Outputs(amount, total, inputs, feePerByte) ==
  LET remaining == (total - amount) % 2^Width
      change == remaining - EstimateFee(inputs, 1, feePerByte)
      newChange == (remaining - EstimateFee(inputs, 2, feePerByte)) % 2^Width
  IN  IF change > DustThreshold /\ newChange > DustThreshold
      THEN <<amount, newChange>>
      ELSE <<amount>>

(* BuildTransaction for an unlocked wallet and a good address. *)
BuildTransaction(utxo, amount, feePerByte, tipHeight) ==
  LET coins == LargestFirst(filterSpendable(utxo, tipHeight), utxo)
      selected == selectCoins(coins, utxo, amount, feePerByte)
      total == Value(Range(selected), utxo)
  IN  IF \/ amount = 0 \/ selected = << >>
         \/ (total - amount) % 2^Width < EstimateFee(Len(selected), 1, feePerByte)
      THEN NoTx
      ELSE [ins |-> [i \in DOMAIN selected |-> [out |-> selected[i], ok |-> TRUE]],
            outs |-> Outputs(amount, total, Len(selected), feePerByte),
            sig |-> << >>]
=============================================================================
