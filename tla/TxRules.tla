------------------------------- MODULE TxRules -------------------------------
(***************************************************************************)
(* What a block and a transaction must satisfy: ValidateBlockStructure     *)
(* (consensus/validation.go), ValidateTransactionInputs and                *)
(* ValidateSingleTransaction (consensus/txvalidation.go), the Merkle root  *)
(* (crypto/merkle.go), the subsidy (params.go), and the block a miner      *)
(* makes of its pool (mempool.go, miner.go).                               *)
(*                                                                         *)
(* A transaction is [ins, outs, sig]: ins a sequence of [out, ok] with the *)
(* outpoint spent and whether the script of the input is accepted (by      *)
(* script.Verify, or unseen for a legacy output), outs the values of the   *)
(* outputs, sig the coinbase script in digits of base Byte.                *)
(* It is its own id: HashTransaction has no collisions.  A UTXO set is a   *)
(* function from outpoints to [value, height, coinbase].  Of the errors    *)
(* only that there is one is kept, not which comes first.                  *)
(***************************************************************************)
EXTENDS Integers, Sequences, FiniteSets, FiniteSetsExt

LOCAL INSTANCE SequencesExt

CONSTANTS
  Width,             \* amounts are integers of Width bits, 64 in the code
  MaxMoneyValue, CoinbaseMaturity,
  InitialSubsidy, SubsidyHalvingInterval,
  MaxHalvings,       \* the halvings that leave nothing, 64 in the code
  Byte, PushBytes,   \* 256 and 4 in the code
  MaxScriptSig,      \* 100 in the code
  MaxBlockTxCount, MaxBlockSize, MinRelayTxFee

ASSUME TxRulesAssumption ==
  /\ Width \in Nat /\ MaxMoneyValue < 2^Width /\ InitialSubsidy <= MaxMoneyValue
  /\ SubsidyHalvingInterval \in Nat /\ MaxHalvings \in Nat
  /\ Byte > PushBytes /\ PushBytes > 0

Refused == -1

CoinbaseOutPoint == "none"

IsCoinbase(tx) == Len(tx.ins) = 1 /\ tx.ins[1].out = CoinbaseOutPoint

-----------------------------------------------------------------------------
(* Amounts *)

(* Mutant: the sum wraps around. *)
MutTotal(values) == FoldLeft(LAMBDA acc, v : (acc + v) % 2^Width, 0, values)

(* The sum of a sequence of amounts, refused when it overflows. *)
Total(values) ==
  FoldLeft(LAMBDA acc, v :
             LET sum == (acc + v) % 2^Width
             IN  IF acc = Refused \/ sum < acc THEN Refused ELSE sum,
           0, values)

CalcSubsidy(height) ==
  IF SubsidyHalvingInterval = 0 THEN InitialSubsidy
  ELSE IF height \div SubsidyHalvingInterval >= MaxHalvings THEN 0
  ELSE InitialSubsidy \div 2^(height \div SubsidyHalvingInterval)

-----------------------------------------------------------------------------
(* Transactions *)

Spent(tx) == [i \in DOMAIN tx.ins |-> tx.ins[i].out]

In(tx, utxo) == Total([i \in DOMAIN tx.ins |-> utxo[tx.ins[i].out].value])

Mature(entry, height) ==
  entry.coinbase => height >= entry.height /\ height - entry.height >= CoinbaseMaturity

(* What both validations ask of a transaction that is not a coinbase. *)
CheckTx(tx, utxo, height) ==
  /\ tx.ins # << >> /\ tx.outs # << >>
  /\ IsInjective(Spent(tx))
  /\ \A i \in DOMAIN tx.ins :
       tx.ins[i].out \in DOMAIN utxo /\ Mature(utxo[tx.ins[i].out], height)
  /\ \A i \in DOMAIN tx.outs : tx.outs[i] \in 1..MaxMoneyValue
  /\ In(tx, utxo) # Refused /\ Total(tx.outs) # Refused
  /\ In(tx, utxo) >= Total(tx.outs)
  /\ \A i \in DOMAIN tx.ins : tx.ins[i].ok

Fee(tx, utxo) == In(tx, utxo) - Total(tx.outs)

(* Mutant: maturity is reckoned one block too late. *)
MutValidateSingleTransaction(tx, utxo, tipHeight) ==
  IF ~IsCoinbase(tx) /\ CheckTx(tx, utxo, tipHeight + 2) THEN Fee(tx, utxo) ELSE Refused

(* The fee of a transaction for the next block, or Refused. *)
ValidateSingleTransaction(tx, utxo, tipHeight) ==
  IF ~IsCoinbase(tx) /\ CheckTx(tx, utxo, tipHeight + 1) THEN Fee(tx, utxo) ELSE Refused

(* The fees of a block, or Refused. *)
ValidateTransactionInputs(txs, utxo, height) ==
  LET plain == SelectSeq(txs, LAMBDA tx : ~IsCoinbase(tx))
      spent == FoldLeft(LAMBDA acc, tx : acc \o Spent(tx), << >>, plain)
      fees == Total([i \in DOMAIN plain |-> Fee(plain[i], utxo)])
      max == Total(<<CalcSubsidy(height), fees>>)
      claimed == Total(txs[1].outs)
  IN  IF /\ \A i \in DOMAIN txs : IsCoinbase(txs[i]) =>
              \A j \in DOMAIN txs[i].outs : txs[i].outs[j] # 0
         /\ \A i \in DOMAIN plain : CheckTx(plain[i], utxo, height)
         /\ IsInjective(spent)
         /\ fees # Refused /\ max # Refused /\ claimed # Refused
         /\ claimed <= max
      THEN fees
      ELSE Refused

-----------------------------------------------------------------------------
(* Blocks *)

(* Hashes are terms: equal only when made of the same hashes, in order. *)
NextLevel(level) ==
  [i \in 1..((Len(level) + 1) \div 2) |->
     <<level[2 * i - 1], level[IF 2 * i <= Len(level) THEN 2 * i ELSE Len(level)]>>]

RECURSIVE MerkleRoot(_)
MerkleRoot(level) == IF Len(level) = 1 THEN level[1] ELSE MerkleRoot(NextLevel(level))

ComputeMerkleRoot(txs) == MerkleRoot([i \in DOMAIN txs |-> <<txs[i]>>])

(* A height in digits, the least significant first. *)
PutLE(height) == [i \in 1..PushBytes |-> (height \div Byte^(i - 1)) % Byte]

GetLE(digits) ==
  FoldLeft(LAMBDA acc, i : acc + digits[i] * Byte^(i - 1), 0, [i \in DOMAIN digits |-> i])

(* The coinbase of height: a push of the height (the tag is left out). *)
buildCoinbase(height, value) ==
  [ins |-> <<[out |-> CoinbaseOutPoint, ok |-> TRUE]>>,
   outs |-> <<value>>, sig |-> <<PushBytes>> \o PutLE(height)]

validateCoinbaseScriptSig(sig, height) ==
  /\ Len(sig) \in 2..MaxScriptSig
  /\ sig[1] \in 1..PushBytes /\ Len(sig) >= 1 + sig[1]
  /\ GetLE(SubSeq(sig, 2, 1 + sig[1])) = height

Size(txs) == FoldLeft(LAMBDA acc, tx : acc + Len(tx.ins) + Len(tx.outs), 0, txs)

(* Mutant: duplicate transactions are not looked for. *)
MutValidateBlockStructure(txs, root, height) ==
  /\ txs # << >> /\ IsCoinbase(txs[1])
  /\ height > 0 => validateCoinbaseScriptSig(txs[1].sig, height)
  /\ \A i \in 2..Len(txs) : ~IsCoinbase(txs[i])
  /\ Len(txs) <= MaxBlockTxCount
  /\ ComputeMerkleRoot(txs) = root
  /\ Size(txs) <= MaxBlockSize
  /\ Total(txs[1].outs) # Refused

ValidateBlockStructure(txs, root, height) ==
  /\ txs # << >> /\ IsCoinbase(txs[1])
  /\ height > 0 => validateCoinbaseScriptSig(txs[1].sig, height)
  /\ \A i \in 2..Len(txs) : ~IsCoinbase(txs[i])
  /\ Len(txs) <= MaxBlockTxCount
  /\ IsInjective(txs)
  /\ ComputeMerkleRoot(txs) = root
  /\ Size(txs) <= MaxBlockSize
  /\ Total(txs[1].outs) # Refused

-----------------------------------------------------------------------------
(* What the miner makes of its pool *)

(* AddTx, one transaction after the other, on an empty pool. *)
Pooled(txs, utxo, tipHeight) ==
  FoldLeft(LAMBDA pool, tx :
             IF /\ tx \notin pool
                /\ \A other \in pool : Range(Spent(tx)) \cap Range(Spent(other)) = {}
                /\ ValidateSingleTransaction(tx, utxo, tipHeight) >= MinRelayTxFee
             THEN pool \cup {tx}
             ELSE pool,
           {}, txs)

(* BlockTemplate, in some order (the code's is by fee rate), and MineOne. *)
Template(pool, utxo, tipHeight) ==
  LET txs == SetToSeq(pool)
      fees == Total([i \in DOMAIN txs |-> Fee(txs[i], utxo)])
  IN  <<buildCoinbase(tipHeight + 1, CalcSubsidy(tipHeight + 1) + fees)>> \o txs
=============================================================================
