------------------------------- MODULE MCRules -------------------------------
(***************************************************************************)
(* The rules that are functions of their input, over every input of small  *)
(* sets: Headers, TxRules, Coins, Script, Clock and Encoding, and the seen *)
(* set of BoundedHashSet.  A behaviour picks an input, or grows a chain of *)
(* headers, or adds to and removes from a seen set.                        *)
(***************************************************************************)
EXTENDS BoundedHashSet, Headers, Coins, Script, Clock, Encoding

SX == INSTANCE SequencesExt  \* its Remove is not the seen set's

VARIABLE input  \* [kind, ...], or Nothing before one is picked

rulesVars == <<input, rule, headers, set>>

Nothing == [kind |-> "nothing"]

InitRules == input = Nothing /\ InitHeaders /\ InitSet

Fresh == Len(headers) = 1 /\ set = Empty

Pick(inputs) ==
  /\ input = Nothing /\ Fresh
  /\ input' \in inputs
  /\ UNCHANGED <<rule, headers, set>>

-----------------------------------------------------------------------------
(* Targets *)

Targets == [kind : {"target"}, t : 0..(Base^(Digits - 1) - 1)]

(* A target survives the compact form: what comes back is the target        *)
(* without its low digits (two digits at least are kept), never more than   *)
(* it, and has the same compact form, so that the bits two nodes compute    *)
(* for a header are equal and the limit holds after the conversion.         *)
CompactSound ==
  input.kind = "target" =>
    LET back == CompactToBig(BigToCompact(input.t))
        n == ByteLen(input.t)
    IN  /\ back <= input.t
        /\ input.t - back < IF n <= 2 THEN 1 ELSE Base^(n - 2)
        /\ BigToCompact(back) = BigToCompact(input.t)

-----------------------------------------------------------------------------
(* Blocks over three outputs: a is a coinbase output, b and c are not, and  *)
(* d is no output.                                                          *)

Entry(value, height, coinbase) == [value |-> value, height |-> height, coinbase |-> coinbase]

Utxos == {[a |-> Entry(3, 1, TRUE), b |-> Entry(x, 0, FALSE), c |-> Entry(y, 1, FALSE)] :
            x \in {1, 6}, y \in {2, 9}}

Tx(outpoints, values, ok) ==
  [ins |-> [i \in DOMAIN outpoints |-> [out |-> outpoints[i], ok |-> ok]],
   outs |-> values, sig |-> << >>]

SeqsUpTo(S, n) == UNION {[1..k -> S] : k \in 0..n}

Amounts == {0, 1, 5, 12, 40}

SomeTxs ==
  {Tx(ins, outs, TRUE) : ins \in SeqsUpTo({"a", "b", "c"}, 2), outs \in SeqsUpTo(Amounts, 2)}
  \cup {Tx(<<"d">>, <<1>>, TRUE), Tx(<<"b">>, <<1>>, FALSE)}

OtherTxs == {Tx(<<out>>, <<1>>, TRUE) : out \in {"b", "c"}} \cup {Tx(<<"b", "c">>, <<5>>, TRUE)}

Coinbase(height, values) == [buildCoinbase(height, 0) EXCEPT !.outs = values]

BlockInputs ==
  [kind : {"block"}, utxo : Utxos, height : {2, 4},
   txs : {<<Coinbase(4, values), tx>> : values \in SeqsUpTo(Amounts, 2), tx \in SomeTxs}
         \cup {<<Coinbase(4, values), tx, other>> :
                 values \in {<<1>>, <<5>>, <<5, 5>>}, tx \in SomeTxs, other \in OtherTxs}]

SumOf(values) == SX!FoldLeft(LAMBDA acc, v : acc + v, 0, values)

(* An accepted block makes no money: its outputs, the coinbase's included,  *)
(* are worth at most the outputs it spends, each counted once, and the      *)
(* subsidy, reckoned without overflow.                                      *)
NoInflation ==
  input.kind = "block" =>
    LET txs == input.txs
        plain == Tail(txs)
        spent == UNION {SX!Range(Spent(plain[i])) : i \in DOMAIN plain}
        out == SumOf([i \in DOMAIN txs |-> SumOf(txs[i].outs)])
    IN  ValidateTransactionInputs(txs, input.utxo, input.height) # Refused =>
          out <= FoldSet(LAMBDA c, acc : acc + input.utxo[c].value, 0, spent)
                 + CalcSubsidy(input.height)

-----------------------------------------------------------------------------
(* Bodies *)

Bodies == {<<buildCoinbase(1, 4)>> \o txs : txs \in SeqsUpTo(OtherTxs, 3)}

BodyInputs == [kind : {"bodies"}, one : Bodies, two : Bodies]

(* A header stands for one body: two lists of transactions that pass with   *)
(* the same Merkle root are the same, though the tree repeats its last leaf *)
(* and lists that differ may have one root.                                 *)
BodyBound ==
  input.kind = "bodies" =>
    LET root == ComputeMerkleRoot(input.one)
    IN  ValidateBlockStructure(input.one, root, 1) /\ ValidateBlockStructure(input.two, root, 1)
          => input.one = input.two

-----------------------------------------------------------------------------
(* Templates *)

PoolTxs ==
  {Tx(<<"a">>, <<1>>, TRUE), Tx(<<"a", "b">>, <<2>>, TRUE), Tx(<<"b">>, <<1>>, TRUE),
   Tx(<<"c">>, <<1, 1>>, TRUE), Tx(<<"c">>, <<2>>, TRUE)}

TemplateInputs ==
  [kind : {"template"}, utxo : Utxos, tip : 1..7, txs : SeqsUpTo(PoolTxs, 3)]

(* The block a miner makes of its pool is valid for the height it is mined  *)
(* at, where the pool fits in a block and the coinbase has something to     *)
(* pay: what AddTx admits, one by one, ValidateBlockStructure and           *)
(* ValidateTransactionInputs accept together, fees claimed in full.         *)
MinedBlockValid ==
  input.kind = "template" =>
    LET pool == Pooled(input.txs, input.utxo, input.tip)
        txs == Template(pool, input.utxo, input.tip)
    IN  Size(txs) <= MaxBlockSize /\ Len(txs) <= MaxBlockTxCount /\ txs[1].outs[1] > 0 =>
          /\ ValidateBlockStructure(txs, ComputeMerkleRoot(txs), input.tip + 1)
          /\ ValidateTransactionInputs(txs, input.utxo, input.tip + 1) # Refused
          /\ ~ValidateBlockStructure(txs, ComputeMerkleRoot(txs), input.tip + 2)

-----------------------------------------------------------------------------
(* Payments *)

SendInputs ==
  [kind : {"send"}, tip : 1..3, amount : 0..14, feePerByte : {0, 1, 3},
   utxo : {[a |-> Entry(x, h, TRUE), b |-> Entry(y, 1, FALSE), c |-> Entry(z, 1, FALSE)] :
             x \in {3, 20}, y \in {1, 4, 9}, z \in {1, 20}, h \in {0, 1}}]

(* The coins the pool would let the wallet spend. *)
Admitted ==
  {c \in DOMAIN input.utxo :
     ValidateSingleTransaction(Tx(<<c>>, <<1>>, TRUE), input.utxo, input.tip) # Refused}

(* A payment the wallet builds pays the amount, at least the fee of its own *)
(* size, and no more than dust above the fee of a payment with change; an   *)
(* empty pool admits it when the fee of its size is enough to be relayed.   *)
(* The builder does not look at MinRelayTxFee: a payment at a lower rate is *)
(* built and then refused by the pool.                                      *)
PaymentAdmitted ==
  input.kind = "send" =>
    LET tx == BuildTransaction(input.utxo, input.amount, input.feePerByte, input.tip)
        fee == ValidateSingleTransaction(tx, input.utxo, input.tip)
        n == Len(tx.ins)
        own == EstimateFee(n, Len(tx.outs), input.feePerByte)
    IN  tx # NoTx =>
          /\ tx.outs[1] = input.amount
          /\ fee \in own..(EstimateFee(n, 2, input.feePerByte) + DustThreshold)
          /\ own >= MinRelayTxFee => tx \in Pooled(<<tx>>, input.utxo, input.tip)

(* When the wallet refuses a payment, every choice among the coins the pool *)
(* would let it spend, not only a prefix of them by value, is short of the  *)
(* amount, the fee without change and the price of a change output.  The    *)
(* last part is the code's: selectCoins asks for the fee of two outputs     *)
(* although a payment without change has one, so that a wallet that could   *)
(* pay without change, and with nothing to spare, is refused.  The balance  *)
(* the wallet reports is the value of the coins the pool lets it spend.     *)
RefusedOnlyIfShort ==
  input.kind = "send" =>
    /\ BuildTransaction(input.utxo, input.amount, input.feePerByte, input.tip) = NoTx
       /\ input.amount > 0 =>
         \A coins \in SUBSET Admitted \ {{}} :
           Value(coins, input.utxo)
             < input.amount + EstimateFee(Cardinality(coins), 1, input.feePerByte)
               + estimatedOutputSize * input.feePerByte
    /\ GetBalance(input.utxo, input.tip, 1) = Value(Admitted, input.utxo)

-----------------------------------------------------------------------------
(* Scripts that might spend an output of k1 *)

Message == "m"

Instructions ==
  {Push(Sig("k1", Message, SigHashAll)), Push(Sig("k2", Message, SigHashAll)),
   Push(Sig("k1", "other", SigHashAll)), Push(Sig("k1", Message, "none")),
   Push(Key("k1")), Push(Key("k2")), Push(Hash160(Key("k1"))), Push(NegativeZero)}
  \cup {Op(o) : o \in {"false", "1", "dup", "hash160", "equal", "equalverify", "checksig",
                       "return", "short"}}

ScriptInputs ==
  [kind : {"script"}, sigScript : SeqsUpTo(Instructions, 3)]
  \cup [kind : {"script"},
        sigScript : {s \o SignInput("k1", Message) : s \in SeqsUpTo(Instructions, 2)}
                    \cup {SignInput("k1", Message) \o s : s \in SeqsUpTo(Instructions, 2)}]

(* An output to k1 is spent by the scripts that leave k1's signature of     *)
(* this transaction and k1's key on the stack and nothing else, whatever    *)
(* else they do on the way, and by no other; the one SignInput makes is     *)
(* among them.                                                              *)
OnlyOwnerSpends ==
  input.kind = "script" =>
    LET unlocked == execute(Start, input.sigScript, Message)
    IN  Verify(input.sigScript, MakeP2PKHScript("k1"), Message) <=>
          unlocked.ok /\ unlocked.stack = <<Key("k1"), Sig("k1", Message, SigHashAll)>>

-----------------------------------------------------------------------------
(* Clocks *)

Tolerance == 2

ClockInputs ==
  [kind : {"clock"}, samples : SeqsUpTo([addr : 1..4, offset : {-9, -2, 1, 5}], 4)]

(* The first sample of each address after our own, the last MaxSamples. *)
Counts(samples) ==
  LET firsts == {i \in DOMAIN samples :
                   \A j \in 1..(i - 1) : samples[j].addr # samples[i].addr}
      all == <<0>> \o [i \in 1..Cardinality(firsts) |->
                          samples[SX!SetToSortSeq(firsts, <)[i]].offset]
      n == IF Len(all) < MaxSamples THEN Len(all) ELSE MaxSamples
  IN  SubSeq(all, Len(all) - n + 1, Len(all))

(* The clock is moved by no more than the limit, and where more than half   *)
(* of the addresses that count are within a tolerance of our clock it is    *)
(* moved by no more than that: an address counts once, however often it     *)
(* comes back.                                                              *)
MajorityClock ==
  input.kind = "clock" =>
    LET offsets == Counts(input.samples)
        close == {i \in DOMAIN offsets : offsets[i] \in -Tolerance..Tolerance}
        median == After(input.samples).median
    IN  /\ median \in -MaxAllowedOffset..MaxAllowedOffset
        /\ 2 * Cardinality(close) > Len(offsets) => median \in -Tolerance..Tolerance

-----------------------------------------------------------------------------
(* Encodings.  With Radix 5 the bytes 0 and 1 stand for themselves, a       *)
(* length of two takes the first marker and one of five the second.         *)

AnyByte == 0..(Radix - 1)

Texts == {<< >>, <<4>>, <<0, 2>>, <<3, 4, 0, 1, 2>>}

TxIns == {<<4, i, s, 2>> : i \in {0, 3}, s \in Texts}
TxOuts == {<<3, s>> : s \in Texts}
EncodedTxs ==
  {<<1, ins, outs, 4>> : ins \in {<<in>> : in \in TxIns}, outs \in SeqsUpTo(TxOuts, 2)}
  \cup {<<1, <<in, in>>, <<out>>, 0>> : in \in TxIns, out \in TxOuts}

SomeEntries == {<<3, 2, coinbase, s>> : coinbase \in BOOLEAN, s \in Texts}

Encoded(what, v) ==
  CASE what = "tx"        -> TxSerialize(v)
    [] what = "block"     -> BlockSerialize(v)
    [] what = "version"   -> VersionEncode(v)
    [] what = "inv"       -> InvEncode(v)
    [] what = "getblocks" -> GetBlocksEncode(v)
    [] what = "addr"      -> AddrEncode(v)

Formats ==
  [tx |-> TxDeserialize, block |-> BlockDeserialize, version |-> VersionDecode,
   inv |-> InvDecode, getblocks |-> GetBlocksDecode, addr |-> AddrDecode]

Decoded(what, data) == Read(Reader(data), Formats[what])

ValueInputs ==
  [kind : {"value"}, what : {"tx"}, v : EncodedTxs]
  \cup [kind : {"value"}, what : {"block"},
        v : {<<0, 1, 2, 3, 4, 0, txs>> :
               txs \in SeqsUpTo({<<1, <<<<4, 0, <<0, 2>>, 2>>>>, <<out>>, 4>> : out \in TxOuts}, 2)}]
  \cup [kind : {"value"}, what : {"version"},
        v : {<<1, 2, 3, s, t, 4, u, 0>> : s, t, u \in Texts}]
  \cup [kind : {"value"}, what : {"inv"}, v : {<<l>> : l \in SeqsUpTo({<<1, 3>>, <<2, 4>>}, 5)}]
  \cup [kind : {"value"}, what : {"getblocks"},
        v : {<<1, l, 2>> : l \in SeqsUpTo({<<0>>, <<3>>}, 5)}]
  \cup [kind : {"value"}, what : {"addr"}, v : {<<l>> : l \in SeqsUpTo({<<s>> : s \in Texts}, 3)}]

UndoInputs ==
  [kind : {"undo"}, v : SeqsUpTo({<<4, 2, e>> : e \in SomeEntries}, 3)]

NumberInputs == [kind : {"number"}, data : SeqsUpTo(AnyByte, 1 + Long)]

(* What is written reads back, and nothing else reads as it: an encoding is *)
(* read to its end as the value it was made of and is refused when cut      *)
(* short; where a byte of it is changed and it still reads as something,    *)
(* that value is written as these very bytes, so that a block or a          *)
(* transaction has one encoding and one hash; the size AddTx reckons the    *)
(* fee rate with is the length that is written.  Undo data, read by         *)
(* offsets, reads back, and no part of it reads as undo data.               *)
OneEncoding ==
  /\ input.kind = "number" =>
       LET val == ReadVarIntFromBytes(input.data)
       IN  val # NotRead => PutVarInt(val) = SubSeq(input.data, 1, VarIntSize(val))
  /\ input.kind = "value" =>
       LET data == Encoded(input.what, input.v)
           whole == Decoded(input.what, data)
       IN  /\ whole = [rest |-> << >>, out |-> input.v, ok |-> TRUE]
           /\ \A n \in 0..(Len(data) - 1) : ~Decoded(input.what, SubSeq(data, 1, n)).ok
           /\ \A i \in DOMAIN data, b \in AnyByte :
                LET r == Decoded(input.what, [data EXCEPT ![i] = b])
                IN  r.ok => Encoded(input.what, r.out) \o r.rest = [data EXCEPT ![i] = b]
           /\ input.what = "tx" => SerializeSize(input.v) = Len(data)
  /\ input.kind = "undo" =>
       LET data == SerializeUndoData(input.v)
       IN  /\ DeserializeUndoData(data) = [ok |-> TRUE, offset |-> Len(data), out |-> input.v]
           /\ \A n \in 1..(Len(data) - 1) : ~DeserializeUndoData(SubSeq(data, 1, n)).ok

-----------------------------------------------------------------------------
GrowHeaders ==
  /\ input = Nothing /\ set = Empty
  /\ \E time, now \in Times, hash \in {1, 7} : AcceptHeader(time, now, hash)
  /\ UNCHANGED <<input, set>>

UseSet == input = Nothing /\ Len(headers) = 1 /\ NextSet /\ UNCHANGED <<input, rule, headers>>

NextRules ==
  \/ Pick(Targets) \/ Pick(BlockInputs) \/ Pick(BodyInputs) \/ Pick(TemplateInputs)
  \/ Pick(SendInputs) \/ Pick(ScriptInputs) \/ Pick(ClockInputs)
  \/ Pick(NumberInputs) \/ Pick(ValueInputs) \/ Pick(UndoInputs)
  \/ GrowHeaders \/ UseSet

SpecRules == InitRules /\ [][NextRules]_rulesVars
=============================================================================
