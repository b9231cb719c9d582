------------------------------ MODULE Encoding ------------------------------
(***************************************************************************)
(* What blocks, transactions and messages are on the wire and on disk:     *)
(* types/transaction.go, types/block.go, protocol/messages.go and the undo *)
(* data of utxo/utxo.go.                                                   *)
(*                                                                         *)
(* A byte is a number below Radix.  A field of fixed width (a version, a   *)
(* hash, an amount) is one byte: it is copied whole.  A value is the tuple *)
(* of its fields in the order of the Go type; a script, a string and a     *)
(* list are sequences.  Lengths of 2^63 and more are left out.             *)
(***************************************************************************)
EXTENDS Integers, Sequences, FiniteSets

LOCAL INSTANCE SequencesExt

CONSTANTS
  Radix,                              \* 256 in the code
  Short, Middle, Long,                \* bytes behind 0xFD, 0xFE, 0xFF: 2, 4 and 8
  MaxTxInputs, MaxTxOutputs, MaxScriptSize, MaxTransactions,
  MaxInv, MaxLocator, MaxAddresses, MaxString

ASSUME EncodingAssumption ==
  /\ Radix > 3
  /\ 0 < Short /\ Short < Middle /\ Middle < Long

-----------------------------------------------------------------------------
(* Variable-length integers *)

Marker(n) == Radix - 4 + n  \* 0xFD, 0xFE and 0xFF for n = 1, 2, 3

Behind == <<Short, Middle, Long>>

LittleEndian(val, width) == [i \in 1..width |-> (val \div Radix^(i - 1)) % Radix]

Number(bytes) == FoldRight(LAMBDA byte, acc : byte + Radix * acc, bytes, 0)

(* The least value that is put behind marker n. *)
Least(n) == <<Marker(1), Radix^Short, Radix^Middle>>[n]

(* The marker a value takes, 0 where it is a byte by itself. *)
Form(val) == Cardinality({n \in 1..3 : val >= Least(n)})

PutVarInt(val) ==
  IF Form(val) = 0
  THEN <<val>>
  ELSE <<Marker(Form(val))>> \o LittleEndian(val, Behind[Form(val)])

VarIntSize(val) == IF Form(val) = 0 THEN 1 ELSE 1 + Behind[Form(val)]

NotRead == -1

(* Mutant: a value may stand behind a longer marker than it needs. *)
MutReadVarIntFromBytes(data) ==
  IF data = << >> THEN NotRead
  ELSE IF data[1] < Marker(1) THEN data[1]
  ELSE LET n == data[1] - Marker(0)
       IN  IF Len(data) < 1 + Behind[n] THEN NotRead ELSE Number(SubSeq(data, 2, 1 + Behind[n]))

(* The number data starts with.  The same tests are made by ReadVarInt. *)
ReadVarIntFromBytes(data) ==
  IF data = << >> THEN NotRead
  ELSE IF data[1] < Marker(1) THEN data[1]
  ELSE LET n == data[1] - Marker(0)
           val == Number(SubSeq(data, 2, 1 + Behind[n]))
       IN  IF Len(data) < 1 + Behind[n] \/ val < Least(n) THEN NotRead ELSE val

-----------------------------------------------------------------------------
(* A reader: what is left to read, the fields read so far, and whether all  *)
(* reads went well.  After one that did not, nothing more is read.  What a  *)
(* function reads is a sequence of formats, one for each field.             *)

Field == [kind |-> "field"]
Bytes(max) == [kind |-> "bytes", max |-> max]
List(max, formats) == [kind |-> "list", max |-> max, of |-> formats]

Reader(data) == [rest |-> data, out |-> << >>, ok |-> TRUE]

(* The next n bytes as the field. *)
ReadFull(r, n) ==
  IF Len(r.rest) < n THEN [r EXCEPT !.ok = FALSE]
  ELSE [r EXCEPT !.out = Append(@, SubSeq(r.rest, 1, n)), !.rest = SubSeq(@, n + 1, Len(@))]

ReadField(r) ==
  IF r.rest = << >> THEN [r EXCEPT !.ok = FALSE]
  ELSE [r EXCEPT !.out = Append(@, Head(r.rest)), !.rest = Tail(@)]

(* [ok, val, rest]: a count or a length of at most max. *)
ReadVarInt(data, max) ==
  LET val == ReadVarIntFromBytes(data)
      used == IF data[1] < Marker(1) THEN 1 ELSE 1 + Behind[data[1] - Marker(0)]
  IN  IF val = NotRead \/ val > max THEN [ok |-> FALSE]
      ELSE [ok |-> TRUE, val |-> val, rest |-> SubSeq(data, used + 1, Len(data))]

RECURSIVE Read(_, _)

(* The fields of a list's items, val of them, as one field. *)
ReadItems(r, formats, val) ==
  LET one(acc, i) == LET item == Read([acc EXCEPT !.out = << >>], formats)
                     IN  [item EXCEPT !.out = Append(acc.out, @)]
      all == FoldLeft(one, [r EXCEPT !.out = << >>], [i \in 1..val |-> i])
  IN  [all EXCEPT !.out = Append(r.out, @)]

ReadCounted(r, format) ==
  LET counted == ReadVarInt(r.rest, format.max)
      behind == [r EXCEPT !.rest = counted.rest]
  IN  IF ~counted.ok THEN [r EXCEPT !.ok = FALSE]
      ELSE IF format.kind = "bytes" THEN ReadFull(behind, counted.val)
      ELSE ReadItems(behind, format.of, counted.val)

Read(r, formats) ==
  FoldLeft(LAMBDA acc, format : IF ~acc.ok THEN acc
                                ELSE IF format = Field THEN ReadField(acc)
                                ELSE ReadCounted(acc, format),
           r, formats)

WriteBytes(bytes) == PutVarInt(Len(bytes)) \o bytes

(* A list, given by what is written for each item. *)
WriteList(written) == PutVarInt(Len(written)) \o FlattenSeq(written)

-----------------------------------------------------------------------------
(* Transactions and blocks *)

(* <<hash, index, signature script, sequence>> *)
TxInputSerialize(in) == <<in[1], in[2]>> \o WriteBytes(in[3]) \o <<in[4]>>

TxInputDeserialize == <<Field, Field, Bytes(MaxScriptSize), Field>>

TxInputSize(in) == 2 + VarIntSize(Len(in[3])) + Len(in[3]) + 1

(* <<value, locking script>> *)
TxOutputSerialize(out) == <<out[1]>> \o WriteBytes(out[2])

TxOutputDeserialize == <<Field, Bytes(MaxScriptSize)>>

TxOutputSize(out) == 1 + VarIntSize(Len(out[2])) + Len(out[2])

(* <<version, inputs, outputs, lock time>> *)
TxSerialize(tx) ==
  <<tx[1]>> \o WriteList([i \in DOMAIN tx[2] |-> TxInputSerialize(tx[2][i])])
  \o WriteList([i \in DOMAIN tx[3] |-> TxOutputSerialize(tx[3][i])]) \o <<tx[4]>>

TxDeserialize ==
  <<Field, List(MaxTxInputs, TxInputDeserialize), List(MaxTxOutputs, TxOutputDeserialize), Field>>

SerializeSize(tx) ==
  LET sum(acc, n) == acc + n
  IN  1 + VarIntSize(Len(tx[2])) + FoldLeft(sum, 0, [i \in DOMAIN tx[2] |-> TxInputSize(tx[2][i])])
      + VarIntSize(Len(tx[3])) + FoldLeft(sum, 0, [i \in DOMAIN tx[3] |-> TxOutputSize(tx[3][i])])
      + 1

(* Version, previous block, Merkle root, timestamp, bits and nonce, each of *)
(* fixed width: what is written is the fields themselves.                   *)
HeaderSerialize(header) == [i \in 1..6 |-> header[i]]

HeaderDeserialize == <<Field, Field, Field, Field, Field, Field>>

(* The fields of the header, and the transactions. *)
BlockSerialize(block) ==
  HeaderSerialize(SubSeq(block, 1, 6))
  \o WriteList([i \in DOMAIN block[7] |-> TxSerialize(block[7][i])])

BlockDeserialize == HeaderDeserialize \o <<List(MaxTransactions, TxDeserialize)>>

-----------------------------------------------------------------------------
(* Messages *)

(* <<version, services, timestamp, receiver, sender, nonce, user agent, height>> *)
VersionEncode(m) ==
  SubSeq(m, 1, 3) \o WriteBytes(m[4]) \o WriteBytes(m[5]) \o <<m[6]>> \o WriteBytes(m[7])
  \o <<m[8]>>

VersionDecode ==
  <<Field, Field, Field, Bytes(MaxString), Bytes(MaxString), Field, Bytes(MaxString), Field>>

(* <<type, hash>> each; also what getdata asks for. *)
InvEncode(m) == WriteList(m[1])

InvDecode == <<List(MaxInv, <<Field, Field>>)>>

(* <<version, locator hashes, last hash>>; a hash in a list is <<hash>>. *)
GetBlocksEncode(m) == <<m[1]>> \o WriteList(m[2]) \o <<m[3]>>

GetBlocksDecode == <<Field, List(MaxLocator, <<Field>>), Field>>

(* A string in a list is <<string>>. *)
AddrEncode(m) == WriteList([i \in DOMAIN m[1] |-> WriteBytes(m[1][i][1])])

AddrDecode == <<List(MaxAddresses, <<Bytes(MaxString)>>)>>

-----------------------------------------------------------------------------
(* Undo data: a sequence of <<hash, index, entry>>, and an entry of the     *)
(* UTXO set: <<value, height, is coinbase, script>>.                        *)

UtxoEntrySerialize(e) == <<e[1], e[2], IF e[3] THEN 1 ELSE 0>> \o WriteBytes(e[4])

NoEntry == << >>

DeserializeUtxoEntry(data) ==
  LET rest == SubSeq(data, 4, Len(data))
      n == ReadVarIntFromBytes(rest)
      at == VarIntSize(n)
  IN  IF Len(data) < 3 \/ n = NotRead \/ Len(rest) < at + n THEN NoEntry
      ELSE <<data[1], data[2], data[3] % 2 = 1, SubSeq(rest, at + 1, at + n)>>

SerializeUndoData(undo) ==
  WriteList([i \in DOMAIN undo |->
               <<undo[i][1], undo[i][2]>> \o WriteBytes(UtxoEntrySerialize(undo[i][3]))])

(* One spent output, from the offset a reader of the loop is at. *)
ReadSpentOutput(data, acc) ==
  LET tail == SubSeq(data, acc.offset + 3, Len(data))
      n == ReadVarIntFromBytes(tail)
      from == acc.offset + 2 + VarIntSize(n)
      entry == DeserializeUtxoEntry(SubSeq(data, from + 1, from + n))
  IN  IF ~acc.ok \/ acc.offset + 2 > Len(data) \/ n = NotRead \/ from + n > Len(data)
         \/ entry = NoEntry
      THEN [acc EXCEPT !.ok = FALSE]
      ELSE [ok |-> TRUE, offset |-> from + n,
            out |-> Append(acc.out, <<data[acc.offset + 1], data[acc.offset + 2], entry>>)]

(* [ok, out]; data of no bytes are those of a block that spends nothing. *)
DeserializeUndoData(data) ==
  LET count == ReadVarIntFromBytes(data)
      start == [ok |-> count # NotRead, offset |-> VarIntSize(count), out |-> << >>]
  IN  IF data = << >> THEN [ok |-> TRUE, offset |-> 0, out |-> << >>]
      ELSE FoldLeft(LAMBDA acc, i : ReadSpentOutput(data, acc), start, [i \in 1..count |-> i])
=============================================================================
