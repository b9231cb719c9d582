------------------------------- MODULE Script -------------------------------
(***************************************************************************)
(* The script engine (internal/script): what spends an output.             *)
(*                                                                         *)
(* A script is a sequence of instructions [op, data]; a push, in any of    *)
(* its encodings, has its data, and "short" is a push the script ends in   *)
(* the middle of or one of more than maxStackElemSize bytes.  Data are     *)
(* terms: keys, signatures, hashes (Hash160 has no collisions) and the     *)
(* byte strings that are one, empty or negative zero.  A message stands    *)
(* for what ComputeSigHash makes of a transaction, an input and a script.  *)
(***************************************************************************)
EXTENDS Naturals, Sequences

LOCAL INSTANCE SequencesExt

CONSTANTS
  maxScriptSize, maxStackSize, maxOpsPerScript  \* 10000, 1000 and 201 in the code

One == <<"one">>
EmptyBytes == <<"empty">>
NegativeZero == <<"negzero">>
Key(k) == <<"key", k>>
Hash160(data) == <<"hash", data>>
SigHashAll == "all"
Sig(k, message, hashType) == <<"sig", k, message, hashType>>

Push(data) == [op |-> "push", data |-> data]
Op(name) == [op |-> name, data |-> EmptyBytes]

isTrue(data) == data \notin {EmptyBytes, NegativeZero}

Bool(b) == IF b THEN One ELSE EmptyBytes

(* What CHECKSIG pushes: a signature it cannot parse, or of another hash    *)
(* type, is false and not an error.                                         *)
CheckSig(sig, key, message) ==
  Bool(\E k \in {"k1", "k2"} : key = Key(k) /\ sig = Sig(k, message, SigHashAll))

-----------------------------------------------------------------------------
(* The engine's state is [stack, ops, ok]; the stack's top comes first. *)

Fail(e) == [e EXCEPT !.ok = FALSE]

Needs(e, n, result) == IF Len(e.stack) < n THEN Fail(e) ELSE [e EXCEPT !.stack = result]

Drop(e, n) == SubSeq(e.stack, n + 1, Len(e.stack))

Apply(e, i, message) ==
  LET s == e.stack
  IN  CASE i.op = "push"        -> [e EXCEPT !.stack = <<i.data>> \o s]
        [] i.op = "false"       -> [e EXCEPT !.stack = <<EmptyBytes>> \o s]
        [] i.op = "1"           -> [e EXCEPT !.stack = <<One>> \o s]
        [] i.op = "dup"         -> Needs(e, 1, <<s[1]>> \o s)
        [] i.op = "hash160"     -> Needs(e, 1, <<Hash160(s[1])>> \o Drop(e, 1))
        [] i.op = "equal"       -> Needs(e, 2, <<Bool(s[1] = s[2])>> \o Drop(e, 2))
        [] i.op = "equalverify" ->
             IF Len(s) >= 2 /\ s[1] = s[2] THEN [e EXCEPT !.stack = Drop(e, 2)] ELSE Fail(e)
        [] i.op = "checksig"    ->
             Needs(e, 2, <<CheckSig(s[2], s[1], message)>> \o Drop(e, 2))
        [] OTHER                -> Fail(e)  \* return, short and unsupported

(* The instructions that count: all but pushes (OpFalse is one). *)
Counted(i) == i.op \notin {"push", "short", "false"}

Step(e, i, message) ==
  LET n == e.ops + IF Counted(i) THEN 1 ELSE 0
      next == Apply([e EXCEPT !.ops = n], i, message)
  IN  IF ~e.ok \/ n > maxOpsPerScript \/ Len(next.stack) > maxStackSize THEN Fail(e) ELSE next

execute(e, script, message) ==
  IF Len(script) > maxScriptSize THEN Fail(e)
  ELSE FoldLeft(LAMBDA acc, i : Step(acc, i, message), [e EXCEPT !.ops = 0], script)

Start == [stack |-> << >>, ops |-> 0, ok |-> TRUE]

(* Mutant: whatever is under the result may stay. *)
MutVerify(sigScript, pkScript, message) ==
  LET unlocked == execute(Start, sigScript, message)
      done == execute(unlocked, pkScript, message)
  IN  /\ pkScript # << >> /\ pkScript[1].op # "return"
      /\ unlocked.ok /\ done.ok
      /\ Len(done.stack) > 0 /\ isTrue(done.stack[1])

Verify(sigScript, pkScript, message) ==
  LET unlocked == execute(Start, sigScript, message)
      done == execute(unlocked, pkScript, message)
  IN  /\ pkScript # << >> /\ pkScript[1].op # "return"
      /\ unlocked.ok /\ done.ok
      /\ Len(done.stack) = 1 /\ isTrue(done.stack[1])

-----------------------------------------------------------------------------
MakeP2PKHScript(k) ==
  <<Op("dup"), Op("hash160"), Push(Hash160(Key(k))), Op("equalverify"), Op("checksig")>>

SignInput(k, message) == <<Push(Sig(k, message, SigHashAll)), Push(Key(k))>>
=============================================================================
