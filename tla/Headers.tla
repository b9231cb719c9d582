------------------------------- MODULE Headers -------------------------------
(***************************************************************************)
(* The header rules: the compact form of a target (internal/crypto/        *)
(* target.go), the retarget (consensus/pow/engine.go), the timestamp rules *)
(* (consensus/validation.go) and the timestamp a miner gives its block     *)
(* (miner.go).  A chain of headers grows by one header that the rules      *)
(* accept at a time.                                                       *)
(*                                                                         *)
(* A byte is a digit in base Base, a 256-bit number one of Digits digits.  *)
(* The hash of a header is whatever its nonce makes it, but not zero: no   *)
(* input is known that SHA-256 maps to zero.                               *)
(***************************************************************************)
EXTENDS Integers, Sequences, TLC

CONSTANTS
  Base, Digits,       \* 256 and 32 in the code
  RetargetInterval, TargetTimespan,
  InitialBits, MinBits,
  MedianCount,        \* 11 in the code
  MaxTimeFutureDrift,
  Times,              \* the values of a timestamp and of the node's clock
  MaxHeaders          \* bound on the length of the chain

ASSUME HeadersAssumption ==
  /\ Base \in {2^i : i \in 1..8} /\ Digits \in Nat /\ Times \subseteq Nat
  /\ RetargetInterval > 0 /\ TargetTimespan >= 4 /\ MedianCount > 0

VARIABLES
  rule,    \* MinTimestampRule: "median-11", or "prev+1" on regtest
  headers  \* the chain from genesis, a sequence of [time, bits]

-----------------------------------------------------------------------------
(* Compact targets: an exponent, a sign bit and a mantissa of three bytes. *)

Unit == Base^3
SignBit == Unit \div 2

CompactToBig(compact) ==
  LET mantissa == compact % SignBit
      exponent == compact \div Unit
      target == IF exponent <= 3
                THEN mantissa \div Base^(3 - exponent)
                ELSE mantissa * Base^(exponent - 3)
  IN  IF compact % Unit >= SignBit THEN -target ELSE target

ByteLen(t) == CHOOSE n \in 0..Digits : t < Base^n /\ (n > 0 => t >= Base^(n - 1))

(* Mutant: a mantissa that reaches the sign bit is left as it is. *)
MutBigToCompact(target) ==
  LET n == ByteLen(target)
      mantissa == IF n <= 3 THEN target * Base^(3 - n) ELSE target \div Base^(n - 3)
  IN  IF target = 0 THEN 0 ELSE mantissa + n * Unit

(* For a target that is not negative: no caller has a negative one. *)
BigToCompact(target) ==
  LET n == ByteLen(target)
      mantissa == IF n <= 3 THEN target * Base^(3 - n) ELSE target \div Base^(n - 3)
  IN  IF target = 0 THEN 0
      ELSE IF mantissa >= SignBit THEN mantissa \div Base + (n + 1) * Unit
      ELSE mantissa + n * Unit

CalcWork(bits) ==
  LET target == CompactToBig(bits)
  IN  IF target <= 0 THEN 0 ELSE Base^Digits \div (target + 1)

-----------------------------------------------------------------------------
(* A chain has the header of height h at h + 1.  It is the branch the new   *)
(* header is on, which buildAncestorLookup walks, active or not.            *)

getAncestor(chain, height) == chain[height + 1]

Tip(chain) == chain[Len(chain)]

(* Regtest, the network with the rule "prev+1", keeps its difficulty. *)
NoRetarget == rule = "prev+1"

Clamp(n, low, high) == IF n < low THEN low ELSE IF n > high THEN high ELSE n

(* CalcNextBits, and the bits PrepareHeader gives a template. *)
CalcNextBits(chain) ==
  LET first == getAncestor(chain, Len(chain) - RetargetInterval)
      actual == Clamp(Tip(chain).time - first.time,
                      TargetTimespan \div 4, TargetTimespan * 4)
      new == (CompactToBig(Tip(chain).bits) * actual) \div TargetTimespan
      limit == CompactToBig(MinBits)
  IN  IF NoRetarget THEN InitialBits
      ELSE IF Len(chain) % RetargetInterval # 0 THEN Tip(chain).bits
      ELSE BigToCompact(IF new > limit THEN limit ELSE new)

(* Mutant: the timestamps are not sorted. *)
MutCalcMedianTimePast(chain) ==
  LET n == IF Len(chain) < MedianCount THEN Len(chain) ELSE MedianCount
      times == [i \in 1..n |-> getAncestor(chain, Len(chain) - i).time]
  IN  times[n \div 2 + 1]

calcMedianTimePast(chain) ==
  LET n == IF Len(chain) < MedianCount THEN Len(chain) ELSE MedianCount
      times == [i \in 1..n |-> getAncestor(chain, Len(chain) - i).time]
  IN  SortSeq(times, <)[n \div 2 + 1]

ValidateHeaderTimestamp(time, chain, now) ==
  /\ time <= now + MaxTimeFutureDrift
  /\ time > IF rule = "prev+1" THEN Tip(chain).time ELSE calcMedianTimePast(chain)

(* Mutant: a target of zero is no limit. *)
MutValidateProofOfWork(hash, bits) ==
  CompactToBig(bits) = 0 \/ hash <= CompactToBig(bits)

(* For bits without a sign: CalcNextBits returns no others. *)
ValidateProofOfWork(hash, bits) == hash <= CompactToBig(bits)

(* Mutant: the miner takes the clock as it is. *)
MutTimestamp(chain, now) == now

(* The timestamp MineOne gives its header. *)
Timestamp(chain, now) == IF now <= Tip(chain).time THEN Tip(chain).time + 1 ELSE now

-----------------------------------------------------------------------------
InitHeaders ==
  /\ rule \in {"median-11", "prev+1"}
  /\ headers = <<[time |-> 0, bits |-> InitialBits]>>

(* ValidateHeader: the bits are the ones the chain asks for, and the hash   *)
(* is under the target.                                                     *)
AcceptHeader(time, now, hash) ==
  /\ Len(headers) < MaxHeaders
  /\ ValidateProofOfWork(hash, CalcNextBits(headers))
  /\ ValidateHeaderTimestamp(time, headers, now)
  /\ headers' = Append(headers, [time |-> time, bits |-> CalcNextBits(headers)])
  /\ UNCHANGED rule

-----------------------------------------------------------------------------
(* Every header of an accepted chain has a target between one and the limit *)
(* of MinBits, so that it adds work (what orders the blocks in Chain is     *)
(* never without work), and one retarget moves the target to no more than   *)
(* four times what it was, nor below a quarter of it but for the digits     *)
(* the compact form drops.  CalcNextBits has no floor: from a target below  *)
(* four it may ask for zero, and it is the proof of work that refuses every *)
(* header with these bits.                                                  *)
TargetInRange ==
  \A i \in 1..Len(headers) :
    LET target == CompactToBig(headers[i].bits)
        before == CompactToBig(headers[i - 1].bits)
    IN  /\ target \in 1..CompactToBig(MinBits)
        /\ CalcWork(headers[i].bits) >= 1
        /\ i > 1 => /\ target <= 4 * before
                    /\ target >= CompactToBig(BigToCompact(before \div 4))

(* The median time past, what a timestamp must exceed, never goes back as   *)
(* the chain grows, under either rule, though timestamps may.               *)
MedianAdvances == [][calcMedianTimePast(headers') >= calcMedianTimePast(headers)]_headers

(* A miner's timestamp is one its own node accepts, once the clock is past  *)
(* the median and the tip is not at the limit of the drift.                 *)
MinerInTime ==
  \A now \in Times :
    /\ now > calcMedianTimePast(headers)
    /\ Tip(headers).time < now + MaxTimeFutureDrift
    => ValidateHeaderTimestamp(Timestamp(headers, now), headers, now)
=============================================================================
