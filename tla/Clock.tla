-------------------------------- MODULE Clock --------------------------------
(***************************************************************************)
(* AdjustedClock (internal/timeadjust): the median of what the peers'      *)
(* clocks differ from ours by.  A clock is [offsets, known, median].       *)
(***************************************************************************)
EXTENDS Integers, Sequences, TLC

LOCAL INSTANCE SequencesExt

CONSTANTS MinSamples, MaxSamples, MaxAllowedOffset  \* 5, 200 and 4200 in the code

ASSUME ClockAssumption == MinSamples > 0 /\ MaxSamples >= MinSamples /\ MaxAllowedOffset >= 0

NewClock == [offsets |-> <<0>>, known |-> {}, median |-> 0]

(* Below MinSamples the median stays; one out of bounds is taken for zero. *)
recalcMedian(clock) ==
  LET n == Len(clock.offsets)
      med == SortSeq(clock.offsets, <)[n \div 2 + 1]
  IN  IF n < MinSamples THEN clock
      ELSE [clock EXCEPT !.median =
              IF med \in -MaxAllowedOffset..MaxAllowedOffset THEN med ELSE 0]

(* Mutant: an address counts each time. *)
MutAddSample(clock, addr, offset) ==
  LET kept == IF Len(clock.offsets) >= MaxSamples THEN Tail(clock.offsets) ELSE clock.offsets
  IN  recalcMedian([clock EXCEPT !.offsets = Append(kept, offset)])

AddSample(clock, addr, offset) ==
  LET kept == IF Len(clock.offsets) >= MaxSamples THEN Tail(clock.offsets) ELSE clock.offsets
  IN  IF addr \in clock.known THEN clock
      ELSE recalcMedian([clock EXCEPT !.known = @ \cup {addr},
                                      !.offsets = Append(kept, offset)])

(* The clock after a sequence of [addr, offset]. *)
After(samples) ==
  FoldLeft(LAMBDA clock, s : AddSample(clock, s.addr, s.offset), NewClock, samples)
=============================================================================
