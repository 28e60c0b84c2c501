-------------------------- MODULE ContinuityCounter --------------------------
(***************************************************************************)
(* The continuity test shared by the PSI and the PES reassembly of         *)
(* src/src/ts.c.  Every TS packet of a PID carries a counter that the      *)
(* multiplexer increments modulo 16; the reassembly buffer of the PID      *)
(* remembers the counter of the last packet it took.                       *)
(***************************************************************************)
EXTENDS Integers

CONSTANT CcModulus   \* 16 in the code: the header field is 4 bits wide

ASSUME CcModulusAssumption == CcModulus \in Nat /\ CcModulus > 2

Counters == 0 .. CcModulus - 1

NextCc(c) == IF c = CcModulus - 1 THEN 0 ELSE c + 1

(* The counter n packets after c, for n up to one turn of the counter.     *)
CcAfter(c, n) == IF c + n >= CcModulus THEN c + n - CcModulus ELSE c + n

(***************************************************************************)
(* continuity_counter_is_ok().  "repeat" and "gap" are its two `return     *)
(* false' (the second one empties the buffer first), "ok" its `return      *)
(* true'.  The test for a gap lets every packet with counter 0 through:    *)
(* `this_cc && ...' is false for it whatever the last counter was.         *)
(***************************************************************************)
IsGap(last, this) ==
  \/ last = CcModulus - 1 /\ this # 0
  \/ this # 0 /\ this - last # 1

(* Mutant: the gap test is gone.                                           *)
Verdict_NoGapTest(last, this, empty) ==
  IF last = this THEN "repeat" ELSE "ok"

(* Mutant: a repeated counter is not recognised.                           *)
Verdict_NoRepeatTest(last, this, empty) ==
  IF ~empty /\ this # last /\ IsGap(last, this) THEN "gap" ELSE "ok"

(* Mutant: a repeated counter counts as a gap.                             *)
Verdict_RepeatIsGap(last, this, empty) ==
  IF ~empty /\ IsGap(last, this) THEN "gap"
  ELSE IF last = this THEN "repeat" ELSE "ok"

Verdict(last, this, empty) ==
  CASE last = this                             -> "repeat"
    [] last # this /\ ~empty /\ IsGap(last, this) -> "gap"
    [] OTHER                                   -> "ok"
=============================================================================
