--------------------------- MODULE FrequencyMask ---------------------------
(***************************************************************************)
(* The masks of danmaku_mask: FrequencyMask (mask_frequency.rs), the word  *)
(* blacklist and their composition, as values and the operators that       *)
(* advance them.  A text stands for its hash after normalisation; time is  *)
(* in milliseconds, or any coarser unit.                                   *)
(***************************************************************************)
EXTENDS Naturals, FiniteSets, FiniteSetsExt

CONSTANTS
  Texts,         (* normalised texts                                       *)
  Blacklist,     (* the texts in which the blacklist finds a word          *)
  BucketCount,   (* bucket_count, at least 1                               *)
  Window,        (* base_window_ms, after the minimum of 10 s              *)
  MaxFrequency   (* max_frequency                                          *)

ASSUME MaskAssumption ==
  /\ Blacklist \subseteq Texts
  /\ BucketCount \in Nat \ {0}
  /\ Window \in Nat
  /\ MaxFrequency \in Nat

(* bucket_size_ms; it is 0 when there are more buckets than milliseconds.  *)
BucketSize == Window \div BucketCount

Monus(a, b) == IF a <= b THEN 0 ELSE a - b      (* saturating_sub          *)

(* FrequencyMask::new, and what reset returns to.                          *)
NewFrequency ==
  [current |-> 0, lastShift |-> 0,
   buckets |-> [i \in 0..(BucketCount - 1) |-> [t \in Texts |-> 0]],
   freq |-> [t \in Texts |-> 0]]

(* The first call, told by lastShift = 0, starts one bucket in the past.   *)
Align(m, now) ==
  IF m.lastShift = 0 THEN [m EXCEPT !.lastShift = Monus(now, BucketSize)] ELSE m

(* How often the loop of shift_if_needed goes round.                       *)
Shifts(m, now) ==
  IF BucketSize = 0 THEN BucketCount
  ELSE Min({BucketCount, Monus(now, m.lastShift) \div BucketSize})

(* Mutant: the index runs on past the last bucket.                         *)
AdvanceRunsOn(m, k) == m.current + k

Advance(m, k) == (m.current + k) % BucketCount

(* Each round expires the current bucket and moves on; a full turn ends at *)
(* now, fewer rounds at a multiple of the bucket size.                     *)
Shift(m, now) ==
  LET k == Shifts(m, now)
      expired == {(m.current + i) % BucketCount : i \in 0..(k - 1)}
  IN  [current |-> Advance(m, k),
       lastShift |-> IF k = BucketCount THEN now ELSE m.lastShift + k * BucketSize,
       buckets |-> [i \in 0..(BucketCount - 1) |->
                      IF i \in expired THEN [t \in Texts |-> 0] ELSE m.buckets[i]],
       freq |-> [t \in Texts |->
                   Monus(m.freq[t], MapThenSumSet(LAMBDA i : m.buckets[i][t], expired))]]

ShiftIfNeeded(m, now) == Shift(Align(m, now), now)

Allowed(m, text) == m.freq[text] < MaxFrequency

(* Mutant: blocked texts are counted too, but only in the global map.      *)
HitCountsBlocked(m, text) ==
  [m EXCEPT !.freq[text] = @ + 1,
            !.buckets[m.current][text] = IF Allowed(m, text) THEN @ + 1 ELSE @]

(* Mutant: an allowed text is counted in its bucket only.                  *)
HitInBucketOnly(m, text) ==
  IF Allowed(m, text) THEN [m EXCEPT !.buckets[m.current][text] = @ + 1] ELSE m

(* An allowed text is counted in its bucket and in the global map.         *)
Hit(m, text) ==
  IF Allowed(m, text)
  THEN [m EXCEPT !.freq[text] = @ + 1, !.buckets[m.current][text] = @ + 1]
  ELSE m

-----------------------------------------------------------------------------
(* MaskConfig::build: any of the two masks, both as a composite, or none.  *)
Kinds == {"frequency", "words"}

NoMask == [kinds |-> {}, frequency |-> NewFrequency]

BuildMask(kinds) == [kinds |-> kinds, frequency |-> NewFrequency]

FrequencyBlocks(mask, text, now) ==
  "frequency" \in mask.kinds /\ ~Allowed(ShiftIfNeeded(mask.frequency, now), text)

(* contains_blacklisted, after the normalisation of the whole text.        *)
WordsBlock(mask, text) == "words" \in mask.kinds /\ text \in Blacklist

(* Mutant: the composite asks the blacklist only where there is no         *)
(* frequency mask before it.                                               *)
BlocksFirst(mask, text, now) ==
  IF "frequency" \in mask.kinds THEN FrequencyBlocks(mask, text, now)
                                ELSE WordsBlock(mask, text)

(* should_block: any of the masks blocks.                                  *)
Blocks(mask, text, now) == FrequencyBlocks(mask, text, now) \/ WordsBlock(mask, text)

(* What should_block leaves behind, whatever the verdict: the composite    *)
(* asks every mask.                                                        *)
Asked(mask, text, now) ==
  IF "frequency" \in mask.kinds
  THEN [mask EXCEPT !.frequency = Hit(ShiftIfNeeded(@, now), text)]
  ELSE mask

-----------------------------------------------------------------------------
(* What must hold of a mask.                                               *)

(* The global map is the sum of the buckets: expiry takes back exactly     *)
(* what was counted, so no text is blocked for hits that have left.        *)
FrequencyIsSum(m) ==
  \A t \in Texts : m.freq[t] = MapThenSumSet(LAMBDA i : m.buckets[i][t], 0..(BucketCount - 1))

=============================================================================
