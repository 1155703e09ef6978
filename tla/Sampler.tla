------------------------------ MODULE Sampler ------------------------------
(***************************************************************************)
(* The samplers of danmaku/sampler.rs: when a session's statistics are to  *)
(* be sampled, at a fixed interval or at one that follows the messages.    *)
(* Time is in ticks; an interval is a fraction of ticks, <<dividend,       *)
(* divisor>>, where the code rounds to nanoseconds.  The count of messages *)
(* since the last sample is only written and is left out.                  *)
(***************************************************************************)
EXTENDS Integers, Sequences, FiniteSetsExt, SequencesExt

CONSTANTS
  SecondTicks,       (* ticks of a second                                  *)
  FixedSecs,         (* interval_secs of the fixed sampler                 *)
  MinSecs, MaxSecs,  (* min_interval_secs, max_interval_secs               *)
  Target,            (* target_danmus_per_sample                           *)
  WindowSecs,        (* window_duration; 60 in the code                    *)
  PruneAbove,        (* seconds kept before pruning; 120 in the code       *)
  NoSample,          (* no sample taken                                    *)
  MaxTick            (* bound on the clock                                 *)

(* A divisor of zero and bounds that cross are left to the caller.         *)
ASSUME SamplerAssumption ==
  /\ SecondTicks \in Nat \ {0} /\ WindowSecs \in Nat \ {0}
  /\ MinSecs \in Nat /\ MaxSecs \in Nat /\ MinSecs <= MaxSecs
  /\ FixedSecs \in Nat /\ Target \in Nat /\ PruneAbove \in Nat
  /\ NoSample \notin Int

VARIABLES
  sampler,  (* the sampler                                                 *)
  clock,    (* Utc::now(): every message is recorded when it comes         *)
  heard,    (* history: when messages came since the sampler was new       *)
  basis     (* history: the same as it was when a sample was last taken    *)

samplerVars == <<sampler, clock, heard, basis>>

Seconds(n) == <<n * SecondTicks, 1>>

Initial(kind) ==
  [kind |-> kind, last |-> NoSample, window |-> <<>>,
   interval |-> IF kind = "fixed" THEN Seconds(FixedSecs) ELSE Seconds((MinSecs + MaxSecs) \div 2)]

SamplerInit ==
  /\ \E kind \in {"fixed", "velocity"} : sampler = Initial(kind)
  /\ clock = 0 /\ heard = <<>> /\ basis = <<>>

SecondStart(time) == time - (time % SecondTicks)

Cutoff(now) == now - WindowSecs * SecondTicks

(* Mutant: what is as old as the window is taken for older.                *)
PrunedEarly(window, now) ==
  LET kept == {i \in DOMAIN window : window[i].second > Cutoff(now)}
  IN  IF kept = {} THEN <<>> ELSE SubSeq(window, Min(kept), Len(window))

(* retain: time does not go back, so what is kept of a window is its end.  *)
Pruned(window, now) ==
  LET kept == {i \in DOMAIN window : window[i].second >= Cutoff(now)}
  IN  IF kept = {} THEN <<>> ELSE SubSeq(window, Min(kept), Len(window))

(* One entry a second.  Old entries stay until there are many, and are     *)
(* only then pruned.                                                       *)
Entered(window, now) ==
  LET second == SecondStart(now)
      longer == Append(window, [second |-> second, count |-> 1])
  IN  IF window # <<>> /\ Last(window).second = second
      THEN [window EXCEPT ![Len(window)].count = @ + 1]
      ELSE IF Len(longer) > PruneAbove THEN Pruned(longer, now) ELSE longer

RecordInSampler ==
  /\ heard' = Append(heard, clock)
  /\ IF sampler.kind = "fixed" THEN UNCHANGED sampler
     ELSE sampler' = [sampler EXCEPT !.window = Entered(@, clock)]
  /\ UNCHANGED <<clock, basis>>

ShouldSample ==
  sampler.last # NoSample =>
    (clock - sampler.last) * sampler.interval[2] >= sampler.interval[1]

(* The messages of a window from an instant on, each by its second's place *)
(* in the window and its number within the second.                         *)
CountedSince(window, from) ==
  UNION {{i} \X (1..window[i].count) : i \in {j \in DOMAIN window : window[j].second >= from}}

(* The messages of the window, however many older ones are still there.    *)
Recent(window, now) == Cardinality(CountedSince(window, Cutoff(now)))

(* The time in which the target comes in at the present rate, within the   *)
(* bounds.                                                                 *)
Adjusted(recent) ==
  LET ideal == Target * WindowSecs * SecondTicks
  IN  IF recent = 0 \/ ideal > MaxSecs * SecondTicks * recent THEN Seconds(MaxSecs)
      ELSE IF ideal < MinSecs * SecondTicks * recent THEN Seconds(MinSecs)
      ELSE <<ideal, recent>>

(* A caller takes a sample when it should.                                 *)
MarkSampled ==
  /\ ShouldSample
  /\ sampler' = [sampler EXCEPT !.last = clock,
                   !.interval = IF sampler.kind = "fixed" THEN @
                                ELSE Adjusted(Recent(sampler.window, clock))]
  /\ basis' = heard
  /\ UNCHANGED <<clock, heard>>

ResetSampler ==
  /\ sampler' = Initial(sampler.kind)
  /\ heard' = <<>> /\ basis' = <<>>
  /\ UNCHANGED clock

Tick ==
  /\ clock < MaxTick
  /\ clock' = clock + 1
  /\ UNCHANGED <<sampler, heard, basis>>

(* At most two messages a tick.                                            *)
Quiet == Cardinality({i \in DOMAIN heard : heard[i] = clock}) < 2

SamplerNext == (Quiet /\ RecordInSampler) \/ MarkSampled \/ ResetSampler \/ Tick

SamplerSpec == SamplerInit /\ [][SamplerNext]_samplerVars

-----------------------------------------------------------------------------
(* However the window was pruned, the interval chosen at a sample is the   *)
(* one for all messages that came in the window before it, counted by the  *)
(* second, and within the configured bounds; a sample is due whenever the  *)
(* longest interval has passed (sampler.rs:155-244).                       *)
IntervalFollowsMessages ==
  LET window == {i \in DOMAIN basis : SecondStart(basis[i]) >= Cutoff(sampler.last)}
  IN  sampler.kind = "velocity" =>
        /\ sampler.last # NoSample => sampler.interval = Adjusted(Cardinality(window))
        /\ MinSecs * SecondTicks * sampler.interval[2] <= sampler.interval[1]
        /\ sampler.last # NoSample /\ clock - sampler.last >= MaxSecs * SecondTicks => ShouldSample

=============================================================================
