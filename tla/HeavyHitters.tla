---------------------------- MODULE HeavyHitters ----------------------------
(***************************************************************************)
(* The tables of StatisticsAggregator (danmaku/statistics.rs) that keep    *)
(* the most frequent keys in bounded space (Space-Saving), and the         *)
(* Count-Min sketch beside the table of words.  A key stands for a user    *)
(* id or a word in lower case, and is a number so that keys have the       *)
(* order of their strings.  Counters stay far below 2^64.                  *)
(***************************************************************************)
EXTENDS Naturals, FiniteSets, Sequences, SequencesExt

CONSTANTS
  Depth,          (* rows of the sketch; 4 in the code                     *)
  Width,          (* columns of a row                                      *)
  Column(_, _)    (* the column of a key in a row: hash_with_seed % width  *)

ASSUME SketchAssumption == Depth \in Nat \ {0} /\ Width \in Nat \ {0}

EmptyTable == [key \in {} |-> [count |-> 0, error |-> 0]]

EmptySketch == [row \in 1..Depth |-> [column \in 1..Width |-> 0]]

(* Every row counts a key in one of its columns, which others may share.   *)
Sketched(sketch, key) ==
  [row \in 1..Depth |-> [sketch[row] EXCEPT ![Column(row, key)] = @ + 1]]

Estimate(sketch, key) == Min({sketch[row][Column(row, key)] : row \in 1..Depth})

Counts(table) == {table[key].count : key \in DOMAIN table}

Minima(table) == {key \in DOMAIN table : table[key].count = Min(Counts(table))}

With(table, key, count, error) ==
  [other \in DOMAIN table \union {key} |->
     IF other = key THEN [count |-> count, error |-> error] ELSE table[other]]

(* Mutant: a key that takes the place of another starts at one.            *)
ReplacedAfresh(table, key, least, estimate) ==
  {With(Restrict(table, DOMAIN table \ {victim}), key, 1, least) : victim \in Minima(table)}

(* A key takes the place of one with the least count, any of them: a       *)
(* HashMap has no order.  It inherits that count as its possible error.    *)
Replaced(table, key, least, estimate) ==
  {With(Restrict(table, DOMAIN table \ {victim}), key, Max({least + 1, estimate}), least) :
     victim \in Minima(table)}

(* The tables that may result when a key is counted.                       *)
Incremented(table, capacity, key, estimate) ==
  IF key \in DOMAIN table
  THEN {[table EXCEPT ![key].count = @ + 1]}
  ELSE IF Cardinality(DOMAIN table) < capacity
  THEN {With(table, key, 1, 0)}
  ELSE Replaced(table, key, Min(Counts(table)), estimate)

(* Talkers have no sketch to estimate from.                                *)
TalkerIncremented(table, capacity, user) == Incremented(table, capacity, user, 0)

(* Tables of words, each with its sketch.                                  *)
WordIncremented(pair, capacity, word) ==
  LET sketch == Sketched(pair.sketch, word)
  IN  {[table |-> table, sketch |-> sketch] :
         table \in Incremented(pair.table, capacity, word, Estimate(sketch, word))}

TalkerScores(table) == [user \in DOMAIN table |-> table[user].count]

(* What a word is ranked and reported by.                                  *)
WordScores(table, sketch) ==
  [word \in DOMAIN table |-> Max({table[word].count, Estimate(sketch, word)})]

(* The first n keys by score, equal scores by key.                         *)
TopN(scores, n) ==
  LET Before(a, b) == scores[a] > scores[b] \/ (scores[a] = scores[b] /\ a < b)
      ranked == SetToSortSeq(DOMAIN scores, Before)
  IN  [i \in 1..Min({n, Len(ranked)}) |-> [key |-> ranked[i], count |-> scores[ranked[i]]]]

=============================================================================
