----------------------------- MODULE Statistics -----------------------------
(***************************************************************************)
(* StatisticsAggregator (danmaku/statistics.rs): what it counts of a       *)
(* session's messages, and the reports it gives while the session runs,    *)
(* at a checkpoint and at the end.  User names are left out.               *)
(***************************************************************************)
EXTENDS Integers, FiniteSets, Sequences, SequencesExt, HeavyHitters

CONSTANTS
  MaxTopTalkers, MaxTopWords,        (* how many a report names            *)
  TalkerCapacity, WordCapacity,      (* with_config: 8 and 4 times as many *)
  MaxRatePoints,                     (* with_config: six hours, 60 or more *)
  BucketSecs,                        (* bucket_duration_secs               *)
  Words,                             (* what texts consist of              *)
  Skipped,                           (* stop words and very short ones     *)
  Crowds,                            (* sets of messages that may be said  *)
  Never,                             (* no time                            *)
  Ends,                              (* times a checkpoint may be told     *)
  MaxMessages, MaxReports            (* bounds on a session                *)

ASSUME StatisticsAssumption ==
  /\ TalkerCapacity \in Nat \ {0} /\ WordCapacity \in Nat \ {0}
  /\ MaxRatePoints \in Nat \ {0} /\ BucketSecs \in Nat \ {0}
  /\ MaxTopTalkers \in Nat /\ MaxTopWords \in Nat /\ Never \notin Int
  /\ \A row \in 1..Depth, word \in Words \ Skipped : Column(row, word) \in 1..Width
  /\ \A some \in Crowds : \A m \in some :
       m.text \in Seq(Words) /\ m.gift \in BOOLEAN /\ m.time \in Nat

VARIABLES
  agg,      (* the aggregator                                              *)
  reports,  (* history: what finalize, by way of checkpoint, returned      *)
  crowd,    (* the messages of this session                                *)
  said,     (* history: the messages since the aggregator was new          *)
  spoken    (* history: how many messages were recorded and not reset      *)

statisticsVars == <<agg, reports, crowd, said, spoken>>

Nobody == [start |-> Never, count |-> 0]

Fresh ==
  [total |-> 0, chat |-> 0, gift |-> 0, talkers |-> EmptyTable, words |-> EmptyTable,
   sketch |-> EmptySketch, rate |-> <<>>, bucket |-> Nobody, start |-> Never]

StatisticsInit ==
  /\ agg = Fresh /\ reports = <<>> /\ said = <<>> /\ spoken = 0
  /\ crowd \in Crowds

(* The words of a text one after the other, the skipped ones left out.     *)
ProcessWords(pair, text) ==
  LET after[n \in 0..Len(text)] ==
        IF n = 0 THEN {pair}
        ELSE IF text[n] \in Skipped THEN after[n - 1]
        ELSE UNION {WordIncremented(p, WordCapacity, text[n]) : p \in after[n - 1]}
  IN  after[Len(text)]

BucketStart(time) == (time \div BucketSecs) * BucketSecs

LastOf(points, n) == SubSeq(points, Len(points) - n + 1, Len(points))

(* Points beyond the limit are forgotten, the oldest first.                *)
Pushed(rate, point) ==
  LET points == Append(rate, point)
  IN  IF Len(points) > MaxRatePoints THEN LastOf(points, MaxRatePoints) ELSE points

(* A message in another bucket, earlier or later, closes the current one.  *)
RateUpdated(a, time) ==
  LET start == BucketStart(time)
  IN  IF a.bucket.start = start
      THEN [a EXCEPT !.bucket.count = @ + 1]
      ELSE [a EXCEPT !.rate = IF a.bucket = Nobody THEN a.rate ELSE Pushed(a.rate, a.bucket),
                     !.bucket = [start |-> start, count |-> 1]]

WordsOf(a) == [table |-> a.words, sketch |-> a.sketch]

Counted(a, m, talkers, pair) ==
  [a EXCEPT !.start = IF a.start = Never THEN m.time ELSE a.start,
            !.total = a.total + 1,
            !.gift = IF m.gift THEN a.gift + 1 ELSE a.gift,
            !.chat = IF m.gift THEN a.chat ELSE a.chat + 1,
            !.talkers = talkers, !.words = pair.table, !.sketch = pair.sketch]

(* Words of gifts are not counted.                                         *)
Recorded(a, m) ==
  {RateUpdated(Counted(a, m, talkers, pair), m.time) :
     talkers \in TalkerIncremented(a.talkers, TalkerCapacity, m.user),
     pair \in IF m.gift THEN {WordsOf(a)} ELSE ProcessWords(WordsOf(a), m.text)}

RecordMessage ==
  /\ spoken < MaxMessages
  /\ \E m \in crowd :
       /\ agg' \in Recorded(agg, m)
       /\ said' = Append(said, m)
  /\ spoken' = spoken + 1
  /\ UNCHANGED <<reports, crowd>>

Report(a, rates, end, duration) ==
  [total |-> a.total, chat |-> a.chat, gift |-> a.gift,
   talkers |-> TopN(TalkerScores(a.talkers), MaxTopTalkers),
   words |-> TopN(WordScores(a.words, a.sketch), MaxTopWords),
   rates |-> rates, start |-> a.start, end |-> end, duration |-> duration]

(* Mutant: the bucket that is still open is left out.                      *)
FinalizeUnflushed(a, end) ==
  Report(a, a.rate, end, IF a.start = Never THEN 0 ELSE Max({0, end - a.start}))

(* The open bucket is flushed without regard to the limit.                 *)
Finalize(a, end) ==
  Report(a, IF a.bucket = Nobody THEN a.rate ELSE Append(a.rate, a.bucket),
         end, IF a.start = Never THEN 0 ELSE Max({0, end - a.start}))

CurrentStats(a) ==
  Report(a, a.rate \o (IF a.bucket = Nobody THEN <<>> ELSE <<a.bucket>>), Never, 0)

(* A report, and an aggregator as new.                                     *)
Checkpoint ==
  /\ Len(reports) < MaxReports
  /\ \E end \in Ends : reports' = Append(reports, [stats |-> Finalize(agg, end), of |-> said])
  /\ agg' = Fresh /\ said' = <<>>
  /\ UNCHANGED <<crowd, spoken>>

Reset ==
  /\ said # <<>>
  /\ agg' = Fresh /\ said' = <<>> /\ spoken' = spoken - Len(said)
  /\ UNCHANGED <<reports, crowd>>

StatisticsNext == RecordMessage \/ Checkpoint \/ Reset

StatisticsSpec == StatisticsInit /\ [][StatisticsNext]_statisticsVars

-----------------------------------------------------------------------------
SaidBy(user) == Cardinality({i \in DOMAIN said : said[i].user = user})

(* Where a word is in messages that are not gifts, and how often it is.    *)
PlacesOf(word, messages) ==
  UNION {{i} \X {k \in DOMAIN messages[i].text : messages[i].text[k] = word} :
         i \in {j \in DOMAIN messages : ~messages[j].gift}}

SaidWord(word) == Cardinality(PlacesOf(word, said))

Least(table, capacity) ==
  IF Cardinality(DOMAIN table) < capacity THEN 0 ELSE Min(Counts(table))

(* What other words have added to a word's columns, in the row where they   *)
(* added least.                                                            *)
Collisions(word) == Estimate(agg.sketch, word) - SaidWord(word)

(* Through every eviction, the count of a tracked user is never below what *)
(* the user said and above it by the recorded error at most; whoever is    *)
(* not tracked said no more than the least count in the table, which is at *)
(* most an equal share of all messages.  The same for words, where the     *)
(* sketch may add collisions but never takes anything away                 *)
(* (statistics.rs:79-117, 232-278).                                        *)
HeavyHittersBounded ==
  /\ \A user \in {m.user : m \in crowd} :
       IF user \in DOMAIN agg.talkers
       THEN LET talker == agg.talkers[user]
            IN  talker.count - talker.error <= SaidBy(user) /\ SaidBy(user) <= talker.count
       ELSE SaidBy(user) <= Least(agg.talkers, TalkerCapacity)
  /\ Least(agg.talkers, TalkerCapacity) * TalkerCapacity <= agg.total
  /\ \A word \in Words \ Skipped :
       IF word \in DOMAIN agg.words
       THEN LET score == WordScores(agg.words, agg.sketch)[word]
            IN  /\ SaidWord(word) <= agg.words[word].count
                /\ score <= SaidWord(word) + Max({agg.words[word].error, Collisions(word)})
       ELSE SaidWord(word) <= Least(agg.words, WordCapacity)

Bucket(messages, i) == BucketStart(messages[i].time)

(* Messages in another bucket than the message before them.                *)
Breaks(messages) ==
  {i \in DOMAIN messages : i = 1 \/ Bucket(messages, i) # Bucket(messages, i - 1)}

(* The messages from the n-th such message on, up to the next.             *)
Stretch(messages, n) ==
  {i \in DOMAIN messages : Cardinality({k \in Breaks(messages) : k <= i}) = n}

(* The buckets messages fall into, one after the other.                    *)
Series(messages) ==
  [n \in 1..Cardinality(Breaks(messages)) |->
     [start |-> Bucket(messages, Min(Stretch(messages, n))),
      count |-> Cardinality(Stretch(messages, n))]]

Accounts(stats, messages) ==
  /\ stats.total = Len(messages) /\ stats.total = stats.chat + stats.gift
  /\ LET series == Series(messages)
     IN  stats.rates = LastOf(series, Min({Len(series), MaxRatePoints + 1}))

(* What the reports count: a message is a report and a number within it.   *)
Told == UNION {{i} \X (1..reports[i].stats.total) : i \in DOMAIN reports}

(* Every report gives the rate of exactly the messages since the report    *)
(* before it, all of it but what the limit forgets, also when timestamps    *)
(* go back; checkpoints neither lose a message nor count one twice         *)
(* (statistics.rs:461-575).                                                *)
RatesAccounted ==
  /\ Accounts(CurrentStats(agg), said)
  /\ \A i \in DOMAIN reports : Accounts(reports[i].stats, reports[i].of)
  /\ spoken = agg.total + Cardinality(Told)

=============================================================================
