----------------------------- MODULE MCRecords -----------------------------
(***************************************************************************)
(* For TLC: what becomes of messages once they are decoded, statistics,    *)
(* samplers and the XML file, and the packets of a Bilibili frame they      *)
(* come from.  The four share no state, so a behaviour is one of them at   *)
(* work while the others rest.                                             *)
(***************************************************************************)
EXTENDS Statistics, Sampler, Writer, BilibiliFeed

VARIABLE part   (* the machine at work                                     *)

(* Words 1 and 2 share a column in the first row of the sketch, words 2    *)
(* and 3 in the second.                                                    *)
MCColumn(row, word) == IF row = 1 THEN (word + 1) \div 2 ELSE word \div 2 + 1

Said(user, text, gift, time) == [user |-> user, text |-> text, gift |-> gift, time |-> time]

(* Sessions of many talkers, of many words (9 is a stop word), and of      *)
(* messages whose times go forth and back over three buckets.              *)
MCCrowds ==
  {{Said(user, <<>>, user = 1, 0) : user \in 1..4},
   {Said(1, text, FALSE, 0) : text \in {<<1>>, <<2, 9>>, <<2, 3>>, <<4>>}} \union {Said(1, <<1>>, TRUE, 0)},
   {Said(1, <<>>, time = 3, time) : time \in {0, 2, 3, 5}}}

MCComments == <<"room">>

-----------------------------------------------------------------------------
MCInit ==
  /\ part \in {"statistics", "sampler", "writer", "frame"}
  /\ StatisticsInit /\ SamplerInit /\ WriterInit /\ Init
  /\ part # "statistics" => crowd = CHOOSE some \in MCCrowds : TRUE

MCNext ==
  /\ UNCHANGED part
  /\ \/ /\ part = "statistics" /\ StatisticsNext
        /\ UNCHANGED <<samplerVars, writerVars, vars>>
     \/ /\ part = "sampler" /\ SamplerNext
        /\ UNCHANGED <<statisticsVars, writerVars, vars>>
     \/ /\ part = "writer" /\ WriterNext
        /\ UNCHANGED <<statisticsVars, samplerVars, vars>>
     \/ /\ part = "frame" /\ Next
        /\ UNCHANGED <<statisticsVars, samplerVars, writerVars>>
=============================================================================
